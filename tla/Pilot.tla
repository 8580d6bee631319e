------------------------------- MODULE Pilot --------------------------------
(***************************************************************************)
(* The pilot (scripts/pilot.py): a fixed set of documents with gold        *)
(* annotations goes through a project of its own, whose two modules run    *)
(* one after the other as in Geoparser.parse; the predictions are read     *)
(* back, the project is deleted, and only then is the report built.        *)
(*                                                                         *)
(* The pilot keeps its database in its output directory.  Pilots with one  *)
(* directory share it, and so do parses that are given it (Geoparser).     *)
(***************************************************************************)
EXTENDS Geoparser, Evaluation

CONSTANTS
  Pilots,     \* the clients that run the pilot; the others parse
  Cases,      \* the documents of the pilot
  Gold        \* their gold annotations

ASSUME PilotAssumption ==
  /\ Pilots \subseteq Clients
  /\ Cases \subseteq Docs /\ IsFiniteSet(Cases)
  /\ NoPlace = None
  /\ {a.document : a \in Gold} \subseteq Cases /\ IsFiniteSet(Gold)

\* A prediction is a list.
ASSUME ListAssumption ==
  \A r \in Recognizers : \A d \in Docs :
    \A found \in Spotted[r][d] \ {Unavailable} : IsFiniteSet(found)

VARIABLE report   \* the report of each client's last pilot, or None

pilotVars == <<allVars, report>>

PilotInit == ParseInit /\ report = [c \in Clients |-> None]

\* Both modules run, on every case, and nothing is saved.
PilotJob == {j \in Job : /\ j.docs = Cases /\ ~j.save
                         /\ j.recognizer # None /\ j.resolver # None}

StartPilot(c) ==
  /\ c \in Pilots
  /\ \E j \in PilotJob : StartParse(c, j)
  /\ report' = [report EXCEPT ![c] = None]

StartOther(c) ==
  /\ c \notin Pilots
  /\ \E j \in Job : StartParse(c, j)
  /\ UNCHANGED report

OfDocument(A, d) == {a \in A : a.document = d}

\* Mutant: the documents of the annotations are dropped.
Unqualified(A) == {[a EXCEPT !.document = None] : a \in A}

\* Spans are compared with the document they belong to.
Qualified(A) == A

Metrics(gold, predicted) ==
  [gold |-> Cardinality(UniqueSpans(gold)),
   predicted |-> Cardinality(UniqueSpans(predicted)),
   precision |-> Precision(gold, predicted),
   recall |-> Recall(gold, predicted),
   f1 |-> F1(gold, predicted),
   accuracy |-> ResolutionAccuracy(gold, predicted)]

\* Metrics for each document and for all of them together.
BuildReport(predicted) ==
  [cases |-> [d \in Cases |-> Metrics(OfDocument(Gold, d), OfDocument(predicted, d))],
   aggregate |-> Metrics(Qualified(Gold), Qualified(predicted)),
   predicted |-> predicted]

\* The report follows the deletion; an exception before it goes to the caller,
\* and so does a gold standard that contradicts itself.
EndPilot(c) ==
  /\ c \in Pilots
  /\ CleanUp(c)
  /\ report' = [report EXCEPT ![c] = IF ending[c] = "return" /\ ~Conflicting(Gold)
                                       THEN BuildReport(answer[c]) ELSE None]

EndOther(c) == c \notin Pilots /\ CleanUp(c) /\ UNCHANGED report

Work(c) ==
  /\ \/ AddTexts(c)
     \/ StartRecognizer(c)
     \/ StartResolver(c)
     \/ RunModules(c)
     \/ ReadBack(c)
     \/ RaiseInside(c)
     \/ Die(c)
  /\ UNCHANGED report

PilotNext ==
  \E c \in Clients :
    \/ StartPilot(c)
    \/ StartOther(c)
    \/ Work(c)
    \/ EndPilot(c)
    \/ EndOther(c)

PilotSpec == PilotInit /\ [][PilotNext]_pilotVars

-----------------------------------------------------------------------------
(***************************************************************************)
(* Properties.                                                             *)
(***************************************************************************)

\* The corpus scores are those of the documents together: no span of one
\* document stands in for one of another (pilot.py:137-144).
TruePositives(metrics) == IF metrics.gold = 0 THEN 0 ELSE metrics.recall[1]

Summed(each, f(_)) == FoldFunction(+, 0, [d \in Cases |-> f(each[d])])

AggregateOfDocuments ==
  \A c \in Clients :
    report[c] # None =>
      LET all == report[c].aggregate
          each == report[c].cases
      IN
      /\ all.gold = Summed(each, LAMBDA m : m.gold)
      /\ all.predicted = Summed(each, LAMBDA m : m.predicted)
      /\ TruePositives(all) = Summed(each, TruePositives)

\* Whatever a pilot predicts, leaving out the place of a toponym, or the whole
\* toponym, improves none of the distance metrics.
Silenced(predicted, t) == {predicted \ {t}, (predicted \ {t}) \cup {[t EXCEPT !.place = None]}}

SilenceNeverPays ==
  \A c \in Clients :
    report[c] # None =>
      \A t \in report[c].predicted : \A fewer \in Silenced(report[c].predicted, t) :
        NoBetter(Gold, fewer, report[c].predicted)
=============================================================================
