--------------------------- MODULE StatelessParse ---------------------------
(***************************************************************************)
(* What Geoparser.parse promises its caller, with no database in sight:    *)
(* a parse either answers for its own texts with predictions of its own    *)
(* modules or raises, and unless its caller asked for the results to be    *)
(* saved, or the process died under it, nothing of it stays behind.        *)
(***************************************************************************)
CONSTANTS Clients, Projects, Docs, Recognizers, Resolvers, Spans, Features,
          Unavailable, Spotted, Located, None

VARIABLES
  job,     \* the parse each client is inside of, or None
  result,  \* what the client's last parse returned
  ending,  \* how it ended
  kept     \* the projects left in the database by parses that have ended

vars == <<job, result, ending, kept>>

Job == [project : Projects, docs : SUBSET Docs, save : BOOLEAN,
        recognizer : Recognizers \cup {None}, resolver : Resolvers \cup {None}]
Toponym == [document : Docs, span : Spans, place : Features \cup {None}]

SpansAt(answer, d) == {t.span : t \in {u \in answer : u.document = d}}

\* What may be found in a document; no answer at all reads like an empty one.
Findings(r, d) ==
  IF r = None
    THEN {{}}
    ELSE {IF found = Unavailable THEN {} ELSE found : found \in Spotted[r][d]}

Places(s) ==
  IF s = None
    THEN {None}
    ELSE {IF place = Unavailable THEN None ELSE place : place \in Located[s]}

\* Each text has one complete prediction of the recognizer, and every toponym
\* one place that the resolver gave it.
Correct(j, answer) ==
  /\ \A t \in answer : t.document \in j.docs /\ t.place \in Places(j.resolver)
  /\ \A d \in j.docs : SpansAt(answer, d) \in Findings(j.recognizer, d)
  /\ \A t, u \in answer : t.document = u.document /\ t.span = u.span => t = u

Init ==
  /\ job = [c \in Clients |-> None]
  /\ result = [c \in Clients |-> {}]
  /\ ending = [c \in Clients |-> "none"]
  /\ kept = {}

Start(c, j) ==
  /\ job[c] = None
  /\ j.project \notin kept
  /\ \A b \in Clients : job[b] # None => job[b].project # j.project
  /\ job' = [job EXCEPT ![c] = j]
  /\ ending' = [ending EXCEPT ![c] = "none"]
  /\ UNCHANGED <<result, kept>>

End(c, how) ==
  /\ job[c] # None
  /\ job' = [job EXCEPT ![c] = None]
  /\ ending' = [ending EXCEPT ![c] = how]

Saved(c) == IF job[c].save THEN {job[c].project} ELSE {}

\* Any correct answer will do.
Answer(c) ==
  /\ End(c, "return")
  /\ result'[c] \in SUBSET Toponym /\ Correct(job[c], result'[c])
  /\ result' = [result EXCEPT ![c] = result'[c]]
  /\ kept' = kept \cup Saved(c)

Raise(c) ==
  /\ End(c, "raise")
  /\ kept' = kept \cup Saved(c)
  /\ UNCHANGED result

\* The process ends, or the deletion itself fails: the project may stay.
Die(c) ==
  /\ End(c, "die")
  /\ kept' \in {kept, kept \cup {job[c].project}}
  /\ UNCHANGED result

Next ==
  \E c \in Clients :
    \/ \E j \in Job : Start(c, j)
    \/ Answer(c)
    \/ Raise(c)
    \/ Die(c)

Spec == Init /\ [][Next]_vars
=============================================================================
