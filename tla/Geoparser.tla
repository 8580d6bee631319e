----------------------------- MODULE Geoparser ------------------------------
(***************************************************************************)
(* Geoparser.parse: a pipeline of calls on the project store.  A parse     *)
(* creates a project of its own, puts its texts in, runs its modules, and  *)
(* reads the documents back; then, whatever happened, its finally block    *)
(* deletes the project unless the caller wants it saved.                   *)
(*                                                                         *)
(* Any number of clients parse on one database.  Between its calls, and    *)
(* between the steps of a call (ProjectStore), a parse may be overtaken by *)
(* the others, may be stopped by an exception, and its process may end.    *)
(***************************************************************************)
EXTENDS ProjectStore

VARIABLES
  stage,      \* how far each client's parse has come
  job,        \* its project, texts, modules and save flag
  answer,     \* the toponyms it read back
  result,     \* what the client's last parse returned
  ending      \* how the parse is going to end, or how the last one ended

parseVars == <<stage, job, answer, result, ending>>
allVars == <<vars, parseVars>>

Job == [project : Projects, docs : SUBSET Docs, save : BOOLEAN,
        recognizer : Recognizers \cup {None}, resolver : Resolvers \cup {None}]

\* A client without a parse is told from one with a parse.
ASSUME NoneAssumption == None \notin Job

ParseInit ==
  /\ Init
  /\ stage = [c \in Clients |-> "ready"]
  /\ job = [c \in Clients |-> None]
  /\ answer = [c \in Clients |-> {}]
  /\ result = [c \in Clients |-> {}]
  /\ ending = [c \in Clients |-> "none"]

Advance(c, next) == stage' = [stage EXCEPT ![c] = next]
EndWith(c, how) == ending' = [ending EXCEPT ![c] = how]

-----------------------------------------------------------------------------
(***************************************************************************)
(* The stages of the try block.                                            *)
(***************************************************************************)

\* Mutant: a project is shared by the parses that run at once.
OpenSharedProject(p) ==
  \/ CreateProject(p)
  \/ projects[p] = "live" /\ UNCHANGED vars

\* The random name is taken to be fresh.
OpenProject(p) == CreateProject(p)

\* Document identifiers are fresh, and a parse begins only with runs to spare.
StartParse(c, j) ==
  /\ stage[c] = "ready"
  /\ runs[c] + 2 <= MaxRuns
  /\ j.docs \subseteq Uncreated(j.project)
  /\ \A b \in Clients : job[b] # None => job[b].docs \cap j.docs = {}
  /\ OpenProject(j.project)
  /\ job' = [job EXCEPT ![c] = j]
  /\ answer' = [answer EXCEPT ![c] = {}]
  /\ Advance(c, "texts")
  /\ EndWith(c, "none")
  /\ UNCHANGED result

AfterRecognizer(j) == IF j.resolver # None THEN "resolve" ELSE "read"

\* _run_modules runs whichever modules there are, the recognizer first.
AfterTexts(j) == IF j.recognizer # None THEN "recognize" ELSE AfterRecognizer(j)

AddTexts(c) ==
  /\ stage[c] = "texts"
  /\ CreateDocuments(job[c].project, job[c].docs)
  /\ Advance(c, AfterTexts(job[c]))
  /\ UNCHANGED <<job, answer, result, ending>>

StartRecognizer(c) ==
  /\ stage[c] = "recognize"
  /\ RunRecognizer(c, job[c].project, job[c].recognizer, Latest)
  /\ Advance(c, "recognizing")
  /\ UNCHANGED <<job, answer, result, ending>>

StartResolver(c) ==
  /\ stage[c] = "resolve"
  /\ RunResolver(c, job[c].project, job[c].resolver, Latest)
  /\ Advance(c, "resolving")
  /\ UNCHANGED <<job, answer, result, ending>>

\* A step of the running call; an exception inside it reaches the finally block.
RunModules(c) ==
  /\ stage[c] \in {"recognizing", "resolving"}
  /\ ClientStep(c)
  /\ IF pc'[c] # "idle"
       THEN UNCHANGED <<stage, ending>>
       ELSE IF outcome'[c] = "ok"
         THEN /\ Advance(c, IF stage[c] = "recognizing"
                              THEN AfterRecognizer(job[c]) ELSE "read")
              /\ UNCHANGED ending
         ELSE Advance(c, "finally") /\ EndWith(c, "raise")
  /\ UNCHANGED <<job, answer, result>>

-----------------------------------------------------------------------------
(***************************************************************************)
(* Reading the results.                                                    *)
(***************************************************************************)

\* The row that get_recognizer_context and get_resolver_context find or create.
TagRow(p) == IF ContextExists(p, Latest) THEN contexts[<<p, Latest>>] ELSE FreshContext

Place(c, found, row) ==
  \E place \in [found -> Features \cup {None}] :
    /\ \A x \in found : place[x] \in Locations(x, row)
    /\ answer' = [answer EXCEPT ![c] =
         {[document |-> x.document, span |-> x.span, place |-> place[x]] : x \in found}]

Read(c, row) ==
  Place(c, UNION {Toponyms(d, row) : d \in job[c].docs}, row)

\* get_documents(ids=...), by the ids that create_documents returned.  The tag
\* and the documents are read in three sessions, but they are those of the
\* parse's own project.  A document that is gone raises ValueError.
ReadBack(c) ==
  LET p == job[c].project IN
  /\ stage[c] = "read"
  /\ IF projects[p] = "live" /\ job[c].docs \subseteq documents
       THEN /\ Read(c, TagRow(p))
            /\ contexts' = [contexts EXCEPT ![<<p, Latest>>] = TagRow(p)]
            /\ EndWith(c, "return")
       ELSE /\ EndWith(c, "raise")
            /\ UNCHANGED <<answer, contexts>>
  /\ Advance(c, "finally")
  /\ UNCHANGED <<projects, documents, modules, resultVars, pc, callVars,
                 job, result>>

-----------------------------------------------------------------------------
(***************************************************************************)
(* The finally block and the other ways out.                               *)
(***************************************************************************)

Leave(c) == Advance(c, "ready") /\ job' = [job EXCEPT ![c] = None]

\* Project.delete does nothing when the project is gone already.
Discard(p) ==
  IF projects[p] = "live" THEN DeleteProject(p) ELSE UNCHANGED vars

\* Mutant: an exception skips the deletion.
CleanUpUnlessRaised(c) ==
  /\ stage[c] = "finally"
  /\ IF job[c].save \/ ending[c] = "raise"
       THEN UNCHANGED vars ELSE Discard(job[c].project)
  /\ result' = [result EXCEPT ![c] = IF ending[c] = "return" THEN answer[c] ELSE @]
  /\ Leave(c)
  /\ UNCHANGED <<answer, ending>>

\* The documents read are returned, or the exception goes on, only after this.
CleanUp(c) ==
  /\ stage[c] = "finally"
  /\ IF job[c].save THEN UNCHANGED vars ELSE Discard(job[c].project)
  /\ result' = [result EXCEPT ![c] = IF ending[c] = "return" THEN answer[c] ELSE @]
  /\ Leave(c)
  /\ UNCHANGED <<answer, ending>>

\* Stop whatever call is running.
Stop(c) == IF pc[c] = "idle" THEN UNCHANGED vars ELSE Interrupt(c)

\* An exception in the try block, inside a call of the store or between two.
RaiseInside(c) ==
  /\ stage[c] \notin {"ready", "finally"}
  /\ Stop(c)
  /\ Advance(c, "finally")
  /\ EndWith(c, "raise")
  /\ UNCHANGED <<job, answer, result>>

\* The process ends, or the deletion raises.
Die(c) ==
  /\ stage[c] # "ready"
  /\ Stop(c)
  /\ Leave(c)
  /\ EndWith(c, "die")
  /\ UNCHANGED <<answer, result>>

-----------------------------------------------------------------------------
ParseNext ==
  \E c \in Clients :
    \/ \E j \in Job : StartParse(c, j)
    \/ AddTexts(c)
    \/ StartRecognizer(c)
    \/ StartResolver(c)
    \/ RunModules(c)
    \/ ReadBack(c)
    \/ CleanUp(c)
    \/ RaiseInside(c)
    \/ Die(c)

ParseSpec == ParseInit /\ [][ParseNext]_allVars

-----------------------------------------------------------------------------
(***************************************************************************)
(* Properties.                                                             *)
(***************************************************************************)

\* The projects that no running parse works in.
Kept == {p \in Projects : /\ projects[p] = "live"
                          /\ \A c \in Clients : job[c] # None => job[c].project # p}

\* A parse answers correctly or raises, and leaves nothing behind unless it was
\* asked to or died: parse "stateless by default" (geoparser.py:80-82).
Stateless == INSTANCE StatelessParse WITH
  ending <- [c \in Clients |-> IF job[c] = None THEN ending[c] ELSE "none"],
  kept <- Kept

ImplementsStatelessParse == Stateless!Spec

\* Concurrent parses never work on the same document, so even without locks no
\* text is processed twice by one module.
ParsesDisjoint == contended = {} /\ NeverProcessedTwice
=============================================================================
