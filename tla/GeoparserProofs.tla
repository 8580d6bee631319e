--------------------------- MODULE GeoparserProofs ---------------------------
(***************************************************************************)
(* The project store and the parses on it, for every number of clients,    *)
(* projects, texts and modules, and for every answer the modules may give. *)
(*                                                                         *)
(* First the store's own promises, to any clients.  Then Geoparser.parse   *)
(* and the pilot: parses that share a database never meet in it, and each  *)
(* does what StatelessParse promises its caller.  Last, the pilot's report *)
(* adds up.                                                                *)
(***************************************************************************)
EXTENDS Pilot, FiniteSetTheorems, WellFoundedInduction, TLAPS

-----------------------------------------------------------------------------
(***************************************************************************)
(* Type correctness.                                                       *)
(***************************************************************************)

\* An ended call leaves its client's variables well typed.
LEMMA ReturnTyped ==
  ASSUME CallsTypeOK, NEW c \in Clients, NEW verdict \in {"ok", "failed"},
         Return(c, verdict)
  PROVE  CallsTypeOK'
<1>1. /\ NoContext \in ContextRow
      /\ {} \in (SUBSET Docs) \cup (SUBSET Reference)
  BY DEF NoContext, ContextRow
<1>2. \A b \in Clients : pc'[b] # "idle" => call'[b] \in Call
  BY DEF Return, CallsTypeOK
<1>3. QED BY <1>1, <1>2 DEF Return, CallsTypeOK

\* A client that is at a step makes a call on a project with one of its modules.
LEMMA CallTyped ==
  ASSUME TypeOK, NEW c \in Clients, pc[c] # "idle"
  PROVE  /\ call[c] \in Call
         /\ call[c].op \in {"recognize", "resolve"}
         /\ call[c].project \in Projects
         /\ call[c].tag \in Tags
         /\ call[c].module \in Modules
         /\ call[c].op = "recognize" => call[c].module \in Recognizers
         /\ call[c].op = "resolve" => call[c].module \in Resolvers
  BY DEF TypeOK, CallsTypeOK, Call, Modules

\* Fail changes the client only.
LEMMA FailTyped ==
  ASSUME TypeOK, NEW c \in Clients, Fail(c)
  PROVE  TypeOK'
<1>1. Return(c, "failed") /\ UNCHANGED dbVars BY DEF Fail
<1>2. QED BY <1>1, ReturnTyped DEF TypeOK, RowsTypeOK, dbVars

\* Every step keeps every variable typed.
LEMMA TypeStable ==
  ASSUME TypeOK, [Next]_vars
  PROVE  TypeOK'
<1>1. ASSUME NEW p \in Projects, CreateProject(p) PROVE TypeOK'
  BY <1>1 DEF CreateProject, TypeOK, RowsTypeOK, CallsTypeOK, resultVars, callVars
<1>2. ASSUME NEW p \in Projects, NEW D \in SUBSET Uncreated(p), CreateDocuments(p, D)
      PROVE  TypeOK'
  BY <1>2 DEF CreateDocuments, Uncreated, TypeOK, RowsTypeOK, CallsTypeOK, resultVars, callVars
<1>3. ASSUME NEW p \in Projects, DeleteProject(p) PROVE TypeOK'
  BY <1>3 DEF DeleteProject, TypeOK, RowsTypeOK, CallsTypeOK, callVars, NoContext, ContextRow
<1>4. ASSUME NEW c \in Clients, NEW a \in Call, Begin(c, a) PROVE TypeOK'
  BY <1>4 DEF Begin, Goto, TypeOK, RowsTypeOK, CallsTypeOK, dbVars, Steps
<1>5. ASSUME NEW c \in Clients, NEW p \in Projects, NEW r \in Recognizers,
             NEW t \in Tags, RunRecognizer(c, p, r, t)
      PROVE  TypeOK'
  <2>1. [op |-> "recognize", project |-> p, module |-> r, tag |-> t] \in Call
    BY DEF Call
  <2>2. QED BY <1>4, <1>5, <2>1 DEF RunRecognizer
<1>6. ASSUME NEW c \in Clients, NEW p \in Projects, NEW s \in Resolvers,
             NEW t \in Tags, RunResolver(c, p, s, t)
      PROVE  TypeOK'
  <2>1. [op |-> "resolve", project |-> p, module |-> s, tag |-> t] \in Call
    BY DEF Call
  <2>2. QED BY <1>4, <1>6, <2>1 DEF RunResolver
<1>7. ASSUME NEW c \in Clients, OpenContext(c) PROVE TypeOK'
  BY <1>7 DEF OpenContext, ReadContext, Goto, TypeOK, RowsTypeOK, CallsTypeOK, dbVars, callVars, Steps
<1>8. ASSUME NEW c \in Clients, NEW step \in {"open_insert", "tag_insert"},
             NEW next \in {"load", "tag_load"}, NEW t \in Tags,
             InsertContext(c, step, t, next)
      PROVE  TypeOK'
  <2>1. CASE Fail(c) BY <2>1, FailTyped
  <2>2. CASE /\ contexts' = [contexts EXCEPT ![<<call[c].project, t>>] = FreshContext]
             /\ Goto(c, next)
             /\ UNCHANGED <<projects, documents, modules, resultVars, callVars>>
             /\ pc[c] = step
    <3>1. FreshContext \in ContextRow
      BY DEF FreshContext, NoContext, ContextRow
    <3>2. contexts' \in [Projects \X Tags -> ContextRow]
      BY <2>2, <3>1 DEF TypeOK, RowsTypeOK, CallsTypeOK
    <3>3. QED BY <2>2, <3>2 DEF Goto, TypeOK, RowsTypeOK, CallsTypeOK, Steps, resultVars, callVars
  <2>3. QED BY <1>8, <2>1, <2>2 DEF InsertContext
<1>9. ASSUME NEW c \in Clients, OpenInsert(c) PROVE TypeOK'
  BY <1>8, <1>9, TagAssumption DEF OpenInsert
<1>10. ASSUME NEW c \in Clients, LoadDocuments(c) PROVE TypeOK'
  <2>1. /\ DocumentsOf(call[c].project) \in SUBSET Docs
        /\ ReferencesOf(call[c].project) \in SUBSET Reference
    BY DEF DocumentsOf, ReferencesOf, TypeOK, RowsTypeOK, CallsTypeOK
  <2>2. QED BY <1>10, <2>1 DEF LoadDocuments, Goto, TypeOK, RowsTypeOK, CallsTypeOK, Steps, dbVars
<1>11. ASSUME NEW c \in Clients, EnsureModule(c) PROVE TypeOK'
  BY <1>11 DEF EnsureModule, Goto, TypeOK, RowsTypeOK, CallsTypeOK, Steps, dbVars, callVars
<1>12. ASSUME NEW c \in Clients, RegisterModule(c) PROVE TypeOK'
  <2>1. CASE Fail(c) BY <2>1, FailTyped
  <2>2. CASE call[c].module \notin modules
    <3>1. call[c].module \in Modules BY <1>12, CallTyped DEF RegisterModule
    <3>2. QED BY <1>12, <2>2, <3>1
              DEF RegisterModule, Goto, TypeOK, RowsTypeOK, CallsTypeOK, Steps, resultVars, callVars
  <2>3. QED BY <1>12, <2>1, <2>2 DEF RegisterModule
<1>13. ASSUME NEW c \in Clients, Filter(c) PROVE TypeOK'
  <2>1. Unprocessed(c) \in (SUBSET Docs) \cup (SUBSET Reference)
    <3>1. items[c] \in (SUBSET Docs) \cup (SUBSET Reference) BY DEF TypeOK, RowsTypeOK, CallsTypeOK
    <3>2. Unprocessed(c) \subseteq items[c] BY DEF Unprocessed
    <3>3. QED BY <3>1, <3>2
  <2>2. call[c].module \in Modules BY <1>13, CallTyped DEF Filter
  <2>3. contended' \subseteq (Docs \cup Reference) \X Modules
    BY <1>13, <2>1, <2>2 DEF Filter, TypeOK, RowsTypeOK, CallsTypeOK
  <2>4. QED BY <1>13, <2>1, <2>3 DEF Filter, Goto, TypeOK, RowsTypeOK, CallsTypeOK, Steps, dbVars
<1>14. ASSUME NEW c \in Clients, CommitRecognition(c) PROVE TypeOK'
  <2>1. CASE Fail(c) BY <2>1, FailTyped
  <2>2. ASSUME NEW predicted, predicted \subseteq documents, NEW found,
               InsertRecognitions(c, predicted, found)
        PROVE  TypeOK'
    <3>1. ThisRun(c) \in RunId BY DEF ThisRun, RunId, TypeOK, RowsTypeOK, CallsTypeOK
    <3>2. call[c].module \in Recognizers
      BY <1>14, CallTyped DEF CommitRecognition
    <3>3. predicted \subseteq Docs BY <2>2 DEF TypeOK, RowsTypeOK, CallsTypeOK
    <3>4. references' \subseteq Reference
      BY <2>2, <3>1, <3>2, <3>3 DEF InsertRecognitions, Reference, TypeOK, RowsTypeOK, CallsTypeOK
    <3>5. recognitions' \subseteq Recognition
      BY <2>2, <3>1, <3>2, <3>3 DEF InsertRecognitions, Recognition, TypeOK, RowsTypeOK, CallsTypeOK
    <3>6. call[c] \in Call BY <1>14, CallTyped DEF CommitRecognition
    <3>7. QED BY <2>2, <3>4, <3>5, <3>6 DEF InsertRecognitions, Goto, TypeOK, RowsTypeOK, CallsTypeOK, Steps, callVars
  <2>3. QED BY <1>14, <2>1, <2>2 DEF CommitRecognition
<1>15. ASSUME NEW c \in Clients, CommitResolution(c) PROVE TypeOK'
  <2>1. CASE Fail(c) BY <2>1, FailTyped
  <2>2. ASSUME NEW predicted, predicted \subseteq references,
               NEW place, \A x \in predicted : place[x] \in Installed,
               InsertResolutions(c, predicted, place)
        PROVE  TypeOK'
    <3>1. ThisRun(c) \in RunId BY DEF ThisRun, RunId, TypeOK, RowsTypeOK, CallsTypeOK
    <3>2. call[c].module \in Resolvers
      BY <1>15, CallTyped DEF CommitResolution
    <3>3. predicted \subseteq Reference BY <2>2 DEF TypeOK, RowsTypeOK, CallsTypeOK
    <3>4. referents' \subseteq Referent
      BY <2>2, <3>1, <3>2, <3>3, PredictionAssumption
      DEF InsertResolutions, Referent, TypeOK, RowsTypeOK, CallsTypeOK
    <3>5. resolutions' \subseteq Resolution
      BY <2>2, <3>1, <3>2, <3>3 DEF InsertResolutions, Resolution, TypeOK, RowsTypeOK, CallsTypeOK
    <3>6. call[c] \in Call BY <1>15, CallTyped DEF CommitResolution
    <3>7. QED BY <2>2, <3>4, <3>5, <3>6 DEF InsertResolutions, Goto, TypeOK, RowsTypeOK, CallsTypeOK, Steps, callVars
  <2>3. QED BY <1>15, <2>1, <2>2 DEF CommitResolution
<1>16. ASSUME NEW c \in Clients, TagContext(c) PROVE TypeOK'
  BY <1>16 DEF TagContext, ReadContext, Goto, TypeOK, RowsTypeOK, CallsTypeOK, dbVars, callVars, Steps
<1>17. ASSUME NEW c \in Clients, TagInsert(c) PROVE TypeOK'
  <2>1. call[c].tag \in Tags
    BY <1>17, CallTyped DEF TagInsert, InsertContext
  <2>2. QED BY <1>8, <1>17, <2>1 DEF TagInsert
<1>18. ASSUME NEW c \in Clients, LoadContext(c) PROVE TypeOK'
  <2>1. CASE Fail(c) BY <2>1, FailTyped
  <2>2. CASE ContextExists(call[c].project, call[c].tag)
    <3>1. contexts[<<call[c].project, call[c].tag>>] \in ContextRow
      BY <1>18, CallTyped DEF LoadContext, TypeOK, RowsTypeOK, CallsTypeOK
    <3>2. QED BY <1>18, <2>2, <3>1 DEF LoadContext, Goto, TypeOK, RowsTypeOK, CallsTypeOK, Steps, dbVars
  <2>3. QED BY <1>18, <2>1, <2>2 DEF LoadContext
<1>19. ASSUME NEW c \in Clients, WriteContext(c) PROVE TypeOK'
  <2> DEFINE k == <<call[c].project, call[c].tag>>
  <2>1. CASE Fail(c) BY <2>1, FailTyped
  <2>2. CASE ContextExists(call[c].project, call[c].tag)
    <3>1. k \in Projects \X Tags BY <1>19, CallTyped DEF WriteContext
    <3>2. contexts[k] \in ContextRow BY <3>1 DEF TypeOK, RowsTypeOK, CallsTypeOK
    <3>3. WithModule(contexts[k], c) \in ContextRow
      BY <1>19, <3>2, CallTyped DEF WriteContext, WithModule, ContextRow
    <3>4. contexts' = [contexts EXCEPT ![k] = WithModule(contexts[k], c)]
      BY <1>19, <2>2 DEF WriteContext
    <3>5. contexts' \in [Projects \X Tags -> ContextRow]
      BY <3>1, <3>3, <3>4 DEF TypeOK, RowsTypeOK, CallsTypeOK
    <3>6. Return(c, "ok") /\ UNCHANGED <<projects, documents, modules, resultVars>>
      BY <1>19, <2>2 DEF WriteContext
    <3>7. QED BY <3>5, <3>6, ReturnTyped DEF TypeOK, RowsTypeOK, resultVars
  <2>3. QED BY <1>19, <2>1, <2>2 DEF WriteContext
<1>20. ASSUME NEW c \in Clients, Interrupt(c) PROVE TypeOK'
  BY <1>20, FailTyped DEF Interrupt
<1>21. CASE UNCHANGED vars
  BY <1>21 DEF vars, dbVars, callVars, TypeOK, RowsTypeOK, CallsTypeOK
<1>22. QED
  BY <1>1, <1>2, <1>3, <1>5, <1>6, <1>7, <1>9, <1>10, <1>11, <1>12, <1>13,
     <1>14, <1>15, <1>16, <1>17, <1>18, <1>19, <1>20, <1>21
     DEF Next, ClientStep

\* The type invariant holds in every reachable state.
THEOREM TypeCorrect == Spec => []TypeOK
<1>1. Init => TypeOK
  BY TagAssumption DEF Init, TypeOK, RowsTypeOK, CallsTypeOK, ContextRow, NoContext, Modules
<1>2. TypeOK /\ [Next]_vars => TypeOK'
  BY TypeStable
<1>3. QED BY <1>1, <1>2, PTL DEF Spec

-----------------------------------------------------------------------------
(***************************************************************************)
(* What a step may do to the rows.                                         *)
(***************************************************************************)

\* A call takes these steps with its module's row in place.
RegisteredSteps == {"filter", "commit", "tag", "tag_insert", "tag_load", "tag_write"}

CallsRegistered ==
  \A c \in Clients : pc[c] \in RegisteredSteps => call[c].module \in modules

\* A step changes results only by one of two inserts or by a deletion; any
\* other step leaves them, and takes no document and no module row away.
StoresRecognitions ==
  \E c \in Clients :
    /\ pc[c] = "commit" /\ call[c].op = "recognize"
    /\ \E predicted \in SUBSET documents : \E found :
         /\ predicted \subseteq batch[c]
         /\ InsertRecognitions(c, predicted, found)

StoresResolutions ==
  \E c \in Clients :
    /\ pc[c] = "commit" /\ call[c].op = "resolve"
    /\ \E predicted \in SUBSET references : \E place :
         /\ predicted \subseteq batch[c]
         /\ InsertResolutions(c, predicted, place)

KeepsResults ==
  /\ UNCHANGED resultVars
  /\ documents \subseteq documents'
  /\ modules \subseteq modules'

LEMMA StepKinds ==
  ASSUME [Next]_vars
  PROVE  \/ \E p \in Projects : DeleteProject(p)
         \/ StoresRecognitions
         \/ StoresResolutions
         \/ KeepsResults
<1>1. ASSUME NEW c \in Clients, Fail(c) PROVE KeepsResults
  BY <1>1 DEF Fail, KeepsResults, dbVars, resultVars
<1>2. ASSUME NEW p \in Projects, CreateProject(p) PROVE KeepsResults
  BY <1>2 DEF CreateProject, KeepsResults
<1>3. ASSUME NEW p \in Projects, NEW D, CreateDocuments(p, D) PROVE KeepsResults
  BY <1>3 DEF CreateDocuments, KeepsResults
<1>4. ASSUME NEW c \in Clients, NEW a, Begin(c, a) PROVE KeepsResults
  BY <1>4 DEF Begin, KeepsResults, dbVars, resultVars
<1>5. ASSUME NEW c \in Clients, NEW step, NEW t, NEW u, NEW v,
             \/ ReadContext(c, step, t, u, v)
             \/ InsertContext(c, step, t, u)
      PROVE  KeepsResults
  BY <1>1, <1>5 DEF ReadContext, InsertContext, KeepsResults, dbVars, resultVars
<1>6. ASSUME NEW c \in Clients,
             \/ LoadDocuments(c) \/ EnsureModule(c) \/ RegisterModule(c)
             \/ Filter(c) \/ LoadContext(c) \/ WriteContext(c) \/ Interrupt(c)
      PROVE  KeepsResults
  BY <1>1, <1>6 DEF LoadDocuments, EnsureModule, RegisterModule, Filter,
     LoadContext, WriteContext, Interrupt, KeepsResults, dbVars, resultVars
<1>7. ASSUME NEW c \in Clients, CommitRecognition(c)
      PROVE  StoresRecognitions \/ KeepsResults
  <2>1. PICK found : LET predicted == {d \in batch[c] : found[d] # Unavailable} IN
                     IF predicted \subseteq documents
                       THEN InsertRecognitions(c, predicted, found)
                       ELSE Fail(c)
    BY <1>7 DEF CommitRecognition
  <2>2. QED BY <1>1, <1>7, <2>1 DEF CommitRecognition, StoresRecognitions
<1>8. ASSUME NEW c \in Clients, CommitResolution(c)
      PROVE  StoresResolutions \/ KeepsResults
  <2>1. PICK place : LET predicted == {x \in batch[c] : place[x] # Unavailable} IN
                     IF /\ predicted \subseteq references
                        /\ \A x \in predicted : place[x] \in Installed
                       THEN InsertResolutions(c, predicted, place)
                       ELSE Fail(c)
    BY <1>8 DEF CommitResolution
  <2>2. QED BY <1>1, <1>8, <2>1 DEF CommitResolution, StoresResolutions
<1>9. CASE UNCHANGED vars
  BY <1>9 DEF vars, dbVars, resultVars, KeepsResults
<1>10. QED
  BY <1>2, <1>3, <1>4, <1>5, <1>6, <1>7, <1>8, <1>9
     DEF Next, ClientStep, RunRecognizer, RunResolver, OpenContext, OpenInsert,
         TagContext, TagInsert

-----------------------------------------------------------------------------
(***************************************************************************)
(* A stored result always carries the marker of the run that stored it.    *)
(***************************************************************************)

\* Every stored reference has its marker, in every reachable state.
THEOREM ReferencesAlwaysMarked == Spec => []ReferencesMarked
<1>1. Init => ReferencesMarked
  BY DEF Init, ReferencesMarked
<1>2. ReferencesMarked /\ [Next]_vars => ReferencesMarked'
  <2> SUFFICES ASSUME ReferencesMarked, [Next]_vars PROVE ReferencesMarked'
    OBVIOUS
  <2>1. ASSUME NEW p \in Projects, DeleteProject(p) PROVE ReferencesMarked'
    BY <2>1 DEF DeleteProject, ReferencesMarked
  <2>2. CASE StoresRecognitions
    <3>0. PICK c \in Clients, predicted \in SUBSET documents :
            \E found : InsertRecognitions(c, predicted, found)
      BY <2>2 DEF StoresRecognitions
    <3>1. PICK found : InsertRecognitions(c, predicted, found)
      BY <3>0
    <3>2. QED BY <3>1 DEF InsertRecognitions, ReferencesMarked
  <2>3. CASE StoresResolutions
    BY <2>3 DEF StoresResolutions, InsertResolutions, ReferencesMarked
  <2>4. CASE KeepsResults
    BY <2>4 DEF KeepsResults, resultVars, ReferencesMarked
  <2>5. QED BY <2>1, <2>2, <2>3, <2>4, StepKinds
<1>3. QED BY <1>1, <1>2, PTL DEF Spec

\* Every referent has its resolution marker and every marker its referent.
THEOREM ReferentsAlwaysMarked == Spec => []ReferentsMarked
<1>1. Init => ReferentsMarked
  BY DEF Init, ReferentsMarked
<1>2. ReferentsMarked /\ [Next]_vars => ReferentsMarked'
  <2> SUFFICES ASSUME ReferentsMarked, [Next]_vars PROVE ReferentsMarked'
    OBVIOUS
  <2>1. ASSUME NEW p \in Projects, DeleteProject(p) PROVE ReferentsMarked'
    BY <2>1 DEF DeleteProject, ReferentsMarked
  <2>2. CASE StoresRecognitions
    BY <2>2 DEF StoresRecognitions, InsertRecognitions, ReferentsMarked
  <2>3. CASE StoresResolutions
    <3>0. PICK c \in Clients, predicted \in SUBSET references :
            \E place : InsertResolutions(c, predicted, place)
      BY <2>3 DEF StoresResolutions
    <3>1. PICK place : InsertResolutions(c, predicted, place)
      BY <3>0
    <3> DEFINE s == call[c].module
               Stored(x) == [reference |-> x, resolver |-> s,
                             feature |-> place[x], run |-> ThisRun(c)]
    <3>2. /\ referents' = referents \cup {Stored(x) : x \in predicted}
          /\ resolutions' = resolutions \cup
               [reference : predicted, resolver : {s}, run : {ThisRun(c)}]
      BY <3>1 DEF InsertResolutions
    <3>3. ASSUME NEW x \in referents'
          PROVE  [reference |-> x.reference, resolver |-> x.resolver, run |-> x.run]
                   \in resolutions'
      BY <3>2 DEF ReferentsMarked
    <3>4. ASSUME NEW m \in resolutions'
          PROVE  \E x \in referents' : /\ x.reference = m.reference
                                       /\ x.resolver = m.resolver
                                       /\ x.run = m.run
      <4>1. CASE m \in resolutions
        BY <3>2, <4>1 DEF ReferentsMarked
      <4>2. CASE m \in [reference : predicted, resolver : {s}, run : {ThisRun(c)}]
        <5>1. Stored(m.reference) \in referents' BY <3>2, <4>2
        <5>2. /\ Stored(m.reference).reference = m.reference
              /\ Stored(m.reference).resolver = m.resolver
              /\ Stored(m.reference).run = m.run
          BY <4>2
        <5>3. QED BY <5>1, <5>2
      <4>3. QED BY <3>2, <4>1, <4>2
    <3>5. QED BY <3>3, <3>4 DEF ReferentsMarked
  <2>4. CASE KeepsResults
    BY <2>4 DEF KeepsResults, resultVars, ReferentsMarked
  <2>5. QED BY <2>1, <2>2, <2>3, <2>4, StepKinds
<1>3. QED BY <1>1, <1>2, PTL DEF Spec

-----------------------------------------------------------------------------
(***************************************************************************)
(* No row outlives what it belongs to.  Inductive only together with the   *)
(* fact that a call past ensure_module_record has its module's row.        *)
(***************************************************************************)

AnchorInv == RowsAnchored /\ CallsRegistered

\* A client that moves on, or ends, keeps CallsRegistered if its module has a row.
LEMMA MovesRegistered ==
  ASSUME CallsTypeOK, CallsRegistered, modules \subseteq modules', call' = call,
         NEW c \in Clients, NEW step, Goto(c, step),
         step \in RegisteredSteps => call[c].module \in modules'
  PROVE  CallsRegistered'
BY DEF CallsTypeOK, CallsRegistered, Goto

LEMMA ReturnsRegistered ==
  ASSUME CallsTypeOK, CallsRegistered, modules' = modules,
         NEW c \in Clients, NEW verdict, Return(c, verdict)
  PROVE  CallsRegistered'
BY DEF CallsTypeOK, CallsRegistered, Return, RegisteredSteps

\* Rows stay anchored when a step changes none of them.
LEMMA SameRows ==
  ASSUME RowsAnchored, UNCHANGED dbVars
  PROVE  RowsAnchored'
BY DEF RowsAnchored, DocumentsAnchored, RecognitionsAnchored, ResolutionsAnchored,
       ContextsAnchored, dbVars

LEMMA FailAnchored ==
  ASSUME TypeOK, AnchorInv, NEW c \in Clients, Fail(c)
  PROVE  AnchorInv'
<1>1. Return(c, "failed") /\ UNCHANGED dbVars BY DEF Fail
<1>2. QED BY <1>1, SameRows, ReturnsRegistered DEF AnchorInv, TypeOK, dbVars

\* No step leaves a row without what it belongs to.
LEMMA AnchorStable ==
  ASSUME TypeOK, AnchorInv, [Next]_vars
  PROVE  AnchorInv'
<1>a. CallsTypeOK /\ RowsAnchored /\ CallsRegistered BY DEF TypeOK, AnchorInv
<1>1. ASSUME NEW p \in Projects, CreateProject(p) PROVE AnchorInv'
  BY <1>1 DEF CreateProject, AnchorInv, RowsAnchored, DocumentsAnchored,
     RecognitionsAnchored, ResolutionsAnchored, ContextsAnchored,
     CallsRegistered, resultVars, callVars, TypeOK, RowsTypeOK
<1>2. ASSUME NEW p \in Projects, NEW D \in SUBSET Uncreated(p), CreateDocuments(p, D)
      PROVE  AnchorInv'
  BY <1>2 DEF CreateDocuments, Uncreated, AnchorInv, RowsAnchored,
     DocumentsAnchored, RecognitionsAnchored, ResolutionsAnchored,
     ContextsAnchored, CallsRegistered, resultVars, callVars
<1>3. ASSUME NEW p \in Projects, DeleteProject(p) PROVE AnchorInv'
  <2>1. CallsRegistered'
    BY <1>3, <1>a DEF DeleteProject, CallsRegistered, callVars
  <2>2. DocumentsAnchored'
    BY <1>3, <1>a, HomeAssumption
       DEF DeleteProject, RowsAnchored, DocumentsAnchored, TypeOK, RowsTypeOK
  <2>3. RecognitionsAnchored' /\ ResolutionsAnchored'
    BY <1>3, <1>a DEF DeleteProject, RowsAnchored, RecognitionsAnchored,
       ResolutionsAnchored
  <2>4. ContextsAnchored'
    BY <1>3, <1>a DEF DeleteProject, RowsAnchored, ContextsAnchored, NoContext,
       TypeOK, RowsTypeOK
  <2>5. QED BY <2>1, <2>2, <2>3, <2>4 DEF AnchorInv, RowsAnchored
<1>4. ASSUME NEW c \in Clients, NEW a, Begin(c, a) PROVE AnchorInv'
  <2>1. CallsRegistered'
    BY <1>4, <1>a DEF Begin, Goto, CallsRegistered, RegisteredSteps, CallsTypeOK,
       dbVars
  <2>2. QED BY <1>4, <1>a, <2>1, SameRows DEF Begin, AnchorInv
<1>5. ASSUME NEW c \in Clients,
             NEW step, NEW t, NEW present, NEW missing,
             ReadContext(c, step, t, present, missing),
             step \in RegisteredSteps \/ {present, missing} \cap RegisteredSteps = {}
      PROVE  AnchorInv'
  BY <1>5, <1>a, SameRows, MovesRegistered
     DEF ReadContext, AnchorInv, CallsRegistered, dbVars, callVars
<1>6. ASSUME NEW c \in Clients, NEW step \in Steps, NEW t \in Tags, NEW next,
             InsertContext(c, step, t, next),
             step \in RegisteredSteps \/ next \notin RegisteredSteps
      PROVE  AnchorInv'
  <2>1. CASE Fail(c) BY <2>1, FailAnchored
  <2>2. CASE /\ projects[call[c].project] = "live"
             /\ contexts' = [contexts EXCEPT ![<<call[c].project, t>>] = FreshContext]
             /\ Goto(c, next)
             /\ UNCHANGED <<projects, documents, modules, resultVars, callVars>>
             /\ pc[c] = step
    <3>1. CallsRegistered'
      BY <1>6, <2>2, <1>a, MovesRegistered DEF CallsRegistered, callVars
    <3>2. ContextsAnchored'
      BY <2>2, <1>a DEF RowsAnchored, ContextsAnchored, FreshContext, TypeOK, RowsTypeOK
    <3>3. QED
      BY <2>2, <1>a, <3>1, <3>2 DEF AnchorInv, RowsAnchored, DocumentsAnchored,
         RecognitionsAnchored, ResolutionsAnchored, resultVars
  <2>3. QED BY <1>6, <2>1, <2>2 DEF InsertContext
<1>7. ASSUME NEW c \in Clients,
             OpenContext(c) \/ TagContext(c)
      PROVE  AnchorInv'
  BY <1>5, <1>7 DEF OpenContext, TagContext, RegisteredSteps
<1>8. ASSUME NEW c \in Clients, OpenInsert(c) \/ TagInsert(c)
      PROVE  AnchorInv'
  <2>1. CASE OpenInsert(c)
    BY <1>6, <2>1, TagAssumption DEF OpenInsert, RegisteredSteps, Steps
  <2>2. CASE TagInsert(c)
    <3>1. call[c].tag \in Tags
      BY <2>2, CallTyped DEF TagInsert, InsertContext
    <3>2. QED BY <1>6, <2>2, <3>1 DEF TagInsert, RegisteredSteps, Steps
  <2>3. QED BY <1>8, <2>1, <2>2
<1>9. ASSUME NEW c \in Clients, LoadDocuments(c) PROVE AnchorInv'
  BY <1>9, <1>a, SameRows, MovesRegistered
     DEF LoadDocuments, AnchorInv, RegisteredSteps, dbVars
<1>10. ASSUME NEW c \in Clients, EnsureModule(c) PROVE AnchorInv'
  BY <1>10, <1>a, SameRows, MovesRegistered
     DEF EnsureModule, AnchorInv, RegisteredSteps, dbVars, callVars
<1>11. ASSUME NEW c \in Clients, RegisterModule(c) PROVE AnchorInv'
  <2>1. CASE Fail(c) BY <2>1, FailAnchored
  <2>2. CASE /\ modules' = modules \cup {call[c].module}
             /\ Goto(c, "filter")
             /\ UNCHANGED <<projects, documents, resultVars, contexts, callVars>>
    <3>1. CallsRegistered'
      BY <2>2, <1>a, MovesRegistered DEF callVars
    <3>2. RowsAnchored'
      BY <2>2, <1>a DEF RowsAnchored, DocumentsAnchored, RecognitionsAnchored,
         ResolutionsAnchored, ContextsAnchored, resultVars
    <3>3. QED BY <3>1, <3>2 DEF AnchorInv
  <2>3. QED BY <1>11, <2>1, <2>2 DEF RegisterModule
<1>12. ASSUME NEW c \in Clients, Filter(c) PROVE AnchorInv'
  <2>1. call[c].module \in modules
    BY <1>12, <1>a DEF Filter, CallsRegistered, RegisteredSteps
  <2>2. QED BY <1>12, <1>a, <2>1, SameRows, MovesRegistered DEF Filter, AnchorInv, dbVars
<1>13. CASE StoresRecognitions
  <2>0. PICK c \in Clients, predicted \in SUBSET documents :
          /\ pc[c] = "commit"
          /\ \E found : InsertRecognitions(c, predicted, found)
    BY <1>13 DEF StoresRecognitions
  <2>1. PICK found :
          /\ pc[c] = "commit"
          /\ InsertRecognitions(c, predicted, found)
    BY <2>0
  <2>2. call[c].module \in modules
    BY <2>1, <1>a DEF CallsRegistered, RegisteredSteps
  <2>3. CallsRegistered'
    BY <2>1, <2>2, <1>a, MovesRegistered DEF InsertRecognitions, callVars
  <2>4. RecognitionsAnchored' /\ ResolutionsAnchored'
    BY <2>1, <2>2, <1>a DEF InsertRecognitions, RowsAnchored,
       RecognitionsAnchored, ResolutionsAnchored
  <2>5. DocumentsAnchored' /\ ContextsAnchored'
    BY <2>1, <1>a DEF InsertRecognitions, RowsAnchored, DocumentsAnchored,
       ContextsAnchored
  <2>6. QED BY <2>3, <2>4, <2>5 DEF AnchorInv, RowsAnchored
<1>14. CASE StoresResolutions
  <2>0. PICK c \in Clients, predicted \in SUBSET references :
          /\ pc[c] = "commit"
          /\ \E place : InsertResolutions(c, predicted, place)
    BY <1>14 DEF StoresResolutions
  <2>1. PICK place :
          /\ pc[c] = "commit"
          /\ InsertResolutions(c, predicted, place)
    BY <2>0
  <2>2. call[c].module \in modules
    BY <2>1, <1>a DEF CallsRegistered, RegisteredSteps
  <2>3. CallsRegistered'
    BY <2>1, <2>2, <1>a, MovesRegistered DEF InsertResolutions, callVars
  <2>4. RecognitionsAnchored' /\ ResolutionsAnchored'
    BY <2>1, <2>2, <1>a DEF InsertResolutions, RowsAnchored,
       RecognitionsAnchored, ResolutionsAnchored
  <2>5. DocumentsAnchored' /\ ContextsAnchored'
    BY <2>1, <1>a DEF InsertResolutions, RowsAnchored, DocumentsAnchored,
       ContextsAnchored
  <2>6. QED BY <2>3, <2>4, <2>5 DEF AnchorInv, RowsAnchored
<1>15. ASSUME NEW c \in Clients, CommitRecognition(c) \/ CommitResolution(c)
       PROVE  AnchorInv'
  <2>1. \/ Fail(c) \/ StoresRecognitions \/ StoresResolutions
    BY <1>15 DEF CommitRecognition, CommitResolution, StoresRecognitions,
       StoresResolutions
  <2>2. QED BY <1>13, <1>14, <2>1, FailAnchored
<1>16. ASSUME NEW c \in Clients, LoadContext(c) PROVE AnchorInv'
  <2>1. CASE Fail(c) BY <2>1, FailAnchored
  <2>2. CASE Goto(c, "tag_write") /\ UNCHANGED <<dbVars, call>>
    <3>1. call[c].module \in modules
      BY <1>16, <1>a DEF LoadContext, CallsRegistered, RegisteredSteps
    <3>2. QED BY <2>2, <1>a, <3>1, SameRows, MovesRegistered DEF AnchorInv, dbVars
  <2>3. QED BY <1>16, <2>1, <2>2 DEF LoadContext
<1>17. ASSUME NEW c \in Clients, WriteContext(c) PROVE AnchorInv'
  <2> DEFINE k == <<call[c].project, call[c].tag>>
  <2>1. CASE Fail(c) BY <2>1, FailAnchored
  <2>2. CASE /\ contexts' = [contexts EXCEPT ![k] = WithModule(contexts[k], c)]
             /\ Return(c, "ok")
             /\ UNCHANGED <<projects, documents, modules, resultVars>>
    <3>1. CallsRegistered'
      BY <2>2, <1>a, ReturnsRegistered
    <3>2. k \in Projects \X Tags /\ contexts[k] \in ContextRow
      BY <1>17, CallTyped DEF WriteContext, TypeOK, RowsTypeOK
    <3>3. call[c].module \in modules
      BY <1>17, <1>a DEF WriteContext, CallsRegistered, RegisteredSteps
    <3>4. /\ WithModule(contexts[k], c).exists = contexts[k].exists
          /\ WithModule(contexts[k], c).recognizer
               \in {contexts[k].recognizer, call[c].module}
          /\ WithModule(contexts[k], c).resolver
               \in {contexts[k].resolver, call[c].module}
      BY <3>2 DEF WithModule, ContextRow
    <3>5. ContextsAnchored'
      BY <2>2, <1>a, <3>2, <3>3, <3>4 DEF RowsAnchored, ContextsAnchored, TypeOK,
         RowsTypeOK
    <3>6. QED
      BY <2>2, <1>a, <3>1, <3>5 DEF AnchorInv, RowsAnchored, DocumentsAnchored,
         RecognitionsAnchored, ResolutionsAnchored, resultVars
  <2>3. QED BY <1>17, <2>1, <2>2 DEF WriteContext
<1>18. ASSUME NEW c \in Clients, Interrupt(c) PROVE AnchorInv'
  BY <1>18, FailAnchored DEF Interrupt
<1>19. CASE UNCHANGED vars
  BY <1>19, <1>a, SameRows DEF vars, callVars, dbVars, AnchorInv, CallsRegistered
<1>20. QED
  BY <1>1, <1>2, <1>3, <1>4, <1>7, <1>8, <1>9, <1>10, <1>11, <1>12, <1>15,
     <1>16, <1>17, <1>18, <1>19
     DEF Next, ClientStep, RunRecognizer, RunResolver

\* The database's foreign keys hold in every reachable state.
THEOREM AlwaysAnchored == Spec => []RowsAnchored
<1>1. Init => AnchorInv
  BY DEF Init, AnchorInv, RowsAnchored, DocumentsAnchored, RecognitionsAnchored,
         ResolutionsAnchored, ContextsAnchored, NoContext, CallsRegistered,
         RegisteredSteps
<1>2. TypeOK /\ AnchorInv /\ [Next]_vars => AnchorInv'
  BY AnchorStable
<1>3. AnchorInv => RowsAnchored BY DEF AnchorInv
<1>4. QED BY <1>1, <1>2, <1>3, TypeCorrect, PTL DEF Spec

-----------------------------------------------------------------------------
(***************************************************************************)
(* Nothing is processed twice unless two runs held it in their batches at  *)
(* the same time.  A marker that turns up for an item of a waiting batch   *)
(* can only come from a rival run, and the later of the two runs' filters  *)
(* recorded the pair: BatchesGuarded says so.                              *)
(***************************************************************************)

HasMarker(c, i) ==
  IF call[c].op = "recognize" THEN Recognized(i, call[c].module)
                              ELSE Resolved(i, call[c].module)

BatchesGuarded ==
  \A c \in Clients : pc[c] = "commit" =>
    /\ \A i \in batch[c] : HasMarker(c, i) => <<i, call[c].module>> \in contended
    /\ \A b \in Clients \ {c} :
         pc[b] = "commit" /\ call[b].module = call[c].module =>
           \A i \in batch[b] \cap batch[c] : <<i, call[c].module>> \in contended

OnceInv == ProcessedOnce /\ BatchesGuarded

\* A step that fills no batch and writes no marker.
NoNewWork ==
  /\ recognitions' \subseteq recognitions
  /\ resolutions' \subseteq resolutions
  /\ contended' = contended
  /\ \A c \in Clients : pc'[c] = "commit" =>
       pc[c] = "commit" /\ batch'[c] = batch[c] /\ call'[c] = call[c]

LEMMA NoNewWorkSafe ==
  ASSUME OnceInv, NoNewWork
  PROVE  OnceInv'
<1>1. ProcessedOnce' BY DEF OnceInv, ProcessedOnce, NoNewWork
<1>2. BatchesGuarded'
  BY DEF OnceInv, BatchesGuarded, NoNewWork, HasMarker, Recognized, Resolved
<1>3. QED BY <1>1, <1>2 DEF OnceInv

LEMMA FailWorkless ==
  ASSUME CallsTypeOK, NEW c \in Clients, Fail(c)
  PROVE  NoNewWork
BY DEF CallsTypeOK, Fail, Return, NoNewWork, dbVars

LEMMA WorkKinds ==
  ASSUME TypeOK, [Next]_vars
  PROVE  \/ NoNewWork
         \/ \E c \in Clients : Filter(c)
         \/ StoresRecognitions
         \/ StoresResolutions
<1>a. CallsTypeOK BY DEF TypeOK
<1>1. ASSUME NEW p \in Projects, CreateProject(p) \/ DeleteProject(p) PROVE NoNewWork
  BY <1>1 DEF CreateProject, DeleteProject, NoNewWork, callVars, resultVars
<1>2. ASSUME NEW p \in Projects, NEW D, CreateDocuments(p, D) PROVE NoNewWork
  BY <1>2 DEF CreateDocuments, NoNewWork, callVars, resultVars
<1>3. ASSUME NEW c \in Clients, NEW a, Begin(c, a) PROVE NoNewWork
  BY <1>3, <1>a DEF Begin, Goto, NoNewWork, dbVars, CallsTypeOK
<1>4. ASSUME NEW c \in Clients, NEW step, NEW t, NEW u, NEW v,
             u # "commit", v # "commit",
             \/ ReadContext(c, step, t, u, v)
             \/ InsertContext(c, step, t, u)
      PROVE  NoNewWork
  <2>1. CASE Fail(c) BY <2>1, <1>a, FailWorkless
  <2>2. ASSUME NEW w, w # "commit", Goto(c, w), UNCHANGED <<resultVars, callVars>>
        PROVE  NoNewWork
    BY <2>2, <1>a DEF Goto, NoNewWork, callVars, resultVars, CallsTypeOK
  <2>3. CASE ReadContext(c, step, t, u, v)
    BY <1>4, <2>2, <2>3 DEF ReadContext, dbVars, resultVars
  <2>4. CASE InsertContext(c, step, t, u)
    BY <1>4, <2>1, <2>2, <2>4 DEF InsertContext
  <2>5. QED BY <1>4, <2>3, <2>4
<1>5. ASSUME NEW c \in Clients,
             \/ LoadDocuments(c) \/ EnsureModule(c) \/ RegisterModule(c)
             \/ LoadContext(c) \/ Interrupt(c)
      PROVE  NoNewWork
  <2>1. CASE Fail(c) BY <2>1, <1>a, FailWorkless
  <2>2. ASSUME NEW w, w # "commit", Goto(c, w),
               UNCHANGED <<resultVars, call, batch, contended>>
        PROVE  NoNewWork
    BY <2>2, <1>a DEF Goto, NoNewWork, resultVars, CallsTypeOK
  <2>3. CASE LoadDocuments(c)
    BY <2>2, <2>3 DEF LoadDocuments, dbVars, resultVars
  <2>4. CASE EnsureModule(c)
    BY <2>2, <2>4 DEF EnsureModule, dbVars, resultVars, callVars
  <2>5. CASE RegisterModule(c)
    BY <2>1, <2>2, <2>5 DEF RegisterModule, callVars
  <2>6. CASE LoadContext(c)
    BY <2>1, <2>2, <2>6 DEF LoadContext, dbVars, resultVars
  <2>7. CASE Interrupt(c)
    BY <2>1, <2>7 DEF Interrupt
  <2>8. QED BY <1>5, <2>3, <2>4, <2>5, <2>6, <2>7
<1>6. ASSUME NEW c \in Clients, WriteContext(c) PROVE NoNewWork
  <2>1. CASE Fail(c) BY <2>1, <1>a, FailWorkless
  <2>2. CASE Return(c, "ok") /\ UNCHANGED resultVars
    BY <2>2, <1>a DEF Return, NoNewWork, resultVars, CallsTypeOK
  <2>3. QED BY <1>6, <2>1, <2>2 DEF WriteContext
<1>7. ASSUME NEW c \in Clients, CommitRecognition(c) \/ CommitResolution(c)
      PROVE  NoNewWork \/ StoresRecognitions \/ StoresResolutions
  <2>1. Fail(c) \/ StoresRecognitions \/ StoresResolutions
    BY <1>7 DEF CommitRecognition, CommitResolution, StoresRecognitions,
       StoresResolutions
  <2>2. QED BY <2>1, <1>a, FailWorkless
<1>8. CASE UNCHANGED vars
  BY <1>8 DEF vars, dbVars, callVars, NoNewWork
<1>9. ASSUME NEW c \in Clients,
             OpenContext(c) \/ OpenInsert(c) \/ TagContext(c) \/ TagInsert(c)
      PROVE  NoNewWork
  <2>1. CASE OpenContext(c) BY <1>4, <2>1 DEF OpenContext
  <2>2. CASE TagContext(c) BY <1>4, <2>2 DEF TagContext
  <2>3. ASSUME NEW step, NEW t, NEW u, u # "commit", InsertContext(c, step, t, u)
        PROVE  NoNewWork
    BY <1>4, <2>3
  <2>4. CASE OpenInsert(c) BY <2>3, <2>4 DEF OpenInsert
  <2>5. CASE TagInsert(c) BY <2>3, <2>5 DEF TagInsert
  <2>6. QED BY <1>9, <2>1, <2>2, <2>4, <2>5
<1>10. QED
  BY <1>1, <1>2, <1>3, <1>5, <1>6, <1>7, <1>8, <1>9
     DEF Next, ClientStep, RunRecognizer, RunResolver

\* The later filter of two overlapping runs records what they share.
LEMMA FilterGuards ==
  ASSUME TypeOK, OnceInv, NEW c \in Clients, Filter(c)
  PROVE  OnceInv'
<1>1. /\ UNCHANGED <<recognitions, resolutions, call>>
      /\ contended \subseteq contended'
      /\ batch' = [batch EXCEPT ![c] = Unprocessed(c)]
      /\ \E step : Goto(c, step)
      /\ pc[c] = "filter"
  BY DEF Filter, dbVars
<1>2. ProcessedOnce' BY <1>1 DEF OnceInv, ProcessedOnce
<1>3. ASSUME NEW i \in Unprocessed(c) PROVE ~HasMarker(c, i)
  BY DEF Unprocessed, HasMarker
<1>4. ASSUME NEW b \in Clients \ {c}, pc[b] = "commit", call[b].module = call[c].module,
             NEW i \in batch[b] \cap Unprocessed(c)
      PROVE  <<i, call[c].module>> \in contended'
  BY <1>4 DEF Filter, Rivals
<1>5. /\ \A b \in Clients \ {c} : pc'[b] = pc[b] /\ batch'[b] = batch[b]
      /\ batch'[c] = Unprocessed(c)
  BY <1>1 DEF Goto, TypeOK, CallsTypeOK
<1>6. \A b \in Clients : \A i : HasMarker(b, i)' <=> HasMarker(b, i)
  BY <1>1 DEF HasMarker, Recognized, Resolved
<1>7. ASSUME NEW b \in Clients, pc'[b] = "commit", NEW i \in batch'[b], HasMarker(b, i)'
      PROVE  <<i, call'[b].module>> \in contended'
  <2>1. CASE b = c BY <2>1, <1>3, <1>5, <1>6, <1>7
  <2>2. CASE b # c BY <2>2, <1>1, <1>5, <1>6, <1>7 DEF OnceInv, BatchesGuarded
  <2>3. QED BY <2>1, <2>2
<1>8. ASSUME NEW a \in Clients, NEW b \in Clients \ {a},
             pc'[a] = "commit", pc'[b] = "commit", call'[b].module = call'[a].module,
             NEW i \in batch'[b] \cap batch'[a]
      PROVE  <<i, call'[a].module>> \in contended'
  <2>1. CASE a = c BY <2>1, <1>1, <1>4, <1>5, <1>8
  <2>2. CASE b = c BY <2>2, <1>1, <1>4, <1>5, <1>8
  <2>3. CASE a # c /\ b # c BY <2>3, <1>1, <1>5, <1>8 DEF OnceInv, BatchesGuarded
  <2>4. QED BY <2>1, <2>2, <2>3
<1>9. BatchesGuarded' BY <1>7, <1>8 DEF BatchesGuarded
<1>10. QED BY <1>2, <1>9 DEF OnceInv

\* A commit duplicates a marker only for a contended pair, and leaves every
\* rival's batch guarded.
LEMMA CommitGuarded ==
  ASSUME TypeOK, OnceInv, StoresRecognitions \/ StoresResolutions
  PROVE  OnceInv'
<1>0. PICK c \in Clients : \E new :
        /\ pc[c] = "commit" /\ new \subseteq batch[c]
        /\ Goto(c, "tag") /\ UNCHANGED callVars
        /\ \/ /\ call[c].op = "recognize"
              /\ recognitions' = recognitions \cup
                   [document : new, recognizer : {call[c].module}, run : {ThisRun(c)}]
              /\ resolutions' = resolutions
           \/ /\ call[c].op = "resolve"
              /\ resolutions' = resolutions \cup
                   [reference : new, resolver : {call[c].module}, run : {ThisRun(c)}]
              /\ recognitions' = recognitions
  BY DEF StoresRecognitions, StoresResolutions, InsertRecognitions, InsertResolutions
<1>1. PICK new :
        /\ pc[c] = "commit" /\ new \subseteq batch[c]
        /\ Goto(c, "tag") /\ UNCHANGED callVars
        /\ \/ /\ call[c].op = "recognize"
              /\ recognitions' = recognitions \cup
                   [document : new, recognizer : {call[c].module}, run : {ThisRun(c)}]
              /\ resolutions' = resolutions
           \/ /\ call[c].op = "resolve"
              /\ resolutions' = resolutions \cup
                   [reference : new, resolver : {call[c].module}, run : {ThisRun(c)}]
              /\ recognitions' = recognitions
  BY <1>0
<1>2. /\ contended' = contended /\ batch' = batch /\ call' = call
      /\ \A b \in Clients \ {c} : pc'[b] = pc[b]
      /\ pc'[c] = "tag"
  BY <1>1 DEF callVars, Goto, TypeOK, CallsTypeOK
<1>3. \A i \in new : HasMarker(c, i) => <<i, call[c].module>> \in contended
  BY <1>1 DEF OnceInv, BatchesGuarded
<1>4. ProcessedOnce'
  <2>1. CASE call[c].op = "recognize"
    BY <1>1, <1>2, <1>3, <2>1 DEF OnceInv, ProcessedOnce, HasMarker, Recognized,
       TypeOK, RowsTypeOK, Recognition
  <2>2. CASE call[c].op = "resolve"
    BY <1>1, <1>2, <1>3, <2>2 DEF OnceInv, ProcessedOnce, HasMarker, Resolved,
       TypeOK, RowsTypeOK, Resolution
  <2>3. QED BY <1>1, <2>1, <2>2
<1>5. ASSUME NEW b \in Clients \ {c}, pc[b] = "commit", NEW i \in batch[b],
             HasMarker(b, i)'
      PROVE  <<i, call[b].module>> \in contended
  <2>1. CASE HasMarker(b, i) BY <1>5, <2>1 DEF OnceInv, BatchesGuarded
  <2>2. CASE ~HasMarker(b, i)
    <3>1. i \in new /\ call[b].module = call[c].module
      <4>1. CASE call[b].op = "recognize"
        BY <1>1, <1>2, <1>5, <2>2, <4>1, CallTyped, ModulesAssumption
           DEF HasMarker, Recognized
      <4>2. CASE call[b].op = "resolve"
        BY <1>1, <1>2, <1>5, <2>2, <4>2, CallTyped, ModulesAssumption
           DEF HasMarker, Resolved
      <4>3. QED BY <1>5, <4>1, <4>2, CallTyped
    <3>2. QED BY <1>1, <1>5, <3>1 DEF OnceInv, BatchesGuarded
  <2>3. QED BY <2>1, <2>2
<1>6. BatchesGuarded'
  BY <1>2, <1>5 DEF OnceInv, BatchesGuarded
<1>7. QED BY <1>4, <1>6 DEF OnceInv

\* No step processes anything twice without recording the pair.
LEMMA OnceStable ==
  ASSUME TypeOK, OnceInv, [Next]_vars
  PROVE  OnceInv'
BY WorkKinds, NoNewWorkSafe, FilterGuards, CommitGuarded

\* Two markers of one pair need two overlapping runs, in every reachable state.
THEOREM AlwaysProcessedOnce == Spec => []ProcessedOnce
<1>1. Init => OnceInv
  BY DEF Init, OnceInv, ProcessedOnce, BatchesGuarded
<1>2. TypeOK /\ OnceInv /\ [Next]_vars => OnceInv'
  BY OnceStable
<1>3. OnceInv => ProcessedOnce BY DEF OnceInv
<1>4. QED BY <1>1, <1>2, <1>3, TypeCorrect, PTL DEF Spec

\* Only a filter finds that two runs hold the same item.
LEMMA OnlyFilterContends ==
  ASSUME [Next]_vars, \A c \in Clients : ~Filter(c)
  PROVE  contended' = contended
<1>1. ASSUME NEW c \in Clients, ClientStep(c) PROVE contended' = contended
  BY <1>1 DEF ClientStep, OpenContext, OpenInsert, TagContext, TagInsert,
     ReadContext, InsertContext, LoadDocuments, EnsureModule, RegisterModule,
     CommitRecognition, InsertRecognitions, CommitResolution, InsertResolutions,
     LoadContext, WriteContext, Fail, Return, callVars
<1>2. QED
  BY <1>1 DEF Next, CreateProject, CreateDocuments, DeleteProject, RunRecognizer,
     RunResolver, Begin, Interrupt, Fail, Return, callVars, vars

\* A lone client never processes anything twice, however often it repeats its
\* calls and wherever they are interrupted.
COROLLARY LoneClientProcessesOnce ==
  ASSUME \A b, c \in Clients : b = c
  PROVE  Spec => []NeverProcessedTwice
<1> DEFINE Uncontended == contended = {}
<1>1. Init => Uncontended BY DEF Init
<1>2. Uncontended /\ [Next]_vars => Uncontended'
  <2> SUFFICES ASSUME contended = {}, [Next]_vars PROVE contended' = {}
    OBVIOUS
  <2>1. ASSUME NEW c \in Clients, Filter(c) PROVE contended' = {}
    BY <2>1 DEF Filter, Rivals
  <2>2. QED BY <2>1, OnlyFilterContends
<1>3. Spec => []ProcessedOnce BY AlwaysProcessedOnce
<1>4. ProcessedOnce /\ Uncontended => NeverProcessedTwice
  BY DEF ProcessedOnce, NeverProcessedTwice
<1> HIDE DEF Uncontended
<1>5. QED BY <1>1, <1>2, <1>3, <1>4, PTL DEF Spec

-----------------------------------------------------------------------------
(***************************************************************************)
(* Results go only with the project they belong to.                        *)
(***************************************************************************)

\* A row that is no longer there went with its project.
KeepsRows ==
  /\ \A d \in documents : d \in documents' \/ Gone(d)
  /\ \A x \in references : x \in references' \/ Gone(x.document)
  /\ \A x \in recognitions : x \in recognitions' \/ Gone(x.document)
  /\ \A x \in referents : x \in referents' \/ Gone(x.reference.document)
  /\ \A x \in resolutions : x \in resolutions' \/ Gone(x.reference.document)

LEMMA RowsPersist ==
  ASSUME TypeOK, RowsAnchored, [Next]_vars
  PROVE  KeepsRows
<1>1. ASSUME NEW p \in Projects, DeleteProject(p) PROVE KeepsRows
  <2>1. \A d \in documents : d \in documents' \/ Gone(d)
    BY <1>1 DEF DeleteProject, Gone, TypeOK, RowsTypeOK
  <2>2. \A x \in references \cup recognitions : x.document \in documents
    BY DEF RowsAnchored, RecognitionsAnchored
  <2>3. \A x \in referents \cup resolutions : x.reference.document \in documents
    BY <2>2 DEF RowsAnchored, ResolutionsAnchored
  <2>4. QED BY <1>1, <2>1, <2>2, <2>3 DEF DeleteProject, KeepsRows
<1>2. CASE StoresRecognitions
  BY <1>2 DEF StoresRecognitions, InsertRecognitions, KeepsRows
<1>3. CASE StoresResolutions
  BY <1>3 DEF StoresResolutions, InsertResolutions, KeepsRows
<1>4. CASE KeepsResults
  BY <1>4 DEF KeepsResults, resultVars, KeepsRows
<1>5. QED BY <1>1, <1>2, <1>3, <1>4, StepKinds

\* No step but the deletion of its own project takes a document, a result or a
\* marker away.
THEOREM ResultsAlwaysPersist == Spec => ResultsPersist
<1>1. TypeOK /\ RowsAnchored /\ [Next]_vars => KeepsRows
  BY RowsPersist
<1>2. QED BY <1>1, TypeCorrect, AlwaysAnchored, PTL DEF Spec, ResultsPersist, KeepsRows

-----------------------------------------------------------------------------
(***************************************************************************)
(* The two halves of a tag.                                                *)
(***************************************************************************)

\* A step that writes no column of a row that stays.
KeepsColumns ==
  \A p \in Projects, t \in Tags :
    contexts[<<p, t>>].exists /\ contexts'[<<p, t>>].exists =>
      contexts'[<<p, t>>] = contexts[<<p, t>>]

LEMMA FailKeepsColumns ==
  ASSUME NEW c \in Clients, Fail(c)
  PROVE  KeepsColumns
BY DEF Fail, dbVars, KeepsColumns

LEMMA ColumnWrites ==
  ASSUME TypeOK, [Next]_vars
  PROVE  KeepsColumns \/ \E c \in Clients : WriteContext(c)
<1>1. ASSUME contexts' = contexts PROVE KeepsColumns
  BY <1>1 DEF KeepsColumns
<1>2. ASSUME NEW p \in Projects, CreateProject(p) PROVE KeepsColumns
  BY <1>1, <1>2 DEF CreateProject
<1>3. ASSUME NEW p \in Projects, NEW D, CreateDocuments(p, D) PROVE KeepsColumns
  BY <1>1, <1>3 DEF CreateDocuments
<1>4. ASSUME NEW p \in Projects, DeleteProject(p) PROVE KeepsColumns
  BY <1>4 DEF DeleteProject, NoContext, KeepsColumns
<1>5. ASSUME NEW c \in Clients, NEW a, Begin(c, a) PROVE KeepsColumns
  BY <1>1, <1>5 DEF Begin, dbVars
<1>6. ASSUME NEW c \in Clients, NEW step, NEW t \in Tags, NEW next,
             pc[c] # "idle", InsertContext(c, step, t, next)
      PROVE  KeepsColumns
  <2>1. CASE Fail(c) BY <2>1, FailKeepsColumns
  <2>2. CASE /\ ~ContextExists(call[c].project, t)
             /\ contexts' = [contexts EXCEPT ![<<call[c].project, t>>] = FreshContext]
    BY <2>2 DEF ContextExists, KeepsColumns, TypeOK, RowsTypeOK
  <2>3. QED BY <1>6, <2>1, <2>2 DEF InsertContext
<1>7. ASSUME NEW c \in Clients, OpenInsert(c) \/ TagInsert(c) PROVE KeepsColumns
  <2>1. CASE OpenInsert(c)
    BY <1>6, <2>1, TagAssumption DEF OpenInsert, InsertContext
  <2>2. CASE TagInsert(c)
    <3>1. pc[c] # "idle" BY <2>2 DEF TagInsert, InsertContext
    <3>2. call[c].tag \in Tags BY <3>1, CallTyped
    <3>3. QED BY <1>6, <2>2, <3>1, <3>2 DEF TagInsert
  <2>3. QED BY <1>7, <2>1, <2>2
<1>8. ASSUME NEW c \in Clients,
             \/ OpenContext(c) \/ TagContext(c) \/ LoadDocuments(c) \/ EnsureModule(c)
             \/ RegisterModule(c) \/ Filter(c) \/ LoadContext(c) \/ Interrupt(c)
      PROVE  KeepsColumns
  BY <1>1, <1>8, FailKeepsColumns
     DEF OpenContext, TagContext, ReadContext, LoadDocuments, EnsureModule,
         RegisterModule, Filter, LoadContext, Interrupt, dbVars
<1>9. ASSUME NEW c \in Clients, CommitRecognition(c) \/ CommitResolution(c)
      PROVE  KeepsColumns
  BY <1>1, <1>9, FailKeepsColumns
     DEF CommitRecognition, CommitResolution, InsertRecognitions, InsertResolutions
<1>10. CASE UNCHANGED vars BY <1>1, <1>10 DEF vars, dbVars
<1>11. QED
  BY <1>2, <1>3, <1>4, <1>5, <1>7, <1>8, <1>9, <1>10
     DEF Next, ClientStep, RunRecognizer, RunResolver

\* A column of a tag changes only to the module of a run of its kind that is
\* writing it.
THEOREM ColumnsAlwaysIndependent == Spec => ColumnsIndependent
<1> DEFINE Written(k) ==
      contexts[k].exists /\ contexts'[k].exists =>
        /\ contexts'[k].recognizer # contexts[k].recognizer =>
             \E c \in Clients : /\ pc[c] = "tag_write"
                                /\ call[c].op = "recognize"
                                /\ call[c].module = contexts'[k].recognizer
        /\ contexts'[k].resolver # contexts[k].resolver =>
             \E c \in Clients : /\ pc[c] = "tag_write"
                                /\ call[c].op = "resolve"
                                /\ call[c].module = contexts'[k].resolver
           Independent == \A p \in Projects, t \in Tags : Written(<<p, t>>)
<1>1. TypeOK /\ [Next]_vars => Independent
  <2> SUFFICES ASSUME TypeOK, [Next]_vars PROVE Independent
    OBVIOUS
  <2>1. CASE KeepsColumns BY <2>1 DEF KeepsColumns
  <2>2. ASSUME NEW c \in Clients, WriteContext(c), ~KeepsColumns PROVE Independent
    <3> DEFINE k == <<call[c].project, call[c].tag>>
    <3>1. /\ pc[c] = "tag_write"
          /\ contexts' = [contexts EXCEPT ![k] = WithModule(contexts[k], c)]
      BY <2>2, FailKeepsColumns DEF WriteContext
    <3>2. k \in Projects \X Tags /\ contexts[k] \in ContextRow
      BY <3>1, CallTyped DEF TypeOK, RowsTypeOK
    <3>3. call[c].op \in {"recognize", "resolve"} BY <3>1, CallTyped
    <3>4. contexts'[k] = WithModule(contexts[k], c)
      BY <3>1, <3>2 DEF TypeOK, RowsTypeOK
    <3>5. Written(k)
      <4>1. CASE call[c].op = "recognize"
        BY <3>1, <3>2, <3>4, <4>1 DEF WithModule, ContextRow
      <4>2. CASE call[c].op = "resolve"
        BY <3>1, <3>2, <3>4, <4>2 DEF WithModule, ContextRow
      <4>3. QED BY <3>3, <4>1, <4>2
    <3>6. \A j \in (Projects \X Tags) \ {k} : contexts'[j] = contexts[j]
      BY <3>1 DEF TypeOK, RowsTypeOK
    <3>7. \A j \in (Projects \X Tags) \ {k} : Written(j) BY <3>6
    <3>8. \A j \in Projects \X Tags : Written(j) BY <3>5, <3>7
    <3> HIDE DEF Written
    <3>9. QED BY <3>8
  <2>3. QED BY <2>1, <2>2, ColumnWrites
<1>2. QED BY <1>1, TypeCorrect, PTL DEF Spec, ColumnsIndependent
-----------------------------------------------------------------------------
(***************************************************************************)
(* A run moves its tag only after every item it loaded has been answered.  *)
(* The rows may change under the run at every step, so the invariant also  *)
(* says why an item that is missing now cannot come back: its project is   *)
(* deleted.                                                                *)
(***************************************************************************)

TagSteps == {"tag", "tag_insert", "tag_load", "tag_write"}

\* A call takes these steps with its items loaded.
LoadedSteps == {"ensure", "register", "filter", "commit"} \cup TagSteps

\* An item is still stored, or its project is deleted.
Spared(c, i) ==
  IF call[c].op = "recognize"
    THEN i \in Docs /\ (i \in documents \/ projects[HomeOf[i]] = "deleted")
    ELSE i \in Reference /\ (i \in references \/ projects[HomeOf[i.document]] = "deleted")

\* What a client's call has answered for, wherever it stands.
WorkAnswered(c) ==
  /\ pc[c] \in LoadedSteps => \A i \in items[c] : Spared(c, i)
  /\ pc[c] = "commit" => \A i \in items[c] \ batch[c] : Answered(c, i)
  /\ pc[c] \in TagSteps => \A i \in items[c] : Answered(c, i)

\* A deleted project stays deleted.
LEMMA DeletionLasts ==
  ASSUME TypeOK, [Next]_vars, NEW p \in Projects, projects[p] = "deleted"
  PROVE  projects'[p] = "deleted"
<1>1. ASSUME NEW c \in Clients, ClientStep(c) \/ Interrupt(c) PROVE projects' = projects
  BY <1>1 DEF ClientStep, OpenContext, OpenInsert, TagContext, TagInsert,
     ReadContext, InsertContext, LoadDocuments, EnsureModule, RegisterModule, Filter,
     CommitRecognition, InsertRecognitions, CommitResolution, InsertResolutions,
     LoadContext, WriteContext, Interrupt, Fail, dbVars
<1>2. QED
  BY <1>1 DEF Next, CreateProject, CreateDocuments, DeleteProject, RunRecognizer,
     RunResolver, Begin, TypeOK, RowsTypeOK, vars, dbVars

\* No step of any client takes an answer away from an item that is still stored.
LEMMA AnswersLast ==
  ASSUME TypeOK, RowsAnchored, RowsAnchored', [Next]_vars,
         NEW c \in Clients, call[c].op \in {"recognize", "resolve"}, call'[c] = call[c],
         NEW i, Spared(c, i)
  PROVE  /\ Spared(c, i)'
         /\ Answered(c, i) => Answered(c, i)'
<1>1. KeepsRows BY RowsPersist
<1>2. \A p \in Projects : projects[p] = "deleted" => projects'[p] = "deleted"
  BY DeletionLasts
<1>3. \A d \in Docs : HomeOf[d] \in Projects BY HomeAssumption
<1>4. \A d \in documents' : projects'[HomeOf[d]] = "live"
  BY DEF RowsAnchored, DocumentsAnchored
<1>5. \A x \in references' : x.document \in documents'
  BY DEF RowsAnchored, RecognitionsAnchored
<1>6. CASE call[c].op = "recognize"
  <2>1. i \in Docs BY <1>6 DEF Spared
  <2>2. Spared(c, i)'
    BY <1>1, <1>2, <1>3, <1>6, <2>1 DEF Spared, KeepsRows, Gone
  <2>3. ASSUME Answered(c, i), i \in documents',
               Unavailable \notin Spotted[call[c].module][i]
        PROVE  Recognized(i, call[c].module)'
    <3>1. i \in documents BY <1>2, <1>3, <1>4, <1>6, <2>1, <2>3 DEF Spared
    <3>2. PICK m \in recognitions : m.document = i /\ m.recognizer = call[c].module
      BY <1>6, <2>3, <3>1 DEF Answered, Recognized
    <3>3. m \in recognitions' BY <1>1, <1>4, <2>3, <3>2 DEF KeepsRows, Gone
    <3>4. QED BY <3>2, <3>3 DEF Recognized
  <2>4. QED BY <1>6, <2>2, <2>3 DEF Answered
<1>7. CASE call[c].op = "resolve"
  <2>1. i \in Reference /\ i.document \in Docs BY <1>7 DEF Spared, Reference
  <2>2. Spared(c, i)'
    BY <1>1, <1>2, <1>3, <1>7, <2>1 DEF Spared, KeepsRows, Gone
  <2>3. ASSUME Answered(c, i), i \in references',
               Unavailable \notin Located[call[c].module]
        PROVE  Resolved(i, call[c].module)'
    <3>1. i \in references BY <1>2, <1>3, <1>4, <1>5, <1>7, <2>1, <2>3 DEF Spared
    <3>2. PICK m \in resolutions : m.reference = i /\ m.resolver = call[c].module
      BY <1>7, <2>3, <3>1 DEF Answered, Resolved
    <3>3. m \in resolutions' BY <1>1, <1>4, <1>5, <2>3, <3>2 DEF KeepsRows, Gone
    <3>4. QED BY <3>2, <3>3 DEF Resolved
  <2>4. QED BY <1>7, <2>2, <2>3 DEF Answered
<1>8. QED BY <1>6, <1>7

\* A client that loads, filters and commits nothing in a step.
Quiet(c) ==
  \/ pc'[c] \notin LoadedSteps
  \/ /\ UNCHANGED <<call[c], items[c], batch[c]>>
     /\ pc[c] \in LoadedSteps
     /\ \/ pc'[c] \in {pc[c], "register", "filter"}
        \/ pc[c] \in TagSteps /\ pc'[c] \in TagSteps
LEMMA QuietKinds ==
  ASSUME TypeOK, [Next]_vars, NEW b \in Clients
  PROVE  \/ Quiet(b)
         \/ LoadDocuments(b) \/ Filter(b) \/ CommitRecognition(b) \/ CommitResolution(b)
<1>a. CallsTypeOK BY DEF TypeOK
<1>1. ASSUME NEW c, Fail(c) \/ (\E verdict : Return(c, verdict)) PROVE Quiet(b)
  <2>1. PICK verdict : Return(c, verdict) BY <1>1 DEF Fail
  <2>2. QED BY <2>1, <1>a DEF Return, CallsTypeOK, Quiet, LoadedSteps, TagSteps
<1>2. ASSUME UNCHANGED <<pc, call, items, batch>> PROVE Quiet(b)
  BY <1>2 DEF Quiet
<1>3. ASSUME NEW c, NEW step, Goto(c, step), c = b => Quiet(b),
             UNCHANGED <<call, items, batch>>
      PROVE  Quiet(b)
  BY <1>3, <1>a DEF Goto, CallsTypeOK, Quiet
<1>4. ASSUME NEW p \in Projects,
             \/ CreateProject(p) \/ DeleteProject(p) \/ \E D : CreateDocuments(p, D)
      PROVE  Quiet(b)
  <2>1. UNCHANGED <<pc, call, items, batch>>
    BY <1>4 DEF CreateProject, DeleteProject, CreateDocuments, callVars
  <2>2. QED BY <1>2, <2>1
<1>5. ASSUME NEW c, NEW a, Begin(c, a) PROVE Quiet(b)
  <2>1. pc' = [pc EXCEPT ![c] = "open"] /\ UNCHANGED <<items, batch>>
        /\ call' = [call EXCEPT ![c] = a]
    BY <1>5 DEF Begin, Goto
  <2>2. QED BY <2>1, <1>a DEF CallsTypeOK, Quiet, LoadedSteps, TagSteps
<1>6. ASSUME NEW c \in Clients, OpenContext(c) \/ TagContext(c) PROVE Quiet(b)
  <2>1. pc'[c] \in {"load", "open_insert"} \/ (pc[c] = "tag" /\ pc'[c] \in {"tag_load", "tag_insert"})
    BY <1>6, <1>a DEF OpenContext, TagContext, ReadContext, Goto, CallsTypeOK
  <2>2. UNCHANGED <<call, items, batch>> /\ \E step : Goto(c, step)
    BY <1>6 DEF OpenContext, TagContext, ReadContext, callVars
  <2>3. QED BY <2>1, <2>2, <1>3 DEF Quiet, LoadedSteps, TagSteps
<1>7. ASSUME NEW c \in Clients, OpenInsert(c) \/ TagInsert(c) PROVE Quiet(b)
  <2>1. CASE Fail(c) BY <2>1, <1>1
  <2>2. CASE ~Fail(c)
    <3>1. /\ \/ pc[c] = "open_insert" /\ Goto(c, "load")
             \/ pc[c] = "tag_insert" /\ Goto(c, "tag_load")
          /\ UNCHANGED <<call, items, batch>>
      BY <1>7, <2>2 DEF OpenInsert, TagInsert, InsertContext, callVars
    <3>2. pc'[c] = "load" \/ (pc[c] = "tag_insert" /\ pc'[c] = "tag_load")
      BY <3>1, <1>a DEF Goto, CallsTypeOK
    <3>3. QED BY <3>1, <3>2, <1>3 DEF Quiet, LoadedSteps, TagSteps
  <2>3. QED BY <2>1, <2>2
<1>8. ASSUME NEW c \in Clients, EnsureModule(c) \/ RegisterModule(c) PROVE Quiet(b)
  <2>1. CASE Fail(c) BY <2>1, <1>1
  <2>2. CASE ~Fail(c)
    <3>1. /\ pc[c] \in {"ensure", "register"}
          /\ Goto(c, "filter") \/ Goto(c, "register")
          /\ UNCHANGED <<call, items, batch>>
      BY <1>8, <2>2 DEF EnsureModule, RegisterModule, callVars
    <3>2. pc'[c] \in {"filter", "register"}
      BY <3>1, <1>a DEF Goto, CallsTypeOK
    <3>3. QED BY <3>1, <3>2, <1>3 DEF Quiet, LoadedSteps, TagSteps
  <2>3. QED BY <2>1, <2>2
<1>9. ASSUME NEW c \in Clients, LoadContext(c) PROVE Quiet(b)
  <2>1. CASE Fail(c) BY <2>1, <1>1
  <2>2. CASE ~Fail(c)
    <3>1. /\ pc[c] = "tag_load" /\ Goto(c, "tag_write")
          /\ UNCHANGED <<call, items, batch>>
      BY <1>9, <2>2 DEF LoadContext
    <3>2. pc'[c] = "tag_write"
      BY <3>1, <1>a DEF Goto, CallsTypeOK
    <3>3. QED BY <3>1, <3>2, <1>3 DEF Quiet, LoadedSteps, TagSteps
  <2>3. QED BY <2>1, <2>2
<1>10. ASSUME NEW c \in Clients, WriteContext(c) \/ Interrupt(c) PROVE Quiet(b)
  BY <1>1, <1>10 DEF WriteContext, Interrupt
<1>11. ASSUME NEW c \in Clients, c # b, LoadDocuments(c) PROVE Quiet(b)
  BY <1>11, <1>a DEF LoadDocuments, Goto, CallsTypeOK, Quiet
<1>12. ASSUME NEW c \in Clients, c # b, Filter(c) PROVE Quiet(b)
  BY <1>12, <1>a DEF Filter, Goto, CallsTypeOK, Quiet
<1>13. ASSUME NEW c \in Clients, c # b, CommitRecognition(c) \/ CommitResolution(c)
       PROVE  Quiet(b)
  <2>1. CASE Fail(c) BY <2>1, <1>1
  <2>2. CASE ~Fail(c)
    <3>1. Goto(c, "tag") /\ UNCHANGED <<call, items, batch>>
      BY <1>13, <2>2 DEF CommitRecognition, CommitResolution, InsertRecognitions,
         InsertResolutions, callVars
    <3>2. QED BY <3>1, <1>13, <1>3
  <2>3. QED BY <2>1, <2>2
<1>14. CASE UNCHANGED vars BY <1>2, <1>14 DEF vars, callVars
<1>15. QED
  BY <1>4, <1>5, <1>6, <1>7, <1>8, <1>9, <1>10, <1>11, <1>12, <1>13, <1>14
     DEF Next, ClientStep, RunRecognizer, RunResolver

\* A commit marks every item of its batch that the module cannot leave
\* unanswered.
LEMMA CommitAnswers ==
  ASSUME TypeOK, NEW c \in Clients, CommitRecognition(c) \/ CommitResolution(c),
         ~Fail(c), NEW i \in batch[c]
  PROVE  /\ Answered(c, i)'
         /\ call' = call /\ items' = items /\ pc'[c] = "tag"
<1>a. CallsTypeOK BY DEF TypeOK
<1>1. CASE CommitRecognition(c)
  <2> DEFINE r == call[c].module
             Predicted(found) == {d \in batch[c] : found[d] # Unavailable}
  <2>1. PICK found \in [batch[c] -> (SUBSET Spans) \cup {Unavailable}] :
          /\ \A d \in batch[c] : found[d] \in Spotted[r][d]
          /\ InsertRecognitions(c, Predicted(found), found)
    BY <1>1 DEF CommitRecognition
  <2>2. /\ call' = call /\ items' = items /\ pc'[c] = "tag"
        /\ call[c].op = "recognize"
    BY <1>1, <2>1, <1>a DEF CommitRecognition, InsertRecognitions, Goto, callVars, CallsTypeOK
  <2>3. ASSUME Unavailable \notin Spotted[r][i] PROVE Recognized(i, r)'
    <3>1. i \in Predicted(found) BY <2>1, <2>3
    <3> DEFINE m == [document |-> i, recognizer |-> r, run |-> ThisRun(c)]
    <3>2. m \in recognitions' BY <2>1, <3>1 DEF InsertRecognitions
    <3>3. QED BY <2>2, <3>2 DEF Recognized
  <2>4. QED BY <2>2, <2>3 DEF Answered
<1>2. CASE CommitResolution(c)
  <2> DEFINE s == call[c].module
             Predicted(place) == {x \in batch[c] : place[x] # Unavailable}
  <2>1. PICK place \in [batch[c] -> Located[s]] :
          InsertResolutions(c, Predicted(place), place)
    BY <1>2 DEF CommitResolution
  <2>2. /\ call' = call /\ items' = items /\ pc'[c] = "tag"
        /\ call[c].op = "resolve"
    BY <1>2, <2>1, <1>a DEF CommitResolution, InsertResolutions, Goto, callVars, CallsTypeOK
  <2>3. ASSUME Unavailable \notin Located[s] PROVE Resolved(i, s)'
    <3>1. i \in Predicted(place) BY <2>1, <2>3
    <3> DEFINE m == [reference |-> i, resolver |-> s, run |-> ThisRun(c)]
    <3>2. m \in resolutions' BY <2>1, <3>1 DEF InsertResolutions
    <3>3. QED BY <2>2, <3>2 DEF Resolved
  <2>4. QED BY <2>2, <2>3 DEF Answered
<1>3. QED BY <1>1, <1>2

\* When a run goes on to move its tag, every item it loaded that is still stored
\* carries its marker, in every reachable state.
THEOREM AlwaysProcessedBeforeTagging == Spec => []ProcessedBeforeTagging
<1> DEFINE AllAnswered == \A c \in Clients : WorkAnswered(c)
<1>1. Init => AllAnswered
  BY DEF Init, WorkAnswered, LoadedSteps, TagSteps
<1>2. TypeOK /\ TypeOK' /\ RowsAnchored /\ RowsAnchored' /\ AllAnswered /\ [Next]_vars
        => AllAnswered'
  <2> SUFFICES ASSUME TypeOK, TypeOK', RowsAnchored, RowsAnchored', AllAnswered,
                      [Next]_vars, NEW c \in Clients
               PROVE  WorkAnswered(c)'
    OBVIOUS
  <2>a. CallsTypeOK /\ RowsTypeOK BY DEF TypeOK
  <2>b. WorkAnswered(c) BY DEF AllAnswered
  <2>1. ASSUME pc[c] # "idle", call'[c] = call[c], NEW i, Spared(c, i)
        PROVE  Spared(c, i)' /\ (Answered(c, i) => Answered(c, i)')
    BY <2>1, AnswersLast, CallTyped
  <2>2. CASE Quiet(c)
    <3>1. CASE pc'[c] \notin LoadedSteps
      BY <3>1 DEF WorkAnswered, LoadedSteps
    <3>2. CASE pc'[c] \in LoadedSteps
      <4>1. /\ UNCHANGED <<call[c], items[c], batch[c]>>
            /\ pc[c] \in LoadedSteps
            /\ pc'[c] = "commit" => pc[c] = "commit"
            /\ pc'[c] \in TagSteps => pc[c] \in TagSteps
        BY <2>2, <3>2 DEF Quiet, TagSteps
      <4>2. pc[c] # "idle" BY <4>1 DEF LoadedSteps, TagSteps
      <4>3. \A i \in items[c] : Spared(c, i) BY <2>b, <4>1 DEF WorkAnswered
      <4>4. \A i \in items[c] : Spared(c, i)' /\ (Answered(c, i) => Answered(c, i)')
        BY <2>1, <4>1, <4>2, <4>3
      <4>5. QED BY <2>b, <4>1, <4>4 DEF WorkAnswered
    <3>3. QED BY <3>1, <3>2
  <2>3. CASE LoadDocuments(c)
    <3>1. /\ pc[c] = "load" /\ pc'[c] = "ensure" /\ call' = call
          /\ documents' = documents /\ references' = references
          /\ items'[c] = IF call[c].op = "recognize"
                           THEN DocumentsOf(call[c].project)
                           ELSE ReferencesOf(call[c].project)
      BY <2>3, <2>a DEF LoadDocuments, Goto, CallsTypeOK, dbVars
    <3>2. \A i \in items'[c] : Spared(c, i)'
      BY <3>1, <2>a DEF Spared, DocumentsOf, ReferencesOf, RowsTypeOK
    <3>3. QED BY <3>1, <3>2 DEF WorkAnswered, TagSteps
  <2>4. CASE Filter(c)
    <3>1. /\ pc[c] = "filter" /\ call' = call /\ items' = items
          /\ batch'[c] = Unprocessed(c)
          /\ pc'[c] = IF Unprocessed(c) = {} THEN "tag" ELSE "commit"
      BY <2>4, <2>a DEF Filter, Goto, CallsTypeOK
    <3>2. \A i \in items[c] : Spared(c, i)
      BY <2>b, <3>1 DEF WorkAnswered, LoadedSteps
    <3>3. \A i \in items[c] \ Unprocessed(c) : Answered(c, i)
      BY DEF Unprocessed, Answered
    <3>4. /\ \A i \in items[c] : Spared(c, i)'
          /\ \A i \in items[c] \ Unprocessed(c) : Answered(c, i)'
      BY <2>1, <3>1, <3>2, <3>3
    <3>5. QED BY <3>1, <3>4 DEF WorkAnswered, TagSteps
  <2>5. CASE (CommitRecognition(c) \/ CommitResolution(c)) /\ ~Quiet(c)
    <3>1. ~Fail(c)
      <4> SUFFICES ASSUME Fail(c) PROVE FALSE OBVIOUS
      <4>1. pc'[c] = "idle" BY <2>a DEF Fail, Return, CallsTypeOK
      <4>2. QED BY <2>5, <4>1 DEF Quiet, LoadedSteps, TagSteps
    <3>2. pc[c] = "commit" BY <2>5 DEF CommitRecognition, CommitResolution
    <3>3. \A i \in batch[c] : Answered(c, i)' BY <2>5, <3>1, CommitAnswers
    <3>4. call' = call /\ items' = items /\ pc'[c] = "tag"
      BY <2>5, <2>a, <3>1 DEF CommitRecognition, CommitResolution, InsertRecognitions,
         InsertResolutions, Goto, callVars, CallsTypeOK
    <3>5. \A i \in items[c] : Spared(c, i)
      BY <2>b, <3>2 DEF WorkAnswered, LoadedSteps
    <3>6. \A i \in items[c] : Spared(c, i)' /\ (Answered(c, i) => Answered(c, i)')
      BY <2>1, <3>2, <3>4, <3>5
    <3>7. QED BY <2>b, <3>2, <3>3, <3>4, <3>6 DEF WorkAnswered
  <2>6. QED BY <2>2, <2>3, <2>4, <2>5, QuietKinds
<1>3. AllAnswered => ProcessedBeforeTagging
  BY DEF WorkAnswered, TagSteps, ProcessedBeforeTagging
<1> HIDE DEF AllAnswered
<1>4. QED BY <1>1, <1>2, <1>3, TypeCorrect, AlwaysAnchored, PTL DEF Spec

-----------------------------------------------------------------------------
(***************************************************************************)
(* The rows of one project.                                                *)
(***************************************************************************)

RecognitionsOf(p) == {m \in recognitions : HomeOf[m.document] = p}
ReferentsOf(p) == {y \in referents : HomeOf[y.reference.document] = p}
ResolutionsOf(p) == {m \in resolutions : HomeOf[m.reference.document] = p}
LatestRow(p) == contexts[<<p, Latest>>]

\* A context row that is not there has no columns.
RowsBlank ==
  \A k \in Projects \X Tags : ~contexts[k].exists => contexts[k] = NoContext

\* What the store's own invariants say, and that nothing was contended for.
StoreInv == TypeOK /\ AnchorInv /\ OnceInv /\ RowsBlank /\ contended = {}

-----------------------------------------------------------------------------
(***************************************************************************)
(* How far a parse has come, and what it can rely on there.                *)
(***************************************************************************)

Stages == {"ready", "texts", "recognize", "recognizing", "resolve", "resolving",
           "read", "finally"}

Endings == {"none", "return", "raise", "die"}

ParseTypeOK ==
  /\ stage \in [Clients -> Stages]
  /\ job \in [Clients -> Job \cup {None}]
  /\ answer \in [Clients -> SUBSET Stateless!Toponym]
  /\ result \in [Clients -> SUBSET Stateless!Toponym]
  /\ ending \in [Clients -> Endings]

\* The call that a parse makes for one of its modules.
CallFor(j, op, m) == [op |-> op, project |-> j.project, module |-> m, tag |-> Latest]

\* A parse holds a live project of its own and makes the call of its stage.
Holds(c) ==
  /\ stage[c] = "ready" <=> job[c] = None
  /\ pc[c] # "idle" <=> stage[c] \in {"recognizing", "resolving"}
  /\ stage[c] \in {"recognize", "recognizing"} => job[c].recognizer # None
  /\ stage[c] \in {"resolve", "resolving"} => job[c].resolver # None
  /\ stage[c] = "recognizing" => call[c] = CallFor(job[c], "recognize", job[c].recognizer)
  /\ stage[c] = "resolving" => call[c] = CallFor(job[c], "resolve", job[c].resolver)
  /\ stage[c] = "finally" => ending[c] \in {"return", "raise"}
  /\ job[c] # None =>
       /\ projects[job[c].project] = "live"
       /\ \A d \in job[c].docs : HomeOf[d] = job[c].project

\* No two parses work in one project.
Apart ==
  \A b, c \in Clients :
    b # c /\ job[b] # None /\ job[c] # None => job[b].project # job[c].project

Trying(c) == stage[c] \notin {"ready", "finally"}

\* The recognizer, if there is one, has stored its results; so has the resolver.
Searched(c) ==
  \/ stage[c] \in {"resolve", "resolving", "read"}
  \/ stage[c] = "recognizing" /\ pc[c] \in TagSteps
Settled(c) ==
  \/ stage[c] = "read"
  \/ stage[c] = "resolving" /\ pc[c] \in TagSteps

\* A call takes these steps with its items loaded and not yet answered.
WaitingSteps == {"ensure", "register", "filter", "commit"}

\* The documents of a parse are its texts, and its calls work on all of them.
Loads(c) ==
  LET p == job[c].project IN
  /\ stage[c] = "texts" => DocumentsOf(p) = {}
  /\ Trying(c) /\ stage[c] # "texts" => DocumentsOf(p) = job[c].docs
  /\ stage[c] = "recognizing" =>
       /\ pc[c] \in WaitingSteps => items[c] = DocumentsOf(p)
       /\ pc[c] = "commit" => batch[c] = DocumentsOf(p)
  /\ stage[c] = "resolving" =>
       /\ pc[c] \in WaitingSteps => items[c] = ReferencesOf(p)
       /\ pc[c] = "commit" => batch[c] = ReferencesOf(p)

\* References that are one complete prediction for every document.
FoundIn(j, R) ==
  /\ \A x \in R : x.recognizer = j.recognizer
  /\ \A d \in j.docs : {x.span : x \in {y \in R : y.document = d}}
                         \in Stateless!Findings(j.recognizer, d)
  /\ \A x, y \in R : x.document = y.document /\ x.span = y.span => x = y

\* Referents that are places the resolver gave, none only where it gave none.
PlacedIn(j, R, Y) ==
  /\ \A y \in Y : y.feature \in Stateless!Places(j.resolver)
  /\ \A x \in R : \/ \E y \in Y : y.reference = x /\ y.resolver = j.resolver
                 \/ None \in Stateless!Places(j.resolver)

\* Nothing is in the project before a module has run, its results afterwards.
Stores(c) ==
  LET p == job[c].project IN
  Trying(c) =>
    /\ IF Searched(c) THEN FoundIn(job[c], ReferencesOf(p))
                      ELSE ReferencesOf(p) = {} /\ RecognitionsOf(p) = {}
    /\ IF Settled(c) THEN PlacedIn(job[c], ReferencesOf(p), ReferentsOf(p))
                     ELSE ReferentsOf(p) = {} /\ ResolutionsOf(p) = {}

\* The tag "latest" names the modules that have run.
Names(c) ==
  Trying(c) =>
    /\ LatestRow(job[c].project).recognizer =
         IF stage[c] \in {"resolve", "resolving", "read"} THEN job[c].recognizer ELSE None
    /\ LatestRow(job[c].project).resolver =
         IF stage[c] = "read" THEN job[c].resolver ELSE None
    /\ pc[c] = "tag_write" => seen[c] = LatestRow(job[c].project)

\* A parse that is about to return has a correct answer.
AnswersRight(c) ==
  stage[c] = "finally" /\ ending[c] = "return" => Stateless!Correct(job[c], answer[c])

Working(c) ==
  /\ Holds(c)
  /\ Loads(c)
  /\ Stores(c)
  /\ Names(c)
  /\ AnswersRight(c)

ParseInv ==
  /\ StoreInv
  /\ ParseTypeOK
  /\ Apart
  /\ \A c \in Clients : Working(c)

-----------------------------------------------------------------------------
(***************************************************************************)
(* A parse leaves the others alone.                                        *)
(***************************************************************************)

\* A step that changes nothing of a project, or of a client.
Untouched(p) ==
  /\ projects'[p] = projects[p]
  /\ DocumentsOf(p)' = DocumentsOf(p)
  /\ ReferencesOf(p)' = ReferencesOf(p)
  /\ RecognitionsOf(p)' = RecognitionsOf(p)
  /\ ReferentsOf(p)' = ReferentsOf(p)
  /\ ResolutionsOf(p)' = ResolutionsOf(p)
  /\ LatestRow(p)' = LatestRow(p)

CallKept(c) ==
  UNCHANGED <<pc[c], call[c], items[c], batch[c], seen[c]>>

ParseKept(c) ==
  UNCHANGED <<stage[c], job[c], answer[c], ending[c]>>

\* The steps of one client.
ParseStep(c) ==
  \/ \E j \in Job : StartParse(c, j)
  \/ AddTexts(c)
  \/ StartRecognizer(c)
  \/ StartResolver(c)
  \/ RunModules(c)
  \/ ReadBack(c)
  \/ CleanUp(c)
  \/ RaiseInside(c)
  \/ Die(c)

\* What a parse relies on is its own.
LEMMA WorkingKept ==
  ASSUME NEW c \in Clients, Working(c), CallKept(c), ParseKept(c),
         \A p \in Projects : job[c] # None /\ p = job[c].project => Untouched(p),
         job[c] \in Job \cup {None}
  PROVE  Working(c)'
<1>1. /\ stage'[c] = stage[c] /\ job'[c] = job[c] /\ answer'[c] = answer[c]
      /\ ending'[c] = ending[c] /\ pc'[c] = pc[c] /\ call'[c] = call[c]
      /\ items'[c] = items[c] /\ batch'[c] = batch[c] /\ seen'[c] = seen[c]
  BY DEF CallKept, ParseKept
<1>2. CASE job[c] = None
  <2>1. stage[c] = "ready" BY <1>2 DEF Working, Holds
  <2>2. QED BY <1>1, <1>2, <2>1 DEF Working, Holds, Loads, Stores, Names, AnswersRight, Trying
<1>3. CASE job[c] \in Job
  <2>1. PICK p \in Projects : p = job[c].project
    BY <1>3 DEF Job
  <2>2. Untouched(p) BY <1>3, <2>1, NoneAssumption
  <2>3. Holds(c)'
    BY <1>1, <2>1, <2>2 DEF Working, Holds, Untouched, CallFor
  <2>4. /\ DocumentsOf(job[c].project)' = DocumentsOf(job[c].project)
        /\ ReferencesOf(job[c].project)' = ReferencesOf(job[c].project)
        /\ RecognitionsOf(job[c].project)' = RecognitionsOf(job[c].project)
        /\ ReferentsOf(job[c].project)' = ReferentsOf(job[c].project)
        /\ ResolutionsOf(job[c].project)' = ResolutionsOf(job[c].project)
        /\ LatestRow(job[c].project)' = LatestRow(job[c].project)
    BY <1>1, <2>1, <2>2 DEF Untouched, DocumentsOf, ReferencesOf, RecognitionsOf,
       ReferentsOf, ResolutionsOf, LatestRow
  <2>5. Loads(c)'
    BY <1>1, <2>4 DEF Working, Loads, Trying
  <2>6. Stores(c)'
    BY <1>1, <2>4 DEF Working, Stores, Trying, Searched, Settled
  <2>7. Names(c)'
    BY <1>1, <2>4 DEF Working, Names, Trying
  <2>8. AnswersRight(c)'
    BY <1>1 DEF Working, AnswersRight
  <2>9. QED BY <2>3, <2>5, <2>6, <2>7, <2>8 DEF Working
<1>4. QED BY <1>2, <1>3

\* A step of a call, or its interruption, touches nothing outside the call's own
\* project, so long as the items it commits are of that project.
LEMMA CallConfined ==
  ASSUME TypeOK, NEW c \in Clients, ClientStep(c) \/ Interrupt(c),
         NEW q \in Projects, call[c].project = q, call[c].tag = Latest,
         pc[c] = "commit" => \/ call[c].op = "recognize" /\ batch[c] = DocumentsOf(q)
                             \/ call[c].op = "resolve" /\ batch[c] = ReferencesOf(q)
  PROVE  /\ \A p \in Projects \ {q} : Untouched(p)
         /\ \A b \in Clients \ {c} : CallKept(b)
         /\ projects' = projects /\ documents' = documents
<1>a. CallsTypeOK /\ RowsTypeOK BY DEF TypeOK
<1> DEFINE Others == \A b \in Clients \ {c} : CallKept(b)
           Elsewhere == \A p \in Projects \ {q} : Untouched(p)
           Goal == Elsewhere /\ Others /\ projects' = projects /\ documents' = documents
<1>1. ASSUME UNCHANGED <<projects, documents, resultVars>>,
             \A p \in Projects \ {q} : LatestRow(p)' = LatestRow(p)
      PROVE  Elsewhere
  BY <1>1 DEF Untouched, resultVars, DocumentsOf, ReferencesOf, RecognitionsOf,
     ReferentsOf, ResolutionsOf
<1>2. ASSUME UNCHANGED dbVars PROVE Elsewhere
  BY <1>1, <1>2 DEF dbVars, resultVars, LatestRow
<1>3. ASSUME NEW how, Return(c, how) PROVE Others
  BY <1>3, <1>a DEF Return, CallKept, CallsTypeOK
<1>4. ASSUME Fail(c) PROVE Goal
  BY <1>2, <1>3, <1>4 DEF Fail, dbVars
<1>5. ASSUME NEW step, Goto(c, step), UNCHANGED <<call, items, batch, seen>> PROVE Others
  BY <1>5, <1>a DEF Goto, CallKept, CallsTypeOK
<1>6. ASSUME NEW row, contexts' = [contexts EXCEPT ![<<q, Latest>>] = row],
             NEW p \in Projects \ {q}
      PROVE  LatestRow(p)' = LatestRow(p)
  BY <1>6, <1>a, TagAssumption DEF LatestRow, RowsTypeOK
<1>7. CASE OpenContext(c) \/ TagContext(c)
  <2>1. UNCHANGED <<dbVars, callVars>> /\ \E step : Goto(c, step)
    BY <1>7 DEF OpenContext, TagContext, ReadContext
  <2>2. QED BY <1>2, <1>5, <2>1 DEF dbVars, callVars
<1>8. ASSUME NEW step, NEW next, InsertContext(c, step, Latest, next) PROVE Goal
  <2>1. CASE Fail(c) BY <1>4, <2>1
  <2>2. CASE ~Fail(c)
    <3>1. /\ contexts' = [contexts EXCEPT ![<<q, Latest>>] = FreshContext]
          /\ Goto(c, next)
          /\ UNCHANGED <<projects, documents, modules, resultVars, callVars>>
      BY <1>8, <2>2 DEF InsertContext
    <3>2. QED BY <1>1, <1>5, <1>6, <3>1 DEF callVars
  <2>3. QED BY <2>1, <2>2
<1>9. CASE OpenInsert(c) \/ TagInsert(c)
  BY <1>8, <1>9 DEF OpenInsert, TagInsert
<1>10. CASE LoadDocuments(c)
  <2>1. UNCHANGED <<dbVars, call, batch, seen>>
        /\ Goto(c, "ensure") /\ \E w : items' = [items EXCEPT ![c] = w]
    BY <1>10 DEF LoadDocuments
  <2>2. Others BY <2>1, <1>a DEF Goto, CallKept, CallsTypeOK
  <2>3. QED BY <1>2, <2>1, <2>2 DEF dbVars
<1>11. CASE EnsureModule(c)
  <2>1. UNCHANGED <<dbVars, callVars>> /\ \E step : Goto(c, step)
    BY <1>11 DEF EnsureModule
  <2>2. QED BY <1>2, <1>5, <2>1 DEF dbVars, callVars
<1>12. CASE RegisterModule(c)
  <2>1. CASE Fail(c) BY <1>4, <2>1
  <2>2. CASE ~Fail(c)
    <3>1. UNCHANGED <<projects, documents, resultVars, contexts, callVars>> /\ Goto(c, "filter")
      BY <1>12, <2>2 DEF RegisterModule
    <3>2. QED BY <1>1, <1>5, <3>1 DEF callVars, LatestRow
  <2>3. QED BY <2>1, <2>2
<1>13. CASE Filter(c)
  <2>1. UNCHANGED <<dbVars, call, items, seen>>
        /\ (\E w : batch' = [batch EXCEPT ![c] = w]) /\ (\E step : Goto(c, step))
    BY <1>13 DEF Filter
  <2>2. Others BY <2>1, <1>a DEF Goto, CallKept, CallsTypeOK
  <2>3. QED BY <1>2, <2>1, <2>2 DEF dbVars
<1>14. CASE CommitRecognition(c) /\ ~Fail(c)
  <2>0. /\ pc[c] = "commit" /\ call[c].op = "recognize"
        /\ \E found : \E predicted \in SUBSET batch[c] : InsertRecognitions(c, predicted, found)
    BY <1>14 DEF CommitRecognition
  <2>1. PICK found : \E predicted \in SUBSET batch[c] : InsertRecognitions(c, predicted, found)
    BY <2>0
  <2>2. PICK predicted \in SUBSET batch[c] : InsertRecognitions(c, predicted, found)
    BY <2>1
  <2>3. \A d \in predicted : HomeOf[d] = q
    BY <2>0, <2>2 DEF DocumentsOf
  <2>4. /\ UNCHANGED <<projects, documents, modules, referents, resolutions, contexts, callVars>>
        /\ Goto(c, "tag")
        /\ references \subseteq references'
        /\ recognitions \subseteq recognitions'
        /\ \A x \in references' \ references : x.document \in predicted
        /\ \A x \in recognitions' \ recognitions : x.document \in predicted
    BY <2>2 DEF InsertRecognitions
  <2>5. ASSUME NEW p \in Projects \ {q}
        PROVE  ReferencesOf(p)' = ReferencesOf(p) /\ RecognitionsOf(p)' = RecognitionsOf(p)
    BY <2>3, <2>4 DEF ReferencesOf, RecognitionsOf
  <2>6. Elsewhere
    BY <2>4, <2>5 DEF Untouched, DocumentsOf, ReferentsOf, ResolutionsOf, LatestRow
  <2>7. QED BY <1>5, <2>4, <2>6 DEF callVars
<1>15. CASE CommitResolution(c) /\ ~Fail(c)
  <2>0. /\ pc[c] = "commit" /\ call[c].op = "resolve"
        /\ \E place : \E predicted \in SUBSET batch[c] : InsertResolutions(c, predicted, place)
    BY <1>15 DEF CommitResolution
  <2>1. PICK place : \E predicted \in SUBSET batch[c] : InsertResolutions(c, predicted, place)
    BY <2>0
  <2>2. PICK predicted \in SUBSET batch[c] : InsertResolutions(c, predicted, place)
    BY <2>1
  <2>3. \A x \in predicted : HomeOf[x.document] = q
    BY <2>0, <2>2 DEF ReferencesOf
  <2>4. /\ UNCHANGED <<projects, documents, modules, references, recognitions, contexts, callVars>>
        /\ Goto(c, "tag")
        /\ referents \subseteq referents'
        /\ resolutions \subseteq resolutions'
        /\ \A x \in referents' \ referents : x.reference \in predicted
        /\ \A x \in resolutions' \ resolutions : x.reference \in predicted
    BY <2>2 DEF InsertResolutions
  <2>5. ASSUME NEW p \in Projects \ {q}
        PROVE  ReferentsOf(p)' = ReferentsOf(p) /\ ResolutionsOf(p)' = ResolutionsOf(p)
    BY <2>3, <2>4 DEF ReferentsOf, ResolutionsOf
  <2>6. Elsewhere
    BY <2>4, <2>5 DEF Untouched, DocumentsOf, ReferencesOf, RecognitionsOf, LatestRow
  <2>7. QED BY <1>5, <2>4, <2>6 DEF callVars
<1>16. CASE LoadContext(c)
  <2>1. CASE Fail(c) BY <1>4, <2>1
  <2>2. CASE ~Fail(c)
    <3>1. UNCHANGED <<dbVars, call, items, batch>>
          /\ (\E w : seen' = [seen EXCEPT ![c] = w]) /\ Goto(c, "tag_write")
      BY <1>16, <2>2 DEF LoadContext
    <3>2. Others BY <3>1, <1>a DEF Goto, CallKept, CallsTypeOK
    <3>3. QED BY <1>2, <3>1, <3>2 DEF dbVars
  <2>3. QED BY <2>1, <2>2
<1>17. CASE WriteContext(c)
  <2>1. CASE Fail(c) BY <1>4, <2>1
  <2>2. CASE ~Fail(c)
    <3>1. /\ \E row : contexts' = [contexts EXCEPT ![<<q, Latest>>] = row]
          /\ Return(c, "ok")
          /\ UNCHANGED <<projects, documents, modules, resultVars>>
      BY <1>17, <2>2 DEF WriteContext
    <3>2. QED BY <1>1, <1>3, <1>6, <3>1
  <2>3. QED BY <2>1, <2>2
<1>18. CASE Interrupt(c) BY <1>4, <1>18 DEF Interrupt
<1> HIDE DEF Others, Elsewhere
<1>19. QED
  BY <1>4, <1>7, <1>9, <1>10, <1>11, <1>12, <1>13, <1>14, <1>15, <1>16, <1>17, <1>18
     DEF ClientStep, Others, Elsewhere

-----------------------------------------------------------------------------
(***************************************************************************)
(* What a parse does to the store.                                         *)
(***************************************************************************)

LEMMA JobTyped ==
  ASSUME ParseInv, NEW c \in Clients, job[c] # None
  PROVE  /\ job[c] \in Job
         /\ job[c].project \in Projects
         /\ job[c].docs \in SUBSET Docs
         /\ job[c].save \in BOOLEAN
         /\ job[c].recognizer \in Recognizers \cup {None}
         /\ job[c].resolver \in Resolvers \cup {None}
<1>1. job[c] \in Job BY DEF ParseInv, ParseTypeOK
<1>2. QED BY <1>1 DEF Job

\* A parse that has begun has a job.
LEMMA JobHeld ==
  ASSUME ParseInv, NEW c \in Clients, stage[c] # "ready"
  PROVE  job[c] # None
BY DEF ParseInv, Working, Holds

\* The running call of a parse is that of its stage, on its own project.
LEMMA CallHeld ==
  ASSUME ParseInv, NEW c \in Clients, pc[c] # "idle"
  PROVE  /\ stage[c] \in {"recognizing", "resolving"}
         /\ job[c] # None
         /\ call[c].project = job[c].project
         /\ call[c].tag = Latest
         /\ pc[c] = "commit" =>
              \/ /\ call[c].op = "recognize"
                 /\ batch[c] = DocumentsOf(job[c].project)
              \/ /\ call[c].op = "resolve"
                 /\ batch[c] = ReferencesOf(job[c].project)
<1>1. Holds(c) /\ Loads(c) BY DEF ParseInv, Working
<1>2. stage[c] \in {"recognizing", "resolving"} BY <1>1 DEF Holds
<1>3. job[c] # None BY <1>2, JobHeld
<1>4. QED BY <1>1, <1>2, <1>3 DEF Holds, Loads, CallFor

\* Every step of a parse but the last read is a step of the store.
LEMMA StoreSteps ==
  ASSUME ParseInv, NEW c \in Clients, ParseStep(c), ~ReadBack(c)
  PROVE  [Next]_vars
<1>1. ASSUME NEW j \in Job, StartParse(c, j) PROVE Next
  BY <1>1 DEF StartParse, OpenProject, Next, Job
<1>2. CASE AddTexts(c)
  <2>1. stage[c] = "texts" /\ CreateDocuments(job[c].project, job[c].docs)
    BY <1>2 DEF AddTexts
  <2>2. job[c] # None BY <2>1, JobHeld
  <2>3. CASE job[c].docs = {}
    BY <2>1, <2>3 DEF CreateDocuments, vars, dbVars, resultVars
  <2>4. CASE job[c].docs # {}
    <3>1. /\ DocumentsOf(job[c].project) = {}
          /\ \A d \in job[c].docs : HomeOf[d] = job[c].project
      BY <2>1, <2>2 DEF ParseInv, Working, Holds, Loads
    <3>2. job[c].docs \in (SUBSET Uncreated(job[c].project)) \ {{}}
      BY <2>2, <2>4, <3>1, JobTyped DEF Uncreated, DocumentsOf
    <3>3. QED BY <2>1, <2>2, <3>2, JobTyped DEF Next
  <2>5. QED BY <2>3, <2>4
<1>3. CASE StartRecognizer(c)
  <2>1. stage[c] = "recognize" /\ RunRecognizer(c, job[c].project, job[c].recognizer, Latest)
    BY <1>3 DEF StartRecognizer
  <2>2. job[c] # None /\ job[c].recognizer # None
    BY <2>1, JobHeld DEF ParseInv, Working, Holds
  <2>3. QED BY <2>1, <2>2, JobTyped, TagAssumption DEF Next
<1>4. CASE StartResolver(c)
  <2>1. stage[c] = "resolve" /\ RunResolver(c, job[c].project, job[c].resolver, Latest)
    BY <1>4 DEF StartResolver
  <2>2. job[c] # None /\ job[c].resolver # None
    BY <2>1, JobHeld DEF ParseInv, Working, Holds
  <2>3. QED BY <2>1, <2>2, JobTyped, TagAssumption DEF Next
<1>5. CASE RunModules(c) BY <1>5 DEF RunModules, Next
<1>6. CASE CleanUp(c)
  <2>1. job[c] # None BY <1>6, JobHeld DEF CleanUp
  <2>2. QED BY <1>6, <2>1, JobTyped DEF CleanUp, Discard, Next
<1>7. CASE RaiseInside(c) \/ Die(c) BY <1>7 DEF RaiseInside, Die, Stop, Next
<1>8. QED BY <1>1, <1>2, <1>3, <1>4, <1>5, <1>6, <1>7 DEF ParseStep

\* The last read may create the row of its tag, and nothing else.
LEMMA ReadBackStores ==
  ASSUME ParseInv, NEW c \in Clients, ReadBack(c)
  PROVE  /\ UNCHANGED <<projects, documents, modules, resultVars, pc, callVars>>
         /\ \/ contexts' = contexts
            \/ /\ projects[job[c].project] = "live"
               /\ contexts' = [contexts EXCEPT ![<<job[c].project, Latest>>] =
                                 TagRow(job[c].project)]
BY DEF ReadBack

\* A row that a tag stands for is found or created, and has the columns it had.
LEMMA TagRowOf ==
  ASSUME TypeOK, RowsBlank, NEW p \in Projects
  PROVE  /\ TagRow(p) \in ContextRow
         /\ TagRow(p).exists
         /\ TagRow(p).recognizer = LatestRow(p).recognizer
         /\ TagRow(p).resolver = LatestRow(p).resolver
<1>1. <<p, Latest>> \in Projects \X Tags BY TagAssumption
<1>2. contexts[<<p, Latest>>] \in ContextRow BY <1>1 DEF TypeOK, RowsTypeOK
<1>3. FreshContext \in ContextRow BY DEF FreshContext, ContextRow
<1>4. CASE ContextExists(p, Latest)
  BY <1>2, <1>4 DEF TagRow, ContextExists, LatestRow
<1>5. CASE ~ContextExists(p, Latest)
  <2>1. contexts[<<p, Latest>>] = NoContext
    BY <1>1, <1>5 DEF RowsBlank, ContextExists
  <2>2. QED BY <1>3, <1>5, <2>1 DEF TagRow, LatestRow, NoContext, FreshContext
<1>6. QED BY <1>4, <1>5

\* No step leaves columns in a row that is not there.
LEMMA BlankStable ==
  ASSUME TypeOK, RowsBlank, [Next]_vars
  PROVE  RowsBlank'
<1>a. contexts \in [Projects \X Tags -> ContextRow] BY DEF TypeOK, RowsTypeOK
<1>1. ASSUME contexts' = contexts PROVE RowsBlank'
  BY <1>1 DEF RowsBlank
<1>2. ASSUME NEW k, NEW row, row.exists = TRUE, contexts' = [contexts EXCEPT ![k] = row]
      PROVE  RowsBlank'
  BY <1>2, <1>a DEF RowsBlank
<1>3. ASSUME NEW p \in Projects, DeleteProject(p) PROVE RowsBlank'
  BY <1>3, <1>a DEF DeleteProject, RowsBlank
<1>4. ASSUME NEW c \in Clients, NEW step, NEW t, NEW next, InsertContext(c, step, t, next)
      PROVE  RowsBlank'
  <2>1. FreshContext.exists = TRUE BY DEF FreshContext
  <2>2. QED BY <1>1, <1>2, <1>4, <2>1 DEF InsertContext, Fail, dbVars
<1>5. ASSUME NEW c \in Clients, WriteContext(c) PROVE RowsBlank'
  <2>1. CASE Fail(c) BY <1>1, <2>1 DEF Fail, dbVars
  <2>2. CASE ~Fail(c)
    <3> DEFINE k == <<call[c].project, call[c].tag>>
    <3>1. /\ pc[c] = "tag_write" /\ contexts[k].exists
          /\ contexts' = [contexts EXCEPT ![k] = WithModule(contexts[k], c)]
      BY <1>5, <2>2 DEF WriteContext, ContextExists
    <3>2. k \in Projects \X Tags BY <3>1, CallTyped
    <3>3. contexts[k] \in ContextRow /\ contexts[k].exists = TRUE
      BY <3>1, <3>2, <1>a DEF ContextRow
    <3>4. WithModule(contexts[k], c).exists = TRUE
      BY <3>3 DEF WithModule, ContextRow
    <3>5. QED BY <1>2, <3>1, <3>4
  <2>3. QED BY <2>1, <2>2
<1>6. ASSUME NEW c \in Clients, ClientStep(c) \/ Interrupt(c) PROVE RowsBlank'
  BY <1>1, <1>4, <1>5, <1>6
     DEF ClientStep, OpenContext, OpenInsert, TagContext, TagInsert, ReadContext,
         LoadDocuments, EnsureModule, RegisterModule, Filter, CommitRecognition,
         InsertRecognitions, CommitResolution, InsertResolutions, LoadContext,
         Interrupt, Fail, dbVars
<1>7. QED
  BY <1>1, <1>3, <1>6 DEF Next, CreateProject, CreateDocuments, RunRecognizer,
     RunResolver, Begin, dbVars, vars

\* A deletion takes the rows of one project only.
LEMMA DeletionConfined ==
  ASSUME TypeOK, RowsAnchored, NEW q \in Projects, DeleteProject(q),
         NEW p \in Projects \ {q}
  PROVE  Untouched(p)
<1>a. RowsTypeOK BY DEF TypeOK
<1>1. /\ \A x \in references \cup recognitions : x.document \in documents
      /\ \A y \in referents \cup resolutions : y.reference.document \in documents
  BY DEF RowsAnchored, RecognitionsAnchored, ResolutionsAnchored
<1>2. projects'[p] = projects[p] BY <1>a DEF DeleteProject, RowsTypeOK
<1>3. DocumentsOf(p)' = DocumentsOf(p) BY DEF DeleteProject, DocumentsOf
<1>4. /\ ReferencesOf(p)' = ReferencesOf(p)
      /\ RecognitionsOf(p)' = RecognitionsOf(p)
  BY <1>1 DEF DeleteProject, ReferencesOf, RecognitionsOf
<1>5. /\ ReferentsOf(p)' = ReferentsOf(p)
      /\ ResolutionsOf(p)' = ResolutionsOf(p)
  BY <1>1 DEF DeleteProject, ReferentsOf, ResolutionsOf
<1>6. LatestRow(p)' = LatestRow(p)
  BY TagAssumption DEF DeleteProject, LatestRow
<1>7. QED BY <1>2, <1>3, <1>4, <1>5, <1>6 DEF Untouched

\* A parse changes nothing that another one relies on.
LEMMA OthersSpared ==
  ASSUME ParseInv, NEW c \in Clients, ParseStep(c), NEW b \in Clients \ {c}
  PROVE  /\ CallKept(b)
         /\ ParseKept(b)
         /\ \A p \in Projects : job[b] # None /\ p = job[b].project => Untouched(p)
<1>a. /\ TypeOK /\ CallsTypeOK /\ RowsTypeOK /\ RowsAnchored /\ ParseTypeOK
      /\ RowsBlank
  BY DEF ParseInv, StoreInv, TypeOK, AnchorInv
<1>b. /\ job[b] # None => projects[job[b].project] = "live"
      /\ job[b] # None /\ job[c] # None => job[b].project # job[c].project
  BY DEF ParseInv, Working, Holds, Apart
<1> DEFINE Own == \A p \in Projects : job[b] # None /\ p = job[b].project => Untouched(p)
<1>1. ParseKept(b)
  BY <1>a DEF ParseStep, StartParse, AddTexts, StartRecognizer, StartResolver, RunModules,
     ReadBack, Read, Place, CleanUp, RaiseInside, Die, Advance, EndWith, Leave, ParseKept,
     ParseTypeOK
<1>2. ASSUME UNCHANGED vars PROVE CallKept(b) /\ Own
  BY <1>2 DEF vars, dbVars, callVars, CallKept, Untouched, DocumentsOf, ReferencesOf,
     RecognitionsOf, ReferentsOf, ResolutionsOf, LatestRow
<1>3. ASSUME NEW j \in Job, StartParse(c, j) PROVE CallKept(b) /\ Own
  <2>1. CreateProject(j.project) BY <1>3 DEF StartParse, OpenProject
  <2>2. CallKept(b) BY <2>1 DEF CreateProject, CallKept, callVars
  <2>3. ASSUME NEW p \in Projects, p # j.project PROVE Untouched(p)
    BY <2>1, <2>3, <1>a DEF CreateProject, resultVars, Untouched, DocumentsOf, ReferencesOf,
       RecognitionsOf, ReferentsOf, ResolutionsOf, LatestRow, RowsTypeOK
  <2>4. projects[j.project] = "new" BY <2>1 DEF CreateProject
  <2>5. QED BY <1>b, <2>2, <2>3, <2>4
<1>4. ASSUME AddTexts(c) PROVE CallKept(b) /\ Own
  <2>1. /\ stage[c] = "texts"
        /\ CreateDocuments(job[c].project, job[c].docs)
    BY <1>4 DEF AddTexts
  <2>2. job[c] # None BY <2>1, JobHeld
  <2>3. \A d \in job[c].docs : HomeOf[d] = job[c].project
    BY <2>2 DEF ParseInv, Working, Holds
  <2>4. CallKept(b) BY <2>1 DEF CreateDocuments, CallKept, callVars
  <2>5. ASSUME NEW p \in Projects, p # job[c].project PROVE Untouched(p)
    BY <2>1, <2>3, <2>5 DEF CreateDocuments, resultVars, Untouched, DocumentsOf, ReferencesOf,
       RecognitionsOf, ReferentsOf, ResolutionsOf, LatestRow
  <2>6. QED BY <1>b, <2>2, <2>4, <2>5
<1>5. ASSUME NEW a, Begin(c, a) PROVE CallKept(b) /\ Own
  BY <1>5, <1>a DEF Begin, Goto, CallKept, CallsTypeOK, dbVars, Untouched, DocumentsOf,
     ReferencesOf, RecognitionsOf, ReferentsOf, ResolutionsOf, LatestRow
<1>6. ASSUME StartRecognizer(c) \/ StartResolver(c) PROVE CallKept(b) /\ Own
  BY <1>5, <1>6 DEF StartRecognizer, StartResolver, RunRecognizer, RunResolver
<1>7. ASSUME ClientStep(c) \/ Interrupt(c) PROVE CallKept(b) /\ Own
  <2>1. pc[c] # "idle"
    BY <1>7 DEF ClientStep, OpenContext, OpenInsert, LoadDocuments, EnsureModule,
       RegisterModule, Filter, CommitRecognition, CommitResolution, TagContext, TagInsert,
       ReadContext, InsertContext, LoadContext, WriteContext, Interrupt
  <2>2. job[c] # None BY <2>1, CallHeld
  <2>3. PICK q \in Projects : q = job[c].project BY <2>2, JobTyped
  <2>4. /\ call[c].project = q /\ call[c].tag = Latest
        /\ pc[c] = "commit" =>
             \/ call[c].op = "recognize" /\ batch[c] = DocumentsOf(q)
             \/ call[c].op = "resolve" /\ batch[c] = ReferencesOf(q)
    BY <2>1, <2>3, CallHeld
  <2>5. (\A p \in Projects \ {q} : Untouched(p)) /\ CallKept(b)
    BY <1>7, <1>a, <2>4, CallConfined
  <2>6. QED BY <1>b, <2>2, <2>3, <2>5
<1>8. ASSUME RunModules(c) PROVE CallKept(b) /\ Own
  BY <1>7, <1>8 DEF RunModules
<1>9. ASSUME ReadBack(c) PROVE CallKept(b) /\ Own
  <2>1. job[c] # None BY <1>9, JobHeld DEF ReadBack
  <2>2. CallKept(b) BY <1>9, ReadBackStores DEF CallKept, callVars
  <2>3. \A p \in Projects \ {job[c].project} : contexts'[<<p, Latest>>] = contexts[<<p, Latest>>]
    BY <1>9, <1>a, TagAssumption, ReadBackStores DEF RowsTypeOK
  <2>4. \A p \in Projects \ {job[c].project} : Untouched(p)
    BY <1>9, <2>3, ReadBackStores DEF resultVars, Untouched, DocumentsOf, ReferencesOf,
       RecognitionsOf, ReferentsOf, ResolutionsOf, LatestRow
  <2>5. QED BY <1>b, <2>1, <2>2, <2>4
<1>10. ASSUME CleanUp(c) PROVE CallKept(b) /\ Own
  <2>1. job[c] # None BY <1>10, JobHeld DEF CleanUp
  <2>2. UNCHANGED vars \/ DeleteProject(job[c].project) BY <1>10 DEF CleanUp, Discard
  <2>3. CASE DeleteProject(job[c].project)
    <3>1. CallKept(b) BY <2>3 DEF DeleteProject, CallKept, callVars
    <3>2. job[c].project \in Projects BY <2>1, JobTyped
    <3>3. \A p \in Projects \ {job[c].project} : Untouched(p)
      BY <1>a, <2>3, <3>2, DeletionConfined
    <3>4. QED BY <1>b, <2>1, <3>1, <3>3
  <2>4. QED BY <1>2, <2>2, <2>3
<1>11. ASSUME RaiseInside(c) \/ Die(c) PROVE CallKept(b) /\ Own
  BY <1>2, <1>7, <1>11 DEF RaiseInside, Die, Stop
<1> HIDE DEF Own
<1>12. CallKept(b) /\ Own
  BY <1>3, <1>4, <1>6, <1>8, <1>9, <1>10, <1>11 DEF ParseStep
<1>13. QED BY <1>1, <1>12 DEF Own

-----------------------------------------------------------------------------
(***************************************************************************)
(* The invariants of the store outlast every step of a parse.              *)
(***************************************************************************)

\* Two parses never hold the same item.
LEMMA NothingShared ==
  ASSUME ParseInv, NEW c \in Clients, Filter(c)
  PROVE  contended' = {}
<1>1. pc[c] = "filter" BY DEF Filter
<1>2. Holds(c) /\ Loads(c) /\ job[c] # None BY <1>1, CallHeld DEF ParseInv, Working
<1>3. TypeOK BY DEF ParseInv, StoreInv
<1>4. Unprocessed(c) \subseteq items[c] BY DEF Unprocessed
<1>5. \/ /\ call[c].op = "recognize"
         /\ items[c] = DocumentsOf(job[c].project)
      \/ /\ call[c].op = "resolve"
         /\ items[c] = ReferencesOf(job[c].project)
  BY <1>1, <1>2 DEF Holds, Loads, CallFor, WaitingSteps
<1>6. ASSUME NEW b \in Rivals(c), NEW i \in Unprocessed(c), i \in batch[b] PROVE FALSE
  <2>1. b \in Clients /\ b # c /\ pc[b] = "commit" /\ call[b].module = call[c].module
    BY <1>6 DEF Rivals
  <2>2. job[b] # None /\ job[b].project # job[c].project
    BY <1>2, <2>1, CallHeld DEF ParseInv, Apart
  <2>3. call[b].op = call[c].op
    BY <1>1, <1>3, <2>1, CallTyped, ModulesAssumption
  <2>4. \/ call[c].op = "recognize" /\ batch[b] = DocumentsOf(job[b].project)
        \/ call[c].op = "resolve" /\ batch[b] = ReferencesOf(job[b].project)
    BY <2>1, <2>3, CallHeld
  <2>5. CASE call[c].op = "recognize"
    <3>1. i \in DocumentsOf(job[c].project) /\ i \in DocumentsOf(job[b].project)
      BY <1>4, <1>5, <1>6, <2>4, <2>5
    <3>2. QED BY <2>2, <3>1 DEF DocumentsOf
  <2>6. CASE call[c].op = "resolve"
    <3>1. i \in ReferencesOf(job[c].project) /\ i \in ReferencesOf(job[b].project)
      BY <1>4, <1>5, <1>6, <2>4, <2>6
    <3>2. QED BY <2>2, <3>1 DEF ReferencesOf
  <2>7. QED BY <2>4, <2>5, <2>6
<1>7. {j \in Unprocessed(c) : \E b \in Rivals(c) : j \in batch[b]} = {} BY <1>6
<1>8. contended = {} BY DEF ParseInv, StoreInv
<1>9. contended' = contended \cup
        {<<i, call[c].module>> : i \in {j \in Unprocessed(c) :
                                          \E b \in Rivals(c) : j \in batch[b]}}
  BY DEF Filter
<1>10. QED BY <1>7, <1>8, <1>9

\* A client filters only inside its own call.
LEMMA OnlyOwnFilter ==
  ASSUME ParseInv, NEW c \in Clients, ParseStep(c), NEW b \in Clients, Filter(b)
  PROVE  b = c
<1> SUFFICES ASSUME b # c PROVE FALSE OBVIOUS
<1>1. CallKept(b) BY OthersSpared
<1>2. pc[b] = "filter" /\ pc' = [pc EXCEPT ![b] = IF Unprocessed(b) = {} THEN "tag" ELSE "commit"]
  BY DEF Filter, Goto
<1>3. pc'[b] # "filter" BY <1>2 DEF ParseInv, StoreInv, TypeOK, CallsTypeOK
<1>4. QED BY <1>1, <1>2, <1>3 DEF CallKept

LEMMA StoreKept ==
  ASSUME ParseInv, NEW c \in Clients, ParseStep(c)
  PROVE  StoreInv'
<1>a. /\ TypeOK /\ CallsTypeOK /\ RowsTypeOK /\ AnchorInv /\ OnceInv /\ RowsBlank
      /\ contended = {}
  BY DEF ParseInv, StoreInv, TypeOK
<1>1. CASE ~ReadBack(c)
  <2>1. [Next]_vars BY <1>1, StoreSteps
  <2>2. TypeOK' /\ AnchorInv' /\ OnceInv' /\ RowsBlank'
    BY <1>a, <2>1, TypeStable, AnchorStable, OnceStable, BlankStable
  <2>3. contended' = {}
    <3>1. CASE \E b \in Clients : Filter(b) BY <3>1, OnlyOwnFilter, NothingShared
    <3>2. CASE \A b \in Clients : ~Filter(b) BY <1>a, <2>1, <3>2, OnlyFilterContends
    <3>3. QED BY <3>1, <3>2
  <2>4. QED BY <2>2, <2>3 DEF StoreInv
<1>2. CASE ReadBack(c)
  <2> DEFINE k == <<job[c].project, Latest>>
  <2>1. job[c] # None BY <1>2, JobHeld DEF ReadBack
  <2>2. k \in Projects \X Tags BY <2>1, JobTyped, TagAssumption
  <2>3. UNCHANGED <<projects, documents, modules, resultVars, pc, callVars>>
    BY <1>2, ReadBackStores
  <2>4. TagRow(job[c].project) \in ContextRow /\ TagRow(job[c].project).exists
    BY <1>a, <2>1, JobTyped, TagRowOf
  <2>5. \/ contexts' = contexts
        \/ /\ projects[job[c].project] = "live"
           /\ contexts' = [contexts EXCEPT ![k] = TagRow(job[c].project)]
    BY <1>2, ReadBackStores
  <2>6. contexts' \in [Projects \X Tags -> ContextRow]
    BY <1>a, <2>2, <2>4, <2>5 DEF RowsTypeOK
  <2>7. TypeOK'
    BY <1>a, <2>3, <2>6 DEF TypeOK, RowsTypeOK, CallsTypeOK, resultVars, callVars
  <2>8. RowsBlank' BY <1>a, <2>2, <2>4, <2>5 DEF RowsBlank, RowsTypeOK
  <2>9. OnceInv'
    <3>1. NoNewWork BY <2>3 DEF NoNewWork, resultVars, callVars
    <3>2. QED BY <1>a, <3>1, NoNewWorkSafe
  <2>10. ContextsAnchored'
    <3>1. ContextsAnchored BY <1>a DEF AnchorInv, RowsAnchored
    <3>2. CASE contexts' = contexts
      BY <2>3, <3>1, <3>2 DEF ContextsAnchored
    <3>3. CASE /\ projects[job[c].project] = "live"
               /\ contexts' = [contexts EXCEPT ![k] = TagRow(job[c].project)]
      <4> DEFINE row == TagRow(job[c].project)
      <4>1. row.recognizer \in modules \cup {None} /\ row.resolver \in modules \cup {None}
        BY <3>1, <2>1, JobTyped, TagAssumption
           DEF TagRow, ContextsAnchored, FreshContext
      <4>2. contexts'[k] = row BY <1>a, <2>2, <3>3 DEF RowsTypeOK
      <4>3. \A l \in (Projects \X Tags) \ {k} : contexts'[l] = contexts[l]
        BY <1>a, <3>3 DEF RowsTypeOK
      <4> HIDE DEF row
      <4>4. QED BY <2>3, <3>1, <3>3, <4>1, <4>2, <4>3 DEF ContextsAnchored
    <3>4. QED BY <2>5, <3>2, <3>3
  <2>11. AnchorInv'
    BY <1>a, <2>3, <2>10 DEF AnchorInv, RowsAnchored, DocumentsAnchored, RecognitionsAnchored,
       ResolutionsAnchored, CallsRegistered, resultVars, callVars
  <2>12. contended' = {} BY <1>a, <2>3 DEF callVars
  <2>13. QED BY <2>7, <2>8, <2>9, <2>11, <2>12 DEF StoreInv
<1>3. QED BY <1>1, <1>2

\* The jobs of two parses stay apart: a parse begins in a project of its own.
LEMMA ApartKept ==
  ASSUME ParseInv, NEW c \in Clients, ParseStep(c)
  PROVE  Apart'
<1>a. Apart /\ ParseTypeOK BY DEF ParseInv
<1>1. ASSUME NEW j \in Job, StartParse(c, j) PROVE Apart'
  <2>1. projects[j.project] = "new" /\ job' = [job EXCEPT ![c] = j]
    BY <1>1 DEF StartParse, OpenProject, CreateProject
  <2>2. \A b \in Clients : job[b] # None => job[b].project # j.project
    BY <2>1 DEF ParseInv, Working, Holds
  <2>3. QED BY <1>a, <2>1, <2>2 DEF Apart, ParseTypeOK
<1>2. CASE job' = job BY <1>a, <1>2 DEF Apart
<1>3. CASE job' = [job EXCEPT ![c] = None]
  BY <1>a, <1>3 DEF Apart, ParseTypeOK
<1>4. QED
  BY <1>1, <1>2, <1>3 DEF ParseStep, AddTexts, StartRecognizer, StartResolver, RunModules,
     ReadBack, CleanUp, RaiseInside, Die, Leave

LEMMA ParseTyped ==
  ASSUME ParseInv, NEW c \in Clients, ParseStep(c)
  PROVE  ParseTypeOK'
<1>a. ParseTypeOK /\ RowsTypeOK BY DEF ParseInv, StoreInv, TypeOK
<1>1. ASSUME NEW next \in Stages, Advance(c, next)
      PROVE  stage' \in [Clients -> Stages]
  BY <1>1, <1>a DEF Advance, ParseTypeOK
<1>2. ASSUME NEW how \in Endings, EndWith(c, how)
      PROVE  ending' \in [Clients -> Endings]
  BY <1>2, <1>a DEF EndWith, ParseTypeOK
<1>3. {"texts", "recognizing", "resolving", "finally", "ready", "read"} \subseteq Stages
      /\ {"none", "return", "raise", "die"} \subseteq Endings
  BY DEF Stages, Endings
<1>4. AfterTexts(job[c]) \in Stages /\ AfterRecognizer(job[c]) \in Stages
  BY DEF AfterTexts, AfterRecognizer, Stages
<1>5. ASSUME NEW j \in Job, StartParse(c, j) PROVE ParseTypeOK'
  <2>1. stage' \in [Clients -> Stages] /\ ending' \in [Clients -> Endings]
    BY <1>1, <1>2, <1>3, <1>5 DEF StartParse
  <2>2. QED BY <1>a, <1>5, <2>1 DEF StartParse, ParseTypeOK
<1>6. CASE AddTexts(c) \/ StartRecognizer(c) \/ StartResolver(c)
  <2>1. stage' \in [Clients -> Stages]
    BY <1>1, <1>3, <1>4, <1>6 DEF AddTexts, StartRecognizer, StartResolver
  <2>2. QED
    BY <1>a, <1>6, <2>1 DEF AddTexts, StartRecognizer, StartResolver, ParseTypeOK
<1>7. CASE RunModules(c)
  <2>1. stage' \in [Clients -> Stages] /\ ending' \in [Clients -> Endings]
    BY <1>a, <1>1, <1>2, <1>3, <1>4, <1>7 DEF RunModules, ParseTypeOK
  <2>2. QED BY <1>a, <1>7, <2>1 DEF RunModules, ParseTypeOK
<1>8. CASE ReadBack(c)
  <2>1. stage' \in [Clients -> Stages] /\ ending' \in [Clients -> Endings]
    BY <1>1, <1>2, <1>3, <1>8 DEF ReadBack
  <2>2. answer' \in [Clients -> SUBSET Stateless!Toponym]
    <3>1. CASE UNCHANGED answer BY <1>a, <3>1 DEF ParseTypeOK
    <3>2. CASE Read(c, TagRow(job[c].project))
      <4> DEFINE row == TagRow(job[c].project)
                 found == UNION {Toponyms(d, row) : d \in job[c].docs}
      <4>1. found \subseteq Reference BY <1>a DEF Toponyms, RowsTypeOK
      <4>2. PICK place \in [found -> Features \cup {None}] :
              answer' = [answer EXCEPT ![c] =
                {[document |-> x.document, span |-> x.span, place |-> place[x]] : x \in found}]
        BY <3>2 DEF Read, Place
      <4> HIDE DEF found
      <4>3. {[document |-> x.document, span |-> x.span, place |-> place[x]] : x \in found}
              \in SUBSET Stateless!Toponym
        BY <4>1, <4>2 DEF Reference, Stateless!Toponym
      <4>4. QED BY <1>a, <4>2, <4>3 DEF ParseTypeOK
    <3>3. QED BY <1>8, <3>1, <3>2 DEF ReadBack
  <2>3. QED BY <1>a, <1>8, <2>1, <2>2 DEF ReadBack, ParseTypeOK
<1>9. ASSUME Leave(c) PROVE stage' \in [Clients -> Stages] /\ job' \in [Clients -> Job \cup {None}]
  BY <1>9, <1>a, <1>1, <1>3 DEF Leave, ParseTypeOK
<1>10. CASE CleanUp(c)
  <2>1. result' \in [Clients -> SUBSET Stateless!Toponym]
    BY <1>10, <1>a DEF CleanUp, ParseTypeOK
  <2>2. Leave(c) /\ UNCHANGED <<answer, ending>> BY <1>10 DEF CleanUp
  <2>3. QED BY <1>a, <1>9, <2>1, <2>2 DEF ParseTypeOK
<1>11. CASE RaiseInside(c)
  <2>1. stage' \in [Clients -> Stages] /\ ending' \in [Clients -> Endings]
    BY <1>1, <1>2, <1>3, <1>11 DEF RaiseInside
  <2>2. QED BY <1>a, <1>11, <2>1 DEF RaiseInside, ParseTypeOK
<1>12. CASE Die(c)
  <2>1. Leave(c) /\ ending' \in [Clients -> Endings]
    BY <1>2, <1>3, <1>12 DEF Die
  <2>2. QED BY <1>a, <1>9, <1>12, <2>1 DEF Die, ParseTypeOK
<1>13. QED BY <1>5, <1>6, <1>7, <1>8, <1>10, <1>11, <1>12 DEF ParseStep

-----------------------------------------------------------------------------
(***************************************************************************)
(* What a parse relies on at each stage, step by step.                     *)
(***************************************************************************)

\* A parse that is not inside a call keeps its part of the invariant when it has
\* no job, or is about to clean up.
LEMMA ReadyWorks ==
  ASSUME NEW c \in Clients, stage'[c] = "ready", job'[c] = None, pc'[c] = "idle"
  PROVE  Working(c)'
BY DEF Working, Holds, Loads, Stores, Names, AnswersRight, Trying

LEMMA FinallyWorks ==
  ASSUME ParseInv, NEW c \in Clients, job[c] # None,
         stage'[c] = "finally", pc'[c] = "idle", ending'[c] \in {"return", "raise"},
         job' = job, projects' = projects,
         ending'[c] = "return" => Stateless!Correct(job[c], answer'[c])
  PROVE  Working(c)'
<1>1. Holds(c) BY DEF ParseInv, Working
<1>2. Holds(c)' BY <1>1 DEF Holds
<1>3. QED BY <1>2 DEF Working, Loads, Stores, Names, AnswersRight, Trying, Stateless!Correct,
  Stateless!SpansAt, Stateless!Findings, Stateless!Places

\* The references and the referents that a commit of a parse inserts.
Predicted(Q, answers) == {i \in Q : answers[i] # Unavailable}

NewReferences(j, found, run) ==
  {x \in [document : Predicted(j.docs, found), recognizer : {j.recognizer}, span : Spans,
          run : {run}] : x.span \in found[x.document]}

NewReferents(j, R, place, run) ==
  {[reference |-> x, resolver |-> j.resolver, feature |-> place[x], run |-> run] :
     x \in Predicted(R, place)}

\* One complete prediction goes into the project with a commit.
LEMMA PredictionFound ==
  ASSUME NEW j, j.recognizer \in Recognizers, j.docs \in SUBSET Docs, NEW run,
         NEW found \in [j.docs -> (SUBSET Spans) \cup {Unavailable}],
         \A d \in j.docs : found[d] \in Spotted[j.recognizer][d]
  PROVE  FoundIn(j, NewReferences(j, found, run))
<1> DEFINE predicted == {d \in j.docs : found[d] # Unavailable}
           Rows == [document : predicted, recognizer : {j.recognizer}, span : Spans, run : {run}]
           R == {x \in Rows : x.span \in found[x.document]}
<1>1. \A x \in R : x.recognizer = j.recognizer OBVIOUS
<1>2. \A x, y \in R : x.document = y.document /\ x.span = y.span => x = y OBVIOUS
<1>3. ASSUME NEW d \in j.docs
      PROVE  {x.span : x \in {y \in R : y.document = d}}
               \in Stateless!Findings(j.recognizer, d)
  <2> DEFINE S == {x.span : x \in {y \in R : y.document = d}}
  <2>1. j.recognizer # None BY ModulesAssumption DEF Modules
  <2>2. CASE found[d] = Unavailable
    <3>1. d \notin predicted BY <2>2
    <3>2. S = {} BY <3>1
    <3>3. QED BY <2>1, <2>2, <3>2 DEF Stateless!Findings
  <2>3. CASE found[d] # Unavailable
    <3>1. d \in predicted /\ found[d] \in SUBSET Spans BY <2>3
    <3>2. ASSUME NEW s \in found[d] PROVE s \in S
      <4> DEFINE x == [document |-> d, recognizer |-> j.recognizer, span |-> s, run |-> run]
      <4>1. x \in Rows /\ x.document = d /\ x.span = s BY <3>1, <3>2
      <4>2. x \in R BY <3>2, <4>1
      <4>3. QED BY <4>1, <4>2
    <3>3. \A s \in S : s \in found[d] OBVIOUS
    <3>4. S = found[d] BY <3>2, <3>3
    <3>5. QED BY <2>1, <2>3, <3>4 DEF Stateless!Findings
  <2>4. QED BY <2>2, <2>3
<1> HIDE DEF R
<1>4. FoundIn(j, R) BY <1>1, <1>2, <1>3 DEF FoundIn
<1>5. QED BY <1>4 DEF R, NewReferences, Predicted

\* So do the places of a resolver.
LEMMA PredictionPlaced ==
  ASSUME NEW j, j.resolver \in Resolvers, NEW R, NEW run,
         NEW place \in [R -> Located[j.resolver]]
  PROVE  PlacedIn(j, R, NewReferents(j, R, place, run))
<1> DEFINE predicted == {y \in R : place[y] # Unavailable}
           Y == {[reference |-> x, resolver |-> j.resolver, feature |-> place[x],
                  run |-> run] : x \in predicted}
<1>1. j.resolver # None BY ModulesAssumption DEF Modules
<1>2. \A x \in R : (IF place[x] = Unavailable THEN None ELSE place[x])
                     \in Stateless!Places(j.resolver)
  BY <1>1 DEF Stateless!Places
<1>3. \A y \in Y : y.feature \in Stateless!Places(j.resolver)
  BY <1>2
<1>4. ASSUME NEW x \in R
      PROVE  \/ \E y \in Y : y.reference = x /\ y.resolver = j.resolver
             \/ None \in Stateless!Places(j.resolver)
  <2>1. CASE place[x] = Unavailable BY <1>2, <2>1
  <2>2. CASE place[x] # Unavailable
    <3> DEFINE y == [reference |-> x, resolver |-> j.resolver, feature |-> place[x], run |-> run]
    <3>1. y \in Y BY <2>2
    <3>2. QED BY <3>1
  <2>3. QED BY <2>1, <2>2
<1> HIDE DEF Y
<1>5. PlacedIn(j, R, Y) BY <1>3, <1>4 DEF PlacedIn
<1>6. QED BY <1>5 DEF Y, NewReferents, Predicted

\* Nothing is in a project that has not been created.
LEMMA NewEmpty ==
  ASSUME TypeOK, RowsAnchored, RowsBlank, NEW p \in Projects, projects[p] = "new"
  PROVE  /\ DocumentsOf(p) = {}
         /\ ReferencesOf(p) = {} /\ RecognitionsOf(p) = {}
         /\ ReferentsOf(p) = {} /\ ResolutionsOf(p) = {}
         /\ LatestRow(p) = NoContext
<1>1. DocumentsOf(p) = {}
  BY DEF RowsAnchored, DocumentsAnchored, DocumentsOf
<1>2. /\ \A x \in references \cup recognitions : x.document \in documents
      /\ \A y \in referents \cup resolutions : y.reference.document \in documents
  BY DEF RowsAnchored, RecognitionsAnchored, ResolutionsAnchored
<1>3. /\ ReferencesOf(p) = {} /\ RecognitionsOf(p) = {}
      /\ ReferentsOf(p) = {} /\ ResolutionsOf(p) = {}
  BY <1>1, <1>2 DEF DocumentsOf, ReferencesOf, RecognitionsOf, ReferentsOf, ResolutionsOf
<1>4. LatestRow(p) = NoContext
  <2>1. <<p, Latest>> \in Projects \X Tags BY TagAssumption
  <2>2. ~contexts[<<p, Latest>>].exists
    BY TagAssumption DEF RowsAnchored, ContextsAnchored
  <2>3. QED BY <2>1, <2>2 DEF RowsBlank, LatestRow
<1>5. QED BY <1>1, <1>3, <1>4

\* With no document, or no module, nothing is found and nothing is placed.
LEMMA NothingFound ==
  ASSUME NEW j
  PROVE  /\ j.recognizer = None \/ j.docs = {} => FoundIn(j, {})
         /\ PlacedIn(j, {}, {})
         /\ \A R : j.resolver = None => PlacedIn(j, R, {})
<1>1. {x.span : x \in {}} = {} OBVIOUS
<1>2. \A d : {y \in {} : y.document = d} = {} OBVIOUS
<1>3. ASSUME j.recognizer = None \/ j.docs = {} PROVE FoundIn(j, {})
  BY <1>1, <1>2, <1>3 DEF FoundIn, Stateless!Findings
<1>4. PlacedIn(j, {}, {}) BY DEF PlacedIn
<1>5. ASSUME NEW R, j.resolver = None PROVE PlacedIn(j, R, {})
  BY <1>5 DEF PlacedIn, Stateless!Places
<1>6. QED BY <1>3, <1>4, <1>5

LEMMA StartWorks ==
  ASSUME ParseInv, NEW c \in Clients, NEW j \in Job, StartParse(c, j)
  PROVE  Working(c)'
<1>a. TypeOK /\ RowsTypeOK /\ RowsAnchored /\ RowsBlank /\ ParseTypeOK
  BY DEF ParseInv, StoreInv, TypeOK, AnchorInv
<1>1. PICK p \in Projects : p = j.project BY DEF Job
<1>2. /\ stage[c] = "ready" /\ stage'[c] = "texts" /\ job'[c] = j /\ pc' = pc
      /\ ending'[c] = "none"
      /\ projects[p] = "new" /\ projects'[p] = "live"
      /\ UNCHANGED <<documents, resultVars, contexts>>
      /\ \A d \in j.docs : HomeOf[d] = p
  BY <1>1, <1>a DEF StartParse, OpenProject, CreateProject, Advance, EndWith, ParseTypeOK,
     RowsTypeOK, callVars, Uncreated
<1>3. pc'[c] = "idle" BY <1>2 DEF ParseInv, Working, Holds
<1>4. /\ DocumentsOf(p) = {}
      /\ ReferencesOf(p) = {} /\ RecognitionsOf(p) = {}
      /\ ReferentsOf(p) = {} /\ ResolutionsOf(p) = {}
      /\ LatestRow(p) = NoContext
  BY <1>2, <1>a, NewEmpty
<1>5. /\ DocumentsOf(p)' = {}
      /\ ReferencesOf(p)' = {} /\ RecognitionsOf(p)' = {}
      /\ ReferentsOf(p)' = {} /\ ResolutionsOf(p)' = {}
      /\ LatestRow(p)' = NoContext
  BY <1>2, <1>4 DEF resultVars, DocumentsOf, ReferencesOf, RecognitionsOf, ReferentsOf,
     ResolutionsOf, LatestRow
<1>6. job'[c].project = p BY <1>1, <1>2
<1>7. /\ DocumentsOf(job[c].project)' = {}
      /\ ReferencesOf(job[c].project)' = {} /\ RecognitionsOf(job[c].project)' = {}
      /\ ReferentsOf(job[c].project)' = {} /\ ResolutionsOf(job[c].project)' = {}
      /\ LatestRow(job[c].project)' = NoContext
  BY <1>5, <1>6 DEF DocumentsOf, ReferencesOf, RecognitionsOf, ReferentsOf, ResolutionsOf,
     LatestRow
<1>8. Holds(c)' BY <1>1, <1>2, <1>3, NoneAssumption DEF Holds
<1>9. Loads(c)' BY <1>2, <1>7 DEF Loads
<1>10. Stores(c)' BY <1>2, <1>7 DEF Stores, Searched, Settled
<1>11. Names(c)' BY <1>2, <1>3, <1>7 DEF Names, NoContext
<1>12. AnswersRight(c)' BY <1>2 DEF AnswersRight
<1>13. QED BY <1>8, <1>9, <1>10, <1>11, <1>12 DEF Working

LEMMA TextsWork ==
  ASSUME ParseInv, NEW c \in Clients, AddTexts(c)
  PROVE  Working(c)'
<1>a. /\ RowsTypeOK /\ ParseTypeOK /\ Holds(c) /\ Loads(c) /\ Stores(c) /\ Names(c)
  BY DEF ParseInv, StoreInv, TypeOK, Working
<1>1. stage[c] = "texts" /\ job[c] # None BY JobHeld DEF AddTexts
<1>2. PICK p \in Projects : p = job[c].project BY <1>1, JobTyped
<1>3. /\ documents' = documents \cup job[c].docs
      /\ stage'[c] = AfterTexts(job[c])
      /\ UNCHANGED <<projects, resultVars, contexts, pc, call, job, answer, ending>>
  BY <1>a DEF AddTexts, CreateDocuments, Advance, callVars, ParseTypeOK
<1>4. \A d \in job[c].docs : HomeOf[d] = p BY <1>a, <1>1, <1>2 DEF Holds
<1>5. DocumentsOf(p)' = job[c].docs
  BY <1>a, <1>1, <1>2, <1>3, <1>4 DEF Loads, DocumentsOf
<1>6. /\ ReferencesOf(p) = {} /\ RecognitionsOf(p) = {}
      /\ ReferentsOf(p) = {} /\ ResolutionsOf(p) = {}
      /\ LatestRow(p).recognizer = None /\ LatestRow(p).resolver = None
  BY <1>a, <1>1, <1>2 DEF Stores, Names, Trying, Searched, Settled
<1>7. job'[c].project = p BY <1>2, <1>3
<1>8. /\ DocumentsOf(job[c].project)' = job[c].docs
      /\ ReferencesOf(job[c].project)' = {} /\ RecognitionsOf(job[c].project)' = {}
      /\ ReferentsOf(job[c].project)' = {} /\ ResolutionsOf(job[c].project)' = {}
      /\ LatestRow(job[c].project)' = LatestRow(p)
  BY <1>3, <1>5, <1>6, <1>7 DEF resultVars, DocumentsOf, ReferencesOf, RecognitionsOf,
     ReferentsOf, ResolutionsOf, LatestRow
<1>9. \/ stage'[c] = "recognize" /\ job[c].recognizer # None
      \/ stage'[c] = "resolve" /\ job[c].recognizer = None /\ job[c].resolver # None
      \/ stage'[c] = "read" /\ job[c].recognizer = None /\ job[c].resolver = None
  BY <1>3 DEF AfterTexts, AfterRecognizer
<1>10. pc[c] = "idle" BY <1>a, <1>1 DEF Holds
<1>11. Holds(c)' BY <1>a, <1>1, <1>3, <1>9, <1>10 DEF Holds
<1>12. Loads(c)' BY <1>3, <1>8, <1>9 DEF Loads, Trying
<1>13. job[c].recognizer = None => FoundIn(job[c], {}) BY NothingFound
<1>14. PlacedIn(job[c], {}, {}) BY NothingFound
<1>15. Stores(c)'
  <2>1. CASE stage'[c] = "recognize"
    BY <1>3, <1>8, <2>1 DEF Stores, Trying, Searched, Settled
  <2>2. CASE stage'[c] = "resolve"
    BY <1>3, <1>8, <1>9, <1>13, <2>2 DEF Stores, Trying, Searched, Settled
  <2>3. CASE stage'[c] = "read"
    BY <1>3, <1>8, <1>9, <1>13, <1>14, <2>3 DEF Stores, Trying, Searched, Settled
  <2>4. QED BY <1>9, <2>1, <2>2, <2>3
<1>16. Names(c)' BY <1>3, <1>6, <1>8, <1>9, <1>10 DEF Names
<1>17. AnswersRight(c)' BY <1>9 DEF AnswersRight
<1>18. QED BY <1>11, <1>12, <1>15, <1>16, <1>17 DEF Working

LEMMA BeginWorks ==
  ASSUME ParseInv, NEW c \in Clients, StartRecognizer(c) \/ StartResolver(c)
  PROVE  Working(c)'
<1>a. /\ CallsTypeOK /\ ParseTypeOK /\ Holds(c) /\ Loads(c) /\ Stores(c) /\ Names(c)
  BY DEF ParseInv, StoreInv, TypeOK, Working
<1>1. /\ UNCHANGED <<dbVars, items, batch, seen, job, answer, ending>>
      /\ pc'[c] = "open"
      /\ \/ /\ stage[c] = "recognize" /\ stage'[c] = "recognizing"
            /\ call'[c] = CallFor(job[c], "recognize", job[c].recognizer)
         \/ /\ stage[c] = "resolve" /\ stage'[c] = "resolving"
            /\ call'[c] = CallFor(job[c], "resolve", job[c].resolver)
  BY <1>a DEF StartRecognizer, StartResolver, RunRecognizer, RunResolver, Begin, Goto,
     Advance, CallFor, ParseTypeOK, CallsTypeOK
<1>2. job[c] # None BY <1>1, JobHeld
<1>3. /\ DocumentsOf(job[c].project)' = DocumentsOf(job[c].project)
      /\ ReferencesOf(job[c].project)' = ReferencesOf(job[c].project)
      /\ RecognitionsOf(job[c].project)' = RecognitionsOf(job[c].project)
      /\ ReferentsOf(job[c].project)' = ReferentsOf(job[c].project)
      /\ ResolutionsOf(job[c].project)' = ResolutionsOf(job[c].project)
      /\ LatestRow(job[c].project)' = LatestRow(job[c].project)
  BY <1>1 DEF dbVars, DocumentsOf, ReferencesOf, RecognitionsOf, ReferentsOf,
     ResolutionsOf, LatestRow
<1>4. Holds(c)' BY <1>a, <1>1, <1>2 DEF Holds, CallFor, dbVars
<1>5. Loads(c)' BY <1>a, <1>1, <1>3 DEF Loads, Trying, WaitingSteps
<1>6. Stores(c)' BY <1>a, <1>1, <1>3 DEF Stores, Trying, Searched, Settled, TagSteps
<1>7. Names(c)' BY <1>a, <1>1, <1>3 DEF Names, Trying
<1>8. AnswersRight(c)' BY <1>1 DEF AnswersRight
<1>9. QED BY <1>4, <1>5, <1>6, <1>7, <1>8 DEF Working

-----------------------------------------------------------------------------
(***************************************************************************)
(* The steps of a running call.                                            *)
(***************************************************************************)

\* A step that writes no results, and moves neither into the steps that follow
\* the commit nor out of them.
LEMMA QuietStepWorks ==
  ASSUME ParseInv, NEW c \in Clients, ParseKept(c), job[c] # None,
         pc[c] # "idle", pc'[c] # "idle", call'[c] = call[c],
         UNCHANGED <<projects, documents, resultVars>>,
         pc'[c] \in TagSteps <=> pc[c] \in TagSteps,
         LatestRow(job[c].project)'.recognizer = LatestRow(job[c].project).recognizer,
         LatestRow(job[c].project)'.resolver = LatestRow(job[c].project).resolver,
         pc'[c] = "tag_write" => seen'[c] = LatestRow(job[c].project)',
         pc'[c] \in WaitingSteps =>
           items'[c] = IF stage[c] = "recognizing" THEN DocumentsOf(job[c].project)
                                                   ELSE ReferencesOf(job[c].project),
         pc'[c] = "commit" =>
           batch'[c] = IF stage[c] = "recognizing" THEN DocumentsOf(job[c].project)
                                                   ELSE ReferencesOf(job[c].project)
  PROVE  Working(c)'
<1>a. Holds(c) /\ Loads(c) /\ Stores(c) /\ Names(c) BY DEF ParseInv, Working
<1>1. /\ stage'[c] = stage[c] /\ job'[c] = job[c] /\ answer'[c] = answer[c]
      /\ ending'[c] = ending[c] /\ call'[c] = call[c]
      /\ stage[c] \in {"recognizing", "resolving"}
  BY <1>a DEF ParseKept, Holds
<1>2. /\ DocumentsOf(job[c].project)' = DocumentsOf(job[c].project)
      /\ ReferencesOf(job[c].project)' = ReferencesOf(job[c].project)
      /\ RecognitionsOf(job[c].project)' = RecognitionsOf(job[c].project)
      /\ ReferentsOf(job[c].project)' = ReferentsOf(job[c].project)
      /\ ResolutionsOf(job[c].project)' = ResolutionsOf(job[c].project)
  BY <1>1 DEF resultVars, DocumentsOf, ReferencesOf, RecognitionsOf, ReferentsOf,
     ResolutionsOf
<1>3. Holds(c)' BY <1>a, <1>1 DEF Holds, CallFor
<1>4. Loads(c)' BY <1>a, <1>1, <1>2 DEF Loads, Trying
<1>5. Stores(c)' BY <1>a, <1>1, <1>2 DEF Stores, Trying, Searched, Settled
<1>6. Names(c)' BY <1>a, <1>1 DEF Names, Trying
<1>7. AnswersRight(c)' BY <1>1 DEF AnswersRight
<1>8. QED BY <1>3, <1>4, <1>5, <1>6, <1>7 DEF Working

\* The step on which the results of a call are complete.
LEMMA DoneStepWorks ==
  ASSUME ParseInv, NEW c \in Clients, ParseKept(c), job[c] # None,
         pc[c] \in WaitingSteps, pc'[c] = "tag", call'[c] = call[c],
         UNCHANGED <<projects, documents, contexts>>,
         stage[c] = "recognizing" =>
           /\ FoundIn(job[c], ReferencesOf(job[c].project)')
           /\ UNCHANGED <<referents, resolutions>>,
         stage[c] = "resolving" =>
           /\ PlacedIn(job[c], ReferencesOf(job[c].project)', ReferentsOf(job[c].project)')
           /\ UNCHANGED <<references, recognitions>>
  PROVE  Working(c)'
<1>a. Holds(c) /\ Loads(c) /\ Stores(c) /\ Names(c) BY DEF ParseInv, Working
<1>b. pc[c] # "idle" /\ pc[c] \notin TagSteps BY DEF WaitingSteps, TagSteps
<1>1. /\ stage'[c] = stage[c] /\ job'[c] = job[c] /\ answer'[c] = answer[c]
      /\ ending'[c] = ending[c] /\ call'[c] = call[c]
      /\ stage[c] \in {"recognizing", "resolving"}
  BY <1>a, <1>b DEF ParseKept, Holds
<1>2. /\ DocumentsOf(job[c].project)' = DocumentsOf(job[c].project)
      /\ LatestRow(job[c].project)' = LatestRow(job[c].project)
      /\ UNCHANGED <<references, recognitions>> =>
           /\ ReferencesOf(job[c].project)' = ReferencesOf(job[c].project)
           /\ RecognitionsOf(job[c].project)' = RecognitionsOf(job[c].project)
      /\ UNCHANGED <<referents, resolutions>> =>
           /\ ReferentsOf(job[c].project)' = ReferentsOf(job[c].project)
           /\ ResolutionsOf(job[c].project)' = ResolutionsOf(job[c].project)
  BY <1>1 DEF DocumentsOf, ReferencesOf, RecognitionsOf, ReferentsOf, ResolutionsOf,
     LatestRow
<1>3. Holds(c)' BY <1>a, <1>b, <1>1 DEF Holds, CallFor
<1>4. Loads(c)' BY <1>a, <1>1, <1>2 DEF Loads, Trying, WaitingSteps
<1>5. Stores(c)'
  <2>1. CASE stage[c] = "recognizing"
    BY <1>a, <1>b, <1>1, <1>2, <2>1 DEF Stores, Trying, Searched, Settled, TagSteps
  <2>2. CASE stage[c] = "resolving"
    BY <1>a, <1>b, <1>1, <1>2, <2>2 DEF Stores, Trying, Searched, Settled, TagSteps
  <2>3. QED BY <1>1, <2>1, <2>2
<1>6. Names(c)' BY <1>a, <1>1, <1>2 DEF Names, Trying
<1>7. AnswersRight(c)' BY <1>1 DEF AnswersRight
<1>8. QED BY <1>3, <1>4, <1>5, <1>6, <1>7 DEF Working

LEMMA FilterWorks ==
  ASSUME ParseInv, NEW c \in Clients, ParseKept(c), Filter(c)
  PROVE  Working(c)'
<1>a. /\ CallsTypeOK /\ RowsTypeOK /\ Holds(c) /\ Loads(c) /\ Stores(c) /\ Names(c)
      /\ RowsAnchored
  BY DEF ParseInv, StoreInv, TypeOK, AnchorInv, Working
<1>1. /\ pc[c] = "filter" /\ batch'[c] = Unprocessed(c)
      /\ pc'[c] = IF Unprocessed(c) = {} THEN "tag" ELSE "commit"
      /\ UNCHANGED <<dbVars, call, items, seen>>
  BY <1>a DEF Filter, Goto, CallsTypeOK
<1>2. job[c] # None /\ stage[c] \in {"recognizing", "resolving"} BY <1>1, CallHeld
<1>3. PICK p \in Projects : p = job[c].project BY <1>2, JobTyped
<1>4. /\ stage[c] = "recognizing" =>
           call[c].op = "recognize" /\ items[c] = DocumentsOf(p) /\ RecognitionsOf(p) = {}
           /\ ReferencesOf(p) = {} /\ DocumentsOf(p) = job[c].docs
      /\ stage[c] = "resolving" =>
           call[c].op = "resolve" /\ items[c] = ReferencesOf(p) /\ ResolutionsOf(p) = {}
           /\ ReferentsOf(p) = {}
  BY <1>a, <1>1, <1>3
     DEF Holds, Loads, Stores, Trying, Searched, Settled, CallFor, WaitingSteps, TagSteps
<1>5. Unprocessed(c) = items[c]
  <2>1. CASE stage[c] = "recognizing"
    <3>1. \A d \in items[c] : ~Recognized(d, call[c].module)
      BY <1>4, <2>1 DEF Recognized, RecognitionsOf, DocumentsOf
    <3>2. QED BY <1>4, <2>1, <3>1 DEF Unprocessed
  <2>2. CASE stage[c] = "resolving"
    <3>1. \A x \in items[c] : ~Resolved(x, call[c].module)
      BY <1>4, <2>2 DEF Resolved, ResolutionsOf, ReferencesOf
    <3>2. QED BY <1>4, <2>2, <3>1 DEF Unprocessed
  <2>3. QED BY <1>2, <2>1, <2>2
<1>6. job'[c] = job[c] BY DEF ParseKept
<1>7. /\ ReferencesOf(job[c].project)' = ReferencesOf(p)
      /\ ReferentsOf(job[c].project)' = ReferentsOf(p)
      /\ LatestRow(job[c].project)' = LatestRow(job[c].project)
  BY <1>1, <1>3, <1>6 DEF dbVars, ReferencesOf, ReferentsOf, LatestRow
<1>8. call'[c] = call[c] /\ UNCHANGED <<projects, documents, resultVars, contexts>>
  BY <1>1 DEF dbVars, resultVars
<1>9. CASE items[c] = {}
  <2>1. pc'[c] = "tag" /\ pc[c] \in WaitingSteps BY <1>1, <1>5, <1>9 DEF WaitingSteps
  <2>2. stage[c] = "recognizing" => FoundIn(job[c], ReferencesOf(job[c].project)')
    BY <1>4, <1>7, <1>9, NothingFound
  <2>3. stage[c] = "resolving" =>
          PlacedIn(job[c], ReferencesOf(job[c].project)', ReferentsOf(job[c].project)')
    BY <1>4, <1>7, <1>9, NothingFound
  <2>4. QED BY <1>2, <1>8, <2>1, <2>2, <2>3, DoneStepWorks DEF resultVars
<1>10. CASE items[c] # {}
  <2>1. pc'[c] = "commit" BY <1>1, <1>5, <1>10
  <2>2. items'[c] = items[c] /\ batch'[c] = items[c] BY <1>1, <1>5
  <2>3. items[c] = IF stage[c] = "recognizing" THEN DocumentsOf(job[c].project)
                                               ELSE ReferencesOf(job[c].project)
    BY <1>2, <1>3, <1>4
  <2>4. pc'[c] \notin TagSteps /\ pc[c] \notin TagSteps /\ pc'[c] # "idle" /\ pc[c] # "idle"
    BY <1>1, <2>1 DEF TagSteps
  <2>5. QED BY <1>2, <1>7, <1>8, <2>1, <2>2, <2>3, <2>4, QuietStepWorks
<1>11. QED BY <1>9, <1>10

LEMMA RecognitionWorks ==
  ASSUME ParseInv, NEW c \in Clients, ParseKept(c), CommitRecognition(c), ~Fail(c)
  PROVE  Working(c)'
<1>a. /\ CallsTypeOK /\ RowsTypeOK /\ Holds(c) /\ Loads(c) /\ Stores(c)
  BY DEF ParseInv, StoreInv, TypeOK, Working
<1>1. pc[c] = "commit" /\ call[c].op = "recognize" BY DEF CommitRecognition
<1>2. job[c] # None /\ stage[c] \in {"recognizing", "resolving"}
  BY <1>1, CallHeld
<1>3. /\ stage[c] = "recognizing"
      /\ call[c].module = job[c].recognizer /\ job[c].recognizer # None
  BY <1>a, <1>1, <1>2 DEF Holds, CallFor
<1>4. PICK p \in Projects : p = job[c].project BY <1>2, JobTyped
<1>5. /\ batch[c] = job[c].docs /\ ReferencesOf(p) = {}
      /\ \A d \in job[c].docs : HomeOf[d] = p
  BY <1>a, <1>1, <1>2, <1>3, <1>4 DEF Loads, Stores, Holds, Trying, Searched, TagSteps
<1>6. PICK found \in [job[c].docs -> (SUBSET Spans) \cup {Unavailable}] :
        /\ \A d \in job[c].docs : found[d] \in Spotted[job[c].recognizer][d]
        /\ InsertRecognitions(c, Predicted(job[c].docs, found), found)
  BY <1>3, <1>5 DEF Predicted, CommitRecognition
<1>7. /\ references' = references \cup NewReferences(job[c], found, ThisRun(c))
      /\ pc'[c] = "tag" /\ call' = call
      /\ UNCHANGED <<projects, documents, referents, resolutions, contexts>>
  BY <1>a, <1>3, <1>6 DEF InsertRecognitions, NewReferences, Goto, callVars, CallsTypeOK
<1>8. FoundIn(job[c], NewReferences(job[c], found, ThisRun(c)))
  BY <1>2, <1>3, <1>6, JobTyped, PredictionFound
<1>9. ReferencesOf(p)' = NewReferences(job[c], found, ThisRun(c))
  <2>1. \A x \in NewReferences(job[c], found, ThisRun(c)) : HomeOf[x.document] = p
    BY <1>5 DEF NewReferences, Predicted
  <2>2. QED BY <1>5, <1>7, <2>1 DEF ReferencesOf
<1>10. job'[c] = job[c] BY DEF ParseKept
<1>11. ReferencesOf(job[c].project)' = NewReferences(job[c], found, ThisRun(c)) BY <1>4, <1>9, <1>10 DEF ReferencesOf
<1>12. pc[c] \in WaitingSteps BY <1>1 DEF WaitingSteps
<1>13. QED BY <1>2, <1>3, <1>7, <1>8, <1>11, <1>12, DoneStepWorks

LEMMA ResolutionWorks ==
  ASSUME ParseInv, NEW c \in Clients, ParseKept(c), CommitResolution(c), ~Fail(c)
  PROVE  Working(c)'
<1>a. /\ CallsTypeOK /\ RowsTypeOK /\ Holds(c) /\ Loads(c) /\ Stores(c)
  BY DEF ParseInv, StoreInv, TypeOK, Working
<1>1. pc[c] = "commit" /\ call[c].op = "resolve" BY DEF CommitResolution
<1>2. job[c] # None /\ stage[c] \in {"recognizing", "resolving"}
  BY <1>1, CallHeld
<1>3. /\ stage[c] = "resolving"
      /\ call[c].module = job[c].resolver /\ job[c].resolver # None
  BY <1>a, <1>1, <1>2 DEF Holds, CallFor
<1>4. PICK p \in Projects : p = job[c].project BY <1>2, JobTyped
<1>5. batch[c] = ReferencesOf(p) /\ ReferentsOf(p) = {}
  BY <1>a, <1>1, <1>2, <1>3, <1>4 DEF Loads, Stores, Trying, Settled, TagSteps
<1> DEFINE R == ReferencesOf(p)
<1>6. PICK place \in [R -> Located[job[c].resolver]] :
        InsertResolutions(c, Predicted(R, place), place)
  BY <1>3, <1>5 DEF Predicted, CommitResolution
<1>7. /\ referents' = referents \cup NewReferents(job[c], R, place, ThisRun(c))
      /\ pc'[c] = "tag" /\ call' = call
      /\ UNCHANGED <<projects, documents, references, recognitions, contexts>>
  BY <1>a, <1>3, <1>6 DEF InsertResolutions, NewReferents, Goto, callVars, CallsTypeOK
<1>8. PlacedIn(job[c], R, NewReferents(job[c], R, place, ThisRun(c)))
  BY <1>2, <1>3, <1>6, JobTyped, PredictionPlaced
<1>9. ReferentsOf(p)' = NewReferents(job[c], R, place, ThisRun(c))
  <2>1. \A x \in R : HomeOf[x.document] = p BY DEF ReferencesOf
  <2>2. \A y \in NewReferents(job[c], R, place, ThisRun(c)) : HomeOf[y.reference.document] = p
    BY <2>1 DEF NewReferents, Predicted
  <2>3. QED BY <1>5, <1>7, <2>2 DEF ReferentsOf
<1>10. job'[c] = job[c] BY DEF ParseKept
<1>11. /\ ReferentsOf(job[c].project)' = NewReferents(job[c], R, place, ThisRun(c))
       /\ ReferencesOf(job[c].project)' = R
  BY <1>4, <1>7, <1>9, <1>10 DEF ReferentsOf, ReferencesOf
<1> HIDE DEF R
<1>12. pc[c] \in WaitingSteps BY <1>1 DEF WaitingSteps
<1>13. QED BY <1>2, <1>3, <1>7, <1>8, <1>11, <1>12, DoneStepWorks

\* The call's last write: the tag now names the module that has run.
LEMMA WriteWorks ==
  ASSUME ParseInv, NEW c \in Clients, WriteContext(c), ~Fail(c),
         stage' = [stage EXCEPT ![c] = IF stage[c] = "recognizing"
                                         THEN AfterRecognizer(job[c]) ELSE "read"],
         UNCHANGED <<job, answer, ending>>
  PROVE  Working(c)'
<1>a. /\ CallsTypeOK /\ RowsTypeOK /\ ParseTypeOK
      /\ Holds(c) /\ Loads(c) /\ Stores(c) /\ Names(c)
  BY DEF ParseInv, StoreInv, TypeOK, Working
<1>1. pc[c] = "tag_write" BY DEF WriteContext
<1>2. /\ job[c] # None /\ stage[c] \in {"recognizing", "resolving"}
      /\ call[c].project = job[c].project /\ call[c].tag = Latest
  BY <1>1, CallHeld
<1>3. PICK p \in Projects : p = job[c].project BY <1>2, JobTyped
<1>4. /\ contexts' = [contexts EXCEPT ![<<p, Latest>>] = WithModule(LatestRow(p), c)]
      /\ pc'[c] = "idle"
      /\ UNCHANGED <<projects, documents, resultVars>>
  BY <1>a, <1>2, <1>3 DEF WriteContext, LatestRow, Return, CallsTypeOK
<1>5. LatestRow(p) \in ContextRow /\ LatestRow(p)' = WithModule(LatestRow(p), c)
  BY <1>a, <1>4, TagAssumption DEF LatestRow, RowsTypeOK
<1>6. seen[c] = LatestRow(p) BY <1>a, <1>1, <1>2, <1>3 DEF Names, Trying
<1>7. \/ /\ stage[c] = "recognizing"
         /\ LatestRow(p)'.recognizer = job[c].recognizer
         /\ LatestRow(p)'.resolver = None
         /\ stage'[c] = AfterRecognizer(job[c])
      \/ /\ stage[c] = "resolving"
         /\ LatestRow(p)'.recognizer = job[c].recognizer
         /\ LatestRow(p)'.resolver = job[c].resolver
         /\ stage'[c] = "read"
  <2>1. CASE stage[c] = "recognizing"
    <3>1. call[c].op = "recognize" /\ call[c].module = job[c].recognizer
      BY <1>a, <2>1 DEF Holds, CallFor
    <3>2. LatestRow(p).resolver = None BY <1>a, <1>3, <2>1 DEF Names, Trying
    <3>3. WithModule(LatestRow(p), c).recognizer = job[c].recognizer
          /\ WithModule(LatestRow(p), c).resolver = LatestRow(p).resolver
      BY <1>5, <1>6, <3>1 DEF WithModule, ContextRow
    <3>4. QED BY <1>a, <1>5, <2>1, <3>2, <3>3 DEF ParseTypeOK
  <2>2. CASE stage[c] = "resolving"
    <3>1. call[c].op = "resolve" /\ call[c].module = job[c].resolver
      BY <1>a, <2>2 DEF Holds, CallFor
    <3>2. LatestRow(p).recognizer = job[c].recognizer
      BY <1>a, <1>3, <2>2 DEF Names, Trying
    <3>3. WithModule(LatestRow(p), c).resolver = job[c].resolver
          /\ WithModule(LatestRow(p), c).recognizer = LatestRow(p).recognizer
      BY <1>5, <1>6, <3>1 DEF WithModule, ContextRow
    <3>4. QED BY <1>a, <1>5, <2>2, <3>2, <3>3 DEF ParseTypeOK
  <2>3. QED BY <1>2, <2>1, <2>2
<1>8. \/ stage'[c] = "resolve" /\ stage[c] = "recognizing" /\ job[c].resolver # None
      \/ stage'[c] = "read" /\ (stage[c] = "recognizing" => job[c].resolver = None)
  BY <1>7 DEF AfterRecognizer
<1>9. job'[c] = job[c] /\ job'[c].project = p BY <1>3
<1>10. /\ DocumentsOf(job[c].project)' = DocumentsOf(p)
       /\ ReferencesOf(job[c].project)' = ReferencesOf(p)
       /\ RecognitionsOf(job[c].project)' = RecognitionsOf(p)
       /\ ReferentsOf(job[c].project)' = ReferentsOf(p)
       /\ ResolutionsOf(job[c].project)' = ResolutionsOf(p)
       /\ LatestRow(job[c].project)' = LatestRow(p)'
  BY <1>4, <1>9 DEF resultVars, DocumentsOf, ReferencesOf, RecognitionsOf, ReferentsOf,
     ResolutionsOf, LatestRow
<1>11. Holds(c)' BY <1>a, <1>2, <1>4, <1>8, <1>9 DEF Holds
<1>12. Loads(c)' BY <1>a, <1>2, <1>3, <1>8, <1>9, <1>10 DEF Loads, Trying
<1>13. Stores(c)'
  <2>1. FoundIn(job[c], ReferencesOf(p))
    BY <1>a, <1>1, <1>2, <1>3 DEF Stores, Trying, Searched, TagSteps
  <2>2. CASE stage'[c] = "resolve"
    BY <1>a, <1>1, <1>3, <1>8, <1>9, <1>10, <2>1, <2>2
       DEF Stores, Trying, Searched, Settled, TagSteps
  <2>3. CASE stage'[c] = "read"
    <3>1. PlacedIn(job[c], ReferencesOf(p), ReferentsOf(p))
      <4>1. CASE stage[c] = "resolving"
        BY <1>a, <1>1, <1>3, <4>1 DEF Stores, Trying, Settled, TagSteps
      <4>2. CASE stage[c] = "recognizing"
        <5>1. ReferentsOf(p) = {} BY <1>a, <1>3, <4>2 DEF Stores, Trying, Settled
        <5>2. job[c].resolver = None BY <1>8, <2>3, <4>2
        <5>3. QED BY <5>1, <5>2, NothingFound
      <4>3. QED BY <1>2, <4>1, <4>2
    <3>2. QED BY <1>9, <1>10, <2>1, <2>3, <3>1 DEF Stores, Trying, Searched, Settled
  <2>4. QED BY <1>8, <2>2, <2>3
<1>14. Names(c)' BY <1>4, <1>7, <1>8, <1>9, <1>10 DEF Names, Trying
<1>15. AnswersRight(c)' BY <1>8 DEF AnswersRight
<1>16. QED BY <1>11, <1>12, <1>13, <1>14, <1>15 DEF Working

LEMMA ModulesWork ==
  ASSUME ParseInv, NEW c \in Clients, RunModules(c)
  PROVE  Working(c)'
<1>a. /\ TypeOK /\ CallsTypeOK /\ RowsTypeOK /\ RowsBlank /\ ParseTypeOK
      /\ Holds(c) /\ Loads(c) /\ Names(c)
  BY DEF ParseInv, StoreInv, TypeOK, Working
<1>1. /\ stage[c] \in {"recognizing", "resolving"} /\ ClientStep(c)
      /\ job' = job /\ answer' = answer
  BY DEF RunModules
<1>2. pc[c] # "idle" /\ job[c] # None BY <1>1, <1>a, JobHeld DEF Holds
<1>3. PICK p \in Projects : p = job[c].project BY <1>2, JobTyped
<1>4. call[c].project = p /\ call[c].tag = Latest BY <1>2, <1>3, CallHeld
<1>5. Fail(c) => pc'[c] = "idle" /\ outcome'[c] = "failed"
  BY <1>a DEF Fail, Return, CallsTypeOK
<1>6. CASE pc'[c] # "idle"
  <2>1. ParseKept(c) BY <1>1, <1>6 DEF RunModules, ParseKept
  <2>2. ~Fail(c) BY <1>5, <1>6
  <2>3. job'[c].project = p BY <1>1, <1>3
  <2>4. ASSUME UNCHANGED contexts PROVE LatestRow(job[c].project)' = LatestRow(job[c].project)
    BY <1>1, <2>4 DEF LatestRow
  <2>5. CASE OpenContext(c) \/ TagContext(c)
    <3>1. /\ UNCHANGED <<dbVars, callVars>>
          /\ \/ pc[c] = "open" /\ pc'[c] \in {"load", "open_insert"}
             \/ pc[c] = "tag" /\ pc'[c] \in {"tag_load", "tag_insert"}
      BY <1>a, <2>5 DEF OpenContext, TagContext, ReadContext, Goto, CallsTypeOK
    <3>2. call'[c] = call[c] /\ UNCHANGED <<projects, documents, resultVars, contexts>>
      BY <3>1 DEF dbVars, callVars, resultVars
    <3>3. /\ pc'[c] \in TagSteps <=> pc[c] \in TagSteps
          /\ pc'[c] \notin WaitingSteps /\ pc'[c] \notin {"tag_write", "commit"}
      BY <3>1 DEF TagSteps, WaitingSteps
    <3>4. QED BY <1>2, <1>6, <2>1, <2>4, <3>2, <3>3, QuietStepWorks
  <2>6. CASE OpenInsert(c) \/ TagInsert(c)
    <3>1. /\ ~ContextExists(p, Latest)
          /\ contexts' = [contexts EXCEPT ![<<p, Latest>>] = FreshContext]
          /\ UNCHANGED <<projects, documents, modules, resultVars, callVars>>
          /\ \/ pc[c] = "open_insert" /\ pc'[c] = "load"
             \/ pc[c] = "tag_insert" /\ pc'[c] = "tag_load"
      BY <1>a, <1>4, <2>2, <2>6
         DEF OpenInsert, TagInsert, InsertContext, Goto, CallsTypeOK
    <3>2. LatestRow(p) = NoContext /\ LatestRow(p)' = FreshContext
      <4>1. <<p, Latest>> \in Projects \X Tags BY TagAssumption
      <4>2. QED BY <1>a, <3>1, <4>1 DEF ContextExists, RowsBlank, RowsTypeOK, LatestRow
    <3>3. LatestRow(job[c].project)' = FreshContext BY <2>3, <3>2 DEF LatestRow
    <3>4. /\ LatestRow(job[c].project)'.recognizer = LatestRow(job[c].project).recognizer
          /\ LatestRow(job[c].project)'.resolver = LatestRow(job[c].project).resolver
      BY <1>3, <3>2, <3>3 DEF NoContext, FreshContext
    <3>5. call'[c] = call[c] /\ UNCHANGED <<projects, documents, resultVars>>
      BY <3>1 DEF callVars
    <3>6. /\ pc'[c] \in TagSteps <=> pc[c] \in TagSteps
          /\ pc'[c] \notin WaitingSteps /\ pc'[c] \notin {"tag_write", "commit"}
      BY <3>1 DEF TagSteps, WaitingSteps
    <3>7. QED BY <1>2, <1>6, <2>1, <3>4, <3>5, <3>6, QuietStepWorks
  <2>7. CASE LoadDocuments(c)
    <3>1. /\ pc[c] = "load" /\ pc'[c] = "ensure"
          /\ UNCHANGED <<dbVars, call>>
          /\ items'[c] = IF call[c].op = "recognize" THEN DocumentsOf(p) ELSE ReferencesOf(p)
      BY <1>a, <1>4, <2>7 DEF LoadDocuments, Goto, CallsTypeOK
    <3>2. stage[c] = "recognizing" <=> call[c].op = "recognize"
      BY <1>1, <1>a DEF Holds, CallFor
    <3>3. call'[c] = call[c] /\ UNCHANGED <<projects, documents, resultVars, contexts>>
      BY <3>1 DEF dbVars, resultVars
    <3>4. /\ pc'[c] \in TagSteps <=> pc[c] \in TagSteps
          /\ pc'[c] \notin {"tag_write", "commit"}
      BY <3>1 DEF TagSteps
    <3>5. items'[c] = IF stage[c] = "recognizing" THEN DocumentsOf(job[c].project)
                                                  ELSE ReferencesOf(job[c].project)
      BY <1>3, <3>1, <3>2
    <3>6. QED BY <1>2, <1>6, <2>1, <2>4, <3>3, <3>4, <3>5, QuietStepWorks
  <2>8. CASE EnsureModule(c) \/ RegisterModule(c)
    <3>1. /\ pc[c] \in {"ensure", "register"} /\ pc'[c] \in {"register", "filter"}
          /\ UNCHANGED <<projects, documents, resultVars, contexts, callVars>>
      BY <1>a, <2>2, <2>8 DEF EnsureModule, RegisterModule, Goto, CallsTypeOK, dbVars, resultVars
    <3>2. /\ call'[c] = call[c] /\ UNCHANGED <<projects, documents, resultVars, contexts>>
          /\ items'[c] = items[c]
      BY <3>1 DEF callVars
    <3>3. /\ pc'[c] \in TagSteps <=> pc[c] \in TagSteps
          /\ pc'[c] \notin {"tag_write", "commit"}
          /\ pc[c] \in WaitingSteps
      BY <3>1 DEF TagSteps, WaitingSteps
    <3>4. items[c] = IF stage[c] = "recognizing" THEN DocumentsOf(job[c].project)
                                                 ELSE ReferencesOf(job[c].project)
      BY <1>1, <1>a, <3>3 DEF Loads
    <3>5. QED BY <1>2, <1>6, <2>1, <2>4, <3>2, <3>3, <3>4, QuietStepWorks
  <2>9. CASE Filter(c) BY <2>1, <2>9, FilterWorks
  <2>10. CASE CommitRecognition(c) BY <2>1, <2>2, <2>10, RecognitionWorks
  <2>11. CASE CommitResolution(c) BY <2>1, <2>2, <2>11, ResolutionWorks
  <2>12. CASE LoadContext(c)
    <3>1. /\ pc[c] = "tag_load" /\ pc'[c] = "tag_write"
          /\ UNCHANGED <<dbVars, call>>
          /\ seen'[c] = LatestRow(job[c].project)
      BY <1>a, <1>3, <1>4, <2>2, <2>12 DEF LoadContext, Goto, CallsTypeOK, LatestRow
    <3>2. call'[c] = call[c] /\ UNCHANGED <<projects, documents, resultVars, contexts>>
      BY <3>1 DEF dbVars, resultVars
    <3>3. /\ pc'[c] \in TagSteps <=> pc[c] \in TagSteps
          /\ pc'[c] \notin WaitingSteps /\ pc'[c] # "commit"
      BY <3>1 DEF TagSteps, WaitingSteps
    <3>4. QED BY <1>2, <1>6, <2>1, <2>4, <3>1, <3>2, <3>3, QuietStepWorks
  <2>13. ~WriteContext(c)
    BY <1>a, <1>6, <2>2 DEF WriteContext, Return, CallsTypeOK
  <2>14. QED
    BY <1>1, <2>5, <2>6, <2>7, <2>8, <2>9, <2>10, <2>11, <2>12, <2>13 DEF ClientStep
<1>7. CASE pc'[c] = "idle"
  <2>1. CASE outcome'[c] = "ok"
    <3>1. ~Fail(c) BY <1>5, <2>1
    <3>2. WriteContext(c)
      <4>1. ASSUME NEW step, step # "idle", Goto(c, step) PROVE FALSE
        BY <1>7, <4>1, <1>a DEF Goto, CallsTypeOK
      <4>2. QED
        BY <1>1, <3>1, <4>1 DEF ClientStep, OpenContext, OpenInsert, TagContext, TagInsert,
           ReadContext, InsertContext, LoadDocuments, EnsureModule, RegisterModule, Filter,
           CommitRecognition, InsertRecognitions, CommitResolution, InsertResolutions,
           LoadContext
    <3>3. /\ stage' = [stage EXCEPT ![c] = IF stage[c] = "recognizing"
                                             THEN AfterRecognizer(job[c]) ELSE "read"]
          /\ UNCHANGED <<job, answer, ending>>
      BY <1>7, <2>1 DEF RunModules, Advance
    <3>4. QED BY <3>1, <3>2, <3>3, WriteWorks
  <2>2. CASE outcome'[c] # "ok"
    <3>1. stage'[c] = "finally" /\ ending'[c] = "raise"
      BY <1>a, <1>7, <2>2 DEF RunModules, Advance, EndWith, ParseTypeOK
    <3>2. projects' = projects
      BY <1>1, <1>a, <1>2, <1>3, <1>4, CallConfined, CallHeld
    <3>3. QED BY <1>1, <1>2, <1>7, <3>1, <3>2, FinallyWorks
  <2>3. QED BY <2>1, <2>2
<1>8. QED BY <1>6, <1>7

-----------------------------------------------------------------------------
(***************************************************************************)
(* The answer.                                                             *)
(***************************************************************************)

\* What is read of a project with one complete prediction is a correct answer.
LEMMA ReadIsCorrect ==
  ASSUME NEW j, NEW R, NEW Y, NEW place, NEW A,
         FoundIn(j, R),
         \A x \in R : x.document \in j.docs,
         \A x \in R : place[x] \in Stateless!Places(j.resolver),
         A = {[document |-> x.document, span |-> x.span, place |-> place[x]] : x \in R}
  PROVE  Stateless!Correct(j, A)
<1>1. \A t \in A : t.document \in j.docs /\ t.place \in Stateless!Places(j.resolver)
  OBVIOUS
<1>2. ASSUME NEW d \in j.docs
      PROVE  Stateless!SpansAt(A, d) \in Stateless!Findings(j.recognizer, d)
  <2> DEFINE S == {x.span : x \in {y \in R : y.document = d}}
             T == {t.span : t \in {u \in A : u.document = d}}
  <2>1. \A s \in S : s \in T
    <3> SUFFICES ASSUME NEW x \in R, x.document = d PROVE x.span \in T
      OBVIOUS
    <3> DEFINE t == [document |-> x.document, span |-> x.span, place |-> place[x]]
    <3>1. t \in A /\ t.document = d /\ t.span = x.span OBVIOUS
    <3>2. QED BY <3>1
  <2>2. \A s \in T : s \in S OBVIOUS
  <2>3. S = T BY <2>1, <2>2
  <2>4. S \in Stateless!Findings(j.recognizer, d) BY DEF FoundIn
  <2>5. QED BY <2>3, <2>4 DEF Stateless!SpansAt
<1>3. ASSUME NEW t \in A, NEW u \in A, t.document = u.document, t.span = u.span
      PROVE  t = u
  <2>1. PICK x \in R : t = [document |-> x.document, span |-> x.span, place |-> place[x]]
    OBVIOUS
  <2>2. PICK y \in R : u = [document |-> y.document, span |-> y.span, place |-> place[y]]
    OBVIOUS
  <2>3. x = y BY <1>3, <2>1, <2>2 DEF FoundIn
  <2>4. QED BY <2>1, <2>2, <2>3
<1>4. QED BY <1>1, <1>2, <1>3 DEF Stateless!Correct

LEMMA AnswerIsCorrect ==
  ASSUME ParseInv, NEW c \in Clients, stage[c] = "read",
         Read(c, TagRow(job[c].project))
  PROVE  Stateless!Correct(job[c], answer'[c])
<1>a. /\ TypeOK /\ RowsTypeOK /\ RowsAnchored /\ RowsBlank /\ ParseTypeOK
      /\ Holds(c) /\ Loads(c) /\ Stores(c) /\ Names(c)
  BY DEF ParseInv, StoreInv, TypeOK, AnchorInv, Working
<1>1. job[c] # None BY JobHeld
<1>2. PICK p \in Projects : p = job[c].project BY <1>1, JobTyped
<1>3. PICK j : j = job[c] OBVIOUS
<1>4. PICK row : row = TagRow(p) OBVIOUS
<1>5. row.recognizer = j.recognizer /\ row.resolver = j.resolver
  <2>1. LatestRow(p).recognizer = j.recognizer /\ LatestRow(p).resolver = j.resolver
    BY <1>a, <1>2, <1>3 DEF Names, Trying
  <2>2. QED BY <1>a, <1>4, <2>1, TagRowOf
<1> DEFINE R == ReferencesOf(p)
           Y == ReferentsOf(p)
<1>6. /\ FoundIn(j, R) /\ PlacedIn(j, R, Y) /\ DocumentsOf(p) = j.docs
      /\ \A d \in j.docs : HomeOf[d] = p
  BY <1>a, <1>1, <1>2, <1>3 DEF Stores, Loads, Holds, Trying, Searched, Settled
<1>7. \A x \in R : x.document \in j.docs
  BY <1>a, <1>6 DEF RowsAnchored, RecognitionsAnchored, ReferencesOf, DocumentsOf
<1>8. UNION {Toponyms(d, row) : d \in j.docs} = R
  <2>1. ASSUME NEW x \in R PROVE x \in UNION {Toponyms(d, row) : d \in j.docs}
    <3>1. x.document \in j.docs BY <1>7
    <3>2. x \in Toponyms(x.document, row)
      BY <1>5, <1>6 DEF FoundIn, Toponyms, ReferencesOf
    <3>3. QED BY <3>1, <3>2
  <2>2. ASSUME NEW d \in j.docs, NEW x \in Toponyms(d, row) PROVE x \in R
    BY <1>6 DEF Toponyms, ReferencesOf
  <2>3. QED BY <2>1, <2>2
<1>b. Place(c, R, row)
  <2>1. Read(c, row) BY <1>2, <1>4
  <2> HIDE DEF R
  <2>2. QED BY <1>3, <1>8, <2>1 DEF Read
<1>9. PICK place : /\ \A x \in R : place[x] \in Locations(x, row)
                   /\ answer' = [answer EXCEPT ![c] =
                        {[document |-> x.document, span |-> x.span, place |-> place[x]] : x \in R}]
  BY <1>b DEF Place
<1>10. ASSUME NEW x \in R PROVE place[x] \in Stateless!Places(j.resolver)
  <2> DEFINE own == {y \in referents : y.reference = x /\ y.resolver = row.resolver}
  <2>1. own = {y \in Y : y.reference = x /\ y.resolver = j.resolver}
    BY <1>5 DEF ReferencesOf, ReferentsOf
  <2>2. CASE own = {}
    <3>1. place[x] = None BY <1>9, <2>2 DEF Locations
    <3>2. None \in Stateless!Places(j.resolver) BY <1>6, <2>1, <2>2 DEF PlacedIn
    <3>3. QED BY <3>1, <3>2
  <2>3. CASE own # {}
    <3>1. place[x] \in {y.feature : y \in own} BY <1>9, <2>3 DEF Locations
    <3>2. \A y \in own : y.feature \in Stateless!Places(j.resolver)
      BY <1>6, <2>1 DEF PlacedIn
    <3> HIDE DEF own
    <3>3. QED BY <3>1, <3>2
  <2>4. QED BY <2>2, <2>3
<1> DEFINE A == {[document |-> x.document, span |-> x.span, place |-> place[x]] : x \in R}
<1>11. answer'[c] = A BY <1>a, <1>9 DEF ParseTypeOK
<1>12. Stateless!Correct(j, A)
  <2> HIDE DEF R
  <2>1. QED BY <1>6, <1>7, <1>10, ReadIsCorrect
<1>13. QED BY <1>3, <1>11, <1>12

LEMMA ReadWorks ==
  ASSUME ParseInv, NEW c \in Clients, ReadBack(c)
  PROVE  Working(c)'
<1>a. ParseTypeOK /\ Holds(c) BY DEF ParseInv, Working
<1>1. stage[c] = "read" /\ job[c] # None BY JobHeld DEF ReadBack
<1>2. /\ stage'[c] = "finally" /\ pc' = pc /\ job' = job /\ projects' = projects
      /\ ending'[c] \in {"return", "raise"}
      /\ ending'[c] = "return" => Read(c, TagRow(job[c].project))
  BY <1>a DEF ReadBack, Advance, EndWith, ParseTypeOK
<1>3. pc'[c] = "idle" BY <1>a, <1>1, <1>2 DEF Holds
<1>4. ending'[c] = "return" => Stateless!Correct(job[c], answer'[c])
  BY <1>1, <1>2, AnswerIsCorrect
<1>5. QED BY <1>1, <1>2, <1>3, <1>4, FinallyWorks

\* The other ways out of a parse end its call.
LEMMA LeavingWorks ==
  ASSUME ParseInv, NEW c \in Clients, CleanUp(c) \/ RaiseInside(c) \/ Die(c)
  PROVE  Working(c)'
<1>a. CallsTypeOK /\ ParseTypeOK /\ Holds(c) BY DEF ParseInv, StoreInv, TypeOK, Working
<1>1. CASE CleanUp(c)
  <2>1. pc' = pc BY <1>1 DEF CleanUp, Discard, DeleteProject, vars
  <2>2. pc[c] = "idle" BY <1>1, <1>a DEF CleanUp, Holds
  <2>3. stage'[c] = "ready" /\ job'[c] = None
    BY <1>1, <1>a DEF CleanUp, Leave, Advance, ParseTypeOK
  <2>4. QED BY <2>1, <2>2, <2>3, ReadyWorks
<1>2. ASSUME Stop(c) PROVE pc'[c] = "idle" /\ projects' = projects
  BY <1>2, <1>a DEF Stop, Interrupt, Fail, Return, CallsTypeOK, vars, dbVars
<1>3. CASE RaiseInside(c)
  <2>1. /\ stage'[c] = "finally" /\ ending'[c] = "raise" /\ job' = job
        /\ stage[c] # "ready"
    BY <1>3, <1>a DEF RaiseInside, Advance, EndWith, ParseTypeOK
  <2>2. QED BY <1>2, <1>3, <2>1, JobHeld, FinallyWorks DEF RaiseInside
<1>4. CASE Die(c)
  <2>1. stage'[c] = "ready" /\ job'[c] = None
    BY <1>4, <1>a DEF Die, Leave, Advance, ParseTypeOK
  <2>2. QED BY <1>2, <1>4, <2>1, ReadyWorks DEF Die
<1>5. QED BY <1>1, <1>3, <1>4

-----------------------------------------------------------------------------
(***************************************************************************)
(* The inductive invariant, and that parses do not meet.                   *)
(***************************************************************************)

LEMMA ParseStarts ==
  ASSUME ParseInit
  PROVE  ParseInv
<1>1. TypeOK
  BY TagAssumption DEF ParseInit, Init, TypeOK, RowsTypeOK, CallsTypeOK, ContextRow,
     NoContext, Modules
<1>2. AnchorInv
  BY DEF ParseInit, Init, AnchorInv, RowsAnchored, DocumentsAnchored,
     RecognitionsAnchored, ResolutionsAnchored, ContextsAnchored, NoContext,
     CallsRegistered, RegisteredSteps
<1>3. OnceInv BY DEF ParseInit, Init, OnceInv, ProcessedOnce, BatchesGuarded
<1>4. RowsBlank /\ contended = {} BY DEF ParseInit, Init, RowsBlank
<1>5. ParseTypeOK BY DEF ParseInit, ParseTypeOK, Stages, Endings
<1>6. Apart BY DEF ParseInit, Apart
<1>7. \A c \in Clients : Working(c)
  BY DEF ParseInit, Init, Working, Holds, Loads, Stores, Names, AnswersRight, Trying
<1>8. QED BY <1>1, <1>2, <1>3, <1>4, <1>5, <1>6, <1>7 DEF ParseInv, StoreInv

LEMMA ParseStable ==
  ASSUME ParseInv, [ParseNext]_allVars
  PROVE  ParseInv'
<1>1. ASSUME NEW c \in Clients, ParseStep(c) PROVE ParseInv'
  <2>1. StoreInv' /\ ParseTypeOK' /\ Apart'
    BY <1>1, StoreKept, ParseTyped, ApartKept
  <2>2. Working(c)'
    BY <1>1, StartWorks, TextsWork, BeginWorks, ModulesWork, ReadWorks, LeavingWorks
       DEF ParseStep
  <2>3. ASSUME NEW b \in Clients \ {c} PROVE Working(b)'
    <3>1. /\ CallKept(b) /\ ParseKept(b)
          /\ \A p \in Projects : job[b] # None /\ p = job[b].project => Untouched(p)
      BY <1>1, OthersSpared
    <3>2. Working(b) /\ job[b] \in Job \cup {None} BY DEF ParseInv, ParseTypeOK
    <3>3. QED BY <3>1, <3>2, WorkingKept
  <2>4. QED BY <2>1, <2>2, <2>3 DEF ParseInv
<1>2. CASE UNCHANGED allVars
  <2>1. /\ UNCHANGED vars
        /\ UNCHANGED <<stage, job, answer, result, ending>>
    BY <1>2 DEF allVars, parseVars
  <2>2. StoreInv'
    <3>1. TypeOK' /\ AnchorInv' /\ OnceInv' /\ RowsBlank'
      BY <2>1, TypeStable, AnchorStable, OnceStable, BlankStable DEF ParseInv, StoreInv
    <3>2. contended' = {} BY <2>1 DEF ParseInv, StoreInv, vars, callVars
    <3>3. QED BY <3>1, <3>2 DEF StoreInv
  <2>3. ParseTypeOK' BY <2>1 DEF ParseInv, ParseTypeOK
  <2>4. Apart' BY <2>1 DEF ParseInv, Apart
  <2>5. ASSUME NEW c \in Clients PROVE Working(c)'
    <3>1. CallKept(c) /\ ParseKept(c)
      BY <2>1 DEF vars, callVars, CallKept, ParseKept
    <3>2. \A p \in Projects : Untouched(p)
      BY <2>1 DEF vars, dbVars, Untouched, DocumentsOf, ReferencesOf, RecognitionsOf,
         ReferentsOf, ResolutionsOf, LatestRow
    <3>3. Working(c) /\ job[c] \in Job \cup {None} BY DEF ParseInv, ParseTypeOK
    <3>4. QED BY <3>1, <3>2, <3>3, WorkingKept
  <2>6. QED BY <2>2, <2>3, <2>4, <2>5 DEF ParseInv
<1>3. QED BY <1>1, <1>2 DEF ParseNext, ParseStep

LEMMA ParseAlways == ParseSpec => []ParseInv
<1>1. ParseInit => ParseInv BY ParseStarts
<1>2. ParseInv /\ [ParseNext]_allVars => ParseInv' BY ParseStable
<1>3. QED BY <1>1, <1>2, PTL DEF ParseSpec

\* Parses that share a database never hold the same document or reference in
\* their batches, and nothing is processed twice by one module.
THEOREM ParsesAlwaysDisjoint == ParseSpec => []ParsesDisjoint
<1>1. ParseInv => ParsesDisjoint
  BY DEF ParseInv, StoreInv, OnceInv, ProcessedOnce, ParsesDisjoint, NeverProcessedTwice
<1>2. QED BY <1>1, ParseAlways, PTL

-----------------------------------------------------------------------------
(***************************************************************************)
(* A parse does what it promises its caller.  How a parse has ended is     *)
(* seen only when it has; the projects left behind are those that no       *)
(* running parse works in.                                                 *)
(***************************************************************************)

ShownEnding == [c \in Clients |-> IF job[c] = None THEN ending[c] ELSE "none"]

\* What a running parse does before it ends is not seen from outside.
LEMMA InsideUnseen ==
  ASSUME ParseInv, NEW c \in Clients, job[c] # None,
         UNCHANGED <<job, result, projects>>,
         \A b \in Clients \ {c} : ending'[b] = ending[b]
  PROVE  UNCHANGED Stateless!vars
<1>1. UNCHANGED ShownEnding BY DEF ShownEnding
<1>2. UNCHANGED Kept BY DEF Kept
<1>3. QED BY <1>1, <1>2 DEF Stateless!vars, ShownEnding

LEMMA StartSeen ==
  ASSUME ParseInv, NEW c \in Clients, NEW j \in Job, StartParse(c, j)
  PROVE  Stateless!Start(c, j)
<1>a. ParseTypeOK /\ RowsTypeOK BY DEF ParseInv, StoreInv, TypeOK
<1>1. PICK p \in Projects : p = j.project BY DEF Job
<1>2. /\ stage[c] = "ready"
      /\ projects[p] = "new" /\ projects' = [projects EXCEPT ![p] = "live"]
      /\ job' = [job EXCEPT ![c] = j] /\ ending' = [ending EXCEPT ![c] = "none"]
      /\ result' = result
  BY <1>1 DEF StartParse, OpenProject, CreateProject, EndWith
<1>3. job[c] = None BY <1>2 DEF ParseInv, Working, Holds
<1>4. \A b \in Clients : job[b] # None => job[b].project # p
  BY <1>2 DEF ParseInv, Working, Holds
<1>5. p \notin Kept BY <1>2 DEF Kept
<1>6. Kept' = Kept
  <2>1. ASSUME NEW q \in Projects PROVE q \in Kept' <=> q \in Kept
    <3>1. CASE q = p
      <4>1. job'[c] = j /\ j # None BY <1>a, <1>2, NoneAssumption DEF ParseTypeOK
      <4>2. q \notin Kept' BY <1>1, <3>1, <4>1 DEF Kept
      <4>3. QED BY <1>5, <3>1, <4>2
    <3>2. CASE q # p
      <4>1. projects'[q] = projects[q] BY <1>a, <1>2, <3>2 DEF RowsTypeOK
      <4>2. job'[c] = j /\ \A b \in Clients \ {c} : job'[b] = job[b]
        BY <1>a, <1>2 DEF ParseTypeOK
      <4>3. QED BY <1>1, <1>3, <3>2, <4>1, <4>2 DEF Kept
    <3>3. QED BY <3>1, <3>2
  <2>2. Kept \subseteq Projects /\ Kept' \subseteq Projects BY DEF Kept
  <2>3. QED BY <2>1, <2>2
<1>7. ShownEnding' = [ShownEnding EXCEPT ![c] = "none"]
  BY <1>a, <1>2, <1>3, NoneAssumption DEF ShownEnding, ParseTypeOK
<1>8. QED BY <1>1, <1>2, <1>3, <1>4, <1>5, <1>6, <1>7 DEF Stateless!Start, ShownEnding

\* The end of a parse, and what it leaves behind.
LEMMA EndSeen ==
  ASSUME ParseInv, NEW c \in Clients, NEW how, ending'[c] = how, job[c] # None,
         job' = [job EXCEPT ![c] = None],
         \A b \in Clients \ {c} : ending'[b] = ending[b],
         ending' \in [Clients -> Endings]
  PROVE  /\ Stateless!End(c, how)
         /\ projects' = projects => Kept' = Kept \cup {job[c].project}
         /\ DeleteProject(job[c].project) => Kept' = Kept
<1>a. ParseTypeOK /\ RowsTypeOK BY DEF ParseInv, StoreInv, TypeOK
<1>1. PICK p \in Projects : p = job[c].project BY JobTyped
<1>2. projects[p] = "live" BY <1>1 DEF ParseInv, Working, Holds
<1>3. \A b \in Clients \ {c} : job[b] # None => job[b].project # p
  BY <1>1 DEF ParseInv, Apart
<1>4. job'[c] = None /\ \A b \in Clients \ {c} : job'[b] = job[b]
  BY <1>a DEF ParseTypeOK
<1>5. ShownEnding' = [ShownEnding EXCEPT ![c] = how]
  BY <1>4 DEF ShownEnding
<1>6. Stateless!End(c, how)
  BY <1>5 DEF Stateless!End, ShownEnding
<1>7. Kept \subseteq Projects /\ Kept' \subseteq Projects BY DEF Kept
<1>8. ASSUME projects' = projects PROVE Kept' = Kept \cup {p}
  <2>1. ASSUME NEW q \in Projects PROVE q \in Kept' <=> (q \in Kept \/ q = p)
    <3>1. CASE q = p BY <1>2, <1>3, <1>4, <1>8, <3>1 DEF Kept
    <3>2. CASE q # p BY <1>1, <1>4, <1>8, <3>2 DEF Kept
    <3>3. QED BY <3>1, <3>2
  <2>2. QED BY <1>7, <2>1
<1>9. ASSUME DeleteProject(p) PROVE Kept' = Kept
  <2>1. projects' = [projects EXCEPT ![p] = "deleted"] BY <1>9 DEF DeleteProject
  <2>2. ASSUME NEW q \in Projects PROVE q \in Kept' <=> q \in Kept
    <3>1. CASE q = p
      <4>1. q \notin Kept BY <1>1, <3>1 DEF Kept
      <4>2. q \notin Kept' BY <1>a, <2>1, <3>1 DEF Kept, RowsTypeOK
      <4>3. QED BY <4>1, <4>2
    <3>2. CASE q # p
      <4>1. projects'[q] = projects[q] BY <1>a, <2>1, <3>2 DEF RowsTypeOK
      <4>2. QED BY <1>1, <1>4, <3>2, <4>1 DEF Kept
    <3>3. QED BY <3>1, <3>2
  <2>3. QED BY <1>7, <2>2
<1>10. QED BY <1>1, <1>6, <1>8, <1>9

LEMMA CleanUpSeen ==
  ASSUME ParseInv, NEW c \in Clients, CleanUp(c)
  PROVE  Stateless!Answer(c) \/ Stateless!Raise(c)
<1>a. ParseTypeOK /\ Holds(c) /\ AnswersRight(c) BY DEF ParseInv, Working
<1>1. /\ stage[c] = "finally" /\ job' = [job EXCEPT ![c] = None]
      /\ ending' = ending /\ ending[c] \in {"return", "raise"}
      /\ result' = [result EXCEPT ![c] = IF ending[c] = "return" THEN answer[c] ELSE @]
      /\ IF job[c].save THEN UNCHANGED vars ELSE Discard(job[c].project)
  BY <1>a DEF CleanUp, Leave, Holds
<1>2. job[c] # None BY <1>1, JobHeld
<1>3. projects[job[c].project] = "live" BY <1>a, <1>2 DEF Holds
<1>4. ASSUME NEW how, ending[c] = how
      PROVE  /\ Stateless!End(c, how)
             /\ projects' = projects => Kept' = Kept \cup {job[c].project}
             /\ DeleteProject(job[c].project) => Kept' = Kept
  <2>1. ending' \in [Clients -> Endings] /\ \A b \in Clients \ {c} : ending'[b] = ending[b]
    BY <1>1, <1>a DEF ParseTypeOK
  <2>2. ending'[c] = how BY <1>1, <1>4
  <2>3. QED BY <1>1, <1>2, <2>1, <2>2, EndSeen
<1>5. Kept' = Kept \cup Stateless!Saved(c)
  <2>1. CASE job[c].save
    BY <1>1, <1>4, <2>1 DEF Stateless!Saved, vars, dbVars
  <2>2. CASE ~job[c].save
    BY <1>1, <1>3, <1>4, <2>2 DEF Stateless!Saved, Discard
  <2>3. QED BY <2>1, <2>2
<1>6. CASE ending[c] = "return"
  <2>1. result' = [result EXCEPT ![c] = answer[c]] BY <1>1, <1>6
  <2>2. result'[c] = answer[c] BY <1>a, <2>1 DEF ParseTypeOK
  <2>3. answer[c] \in SUBSET Stateless!Toponym BY <1>a DEF ParseTypeOK
  <2>4. Stateless!Correct(job[c], answer[c]) BY <1>a, <1>1, <1>6 DEF AnswersRight
  <2>5. result' = [result EXCEPT ![c] = result'[c]] BY <2>1, <2>2
  <2>6. QED BY <1>4, <1>5, <1>6, <2>2, <2>3, <2>4, <2>5 DEF Stateless!Answer
<1>7. CASE ending[c] = "raise"
  <2>1. result' = result BY <1>a, <1>1, <1>7 DEF ParseTypeOK
  <2>2. QED BY <1>4, <1>5, <1>7, <2>1 DEF Stateless!Raise
<1>8. QED BY <1>1, <1>6, <1>7

LEMMA DieSeen ==
  ASSUME ParseInv, NEW c \in Clients, Die(c)
  PROVE  Stateless!Die(c)
<1>a. ParseTypeOK BY DEF ParseInv
<1>1. /\ stage[c] # "ready" /\ job' = [job EXCEPT ![c] = None] /\ result' = result
      /\ ending' = [ending EXCEPT ![c] = "die"] /\ projects' = projects
  BY DEF Die, Leave, EndWith, Stop, Interrupt, Fail, vars, dbVars
<1>2. job[c] # None BY <1>1, JobHeld
<1>3. /\ ending'[c] = "die" /\ \A b \in Clients \ {c} : ending'[b] = ending[b]
      /\ ending' \in [Clients -> Endings]
  BY <1>a, <1>1 DEF ParseTypeOK, Endings
<1>4. Stateless!End(c, "die") /\ Kept' = Kept \cup {job[c].project}
  BY <1>1, <1>2, <1>3, EndSeen
<1>5. QED BY <1>1, <1>4 DEF Stateless!Die

\* Geoparser.parse keeps its promise: every parse that returns has a correct
\* answer for its own texts from its own modules, and unless it was asked to save
\* them, or died, it leaves nothing behind, whatever other parses do beside it.
THEOREM ParseKeepsItsPromise == ParseSpec => ImplementsStatelessParse
<1>1. ParseInit => Stateless!Init
  BY DEF ParseInit, Init, Stateless!Init, Kept
<1>2. ParseInv /\ [ParseNext]_allVars => [Stateless!Next]_(Stateless!vars)
  <2> SUFFICES ASSUME ParseInv, [ParseNext]_allVars
               PROVE  [Stateless!Next]_(Stateless!vars)
    OBVIOUS
  <2>a. ParseTypeOK BY DEF ParseInv
  <2>1. ASSUME NEW c \in Clients, NEW j \in Job, StartParse(c, j) PROVE Stateless!Next
    <3>1. Stateless!Start(c, j) BY <2>1, StartSeen
    <3>2. j \in Stateless!Job BY DEF Job, Stateless!Job
    <3>3. QED BY <3>1, <3>2 DEF Stateless!Next
  <2>2. ASSUME NEW c \in Clients,
               \/ AddTexts(c) \/ StartRecognizer(c) \/ StartResolver(c)
               \/ RunModules(c) \/ ReadBack(c) \/ RaiseInside(c)
        PROVE  UNCHANGED Stateless!vars
    <3>1. stage[c] # "ready"
      BY <2>2 DEF AddTexts, StartRecognizer, StartResolver, RunModules, ReadBack, RaiseInside
    <3>2. job[c] # None BY <3>1, JobHeld
    <3>3. UNCHANGED <<job, result>> /\ \A b \in Clients \ {c} : ending'[b] = ending[b]
      BY <2>2, <2>a DEF AddTexts, StartRecognizer, StartResolver, RunModules, ReadBack,
         RaiseInside, EndWith, ParseTypeOK
    <3>4. projects' = projects
      BY <2>2 DEF AddTexts, CreateDocuments, StartRecognizer, StartResolver, RunRecognizer,
         RunResolver, Begin, RunModules, ClientStep, OpenContext, OpenInsert, TagContext,
         TagInsert, ReadContext, InsertContext, LoadDocuments, EnsureModule, RegisterModule,
         Filter, CommitRecognition, InsertRecognitions, CommitResolution, InsertResolutions,
         LoadContext, WriteContext, ReadBack, RaiseInside, Stop, Interrupt, Fail, vars, dbVars
    <3>5. QED BY <3>2, <3>3, <3>4, InsideUnseen
  <2>3. ASSUME NEW c \in Clients, CleanUp(c) PROVE Stateless!Next
    BY <2>3, CleanUpSeen DEF Stateless!Next
  <2>4. ASSUME NEW c \in Clients, Die(c) PROVE Stateless!Next
    BY <2>4, DieSeen DEF Stateless!Next
  <2>5. CASE UNCHANGED allVars
    <3>1. UNCHANGED <<job, result, projects, ending>>
      BY <2>5 DEF allVars, parseVars, vars, dbVars
    <3>2. QED BY <3>1 DEF Stateless!vars, Kept
  <2>6. QED BY <2>1, <2>2, <2>3, <2>4, <2>5 DEF ParseNext
<1>3. QED BY <1>1, <1>2, ParseAlways, PTL DEF ParseSpec, ImplementsStatelessParse, Stateless!Spec

\* No step of a parse but the deletion of its own project takes a document, a
\* result or a marker away.
THEOREM ParsesKeepResults == ParseSpec => ResultsPersist
<1>1. ParseInv /\ [ParseNext]_allVars => [KeepsRows]_vars
  <2> SUFFICES ASSUME ParseInv, [ParseNext]_allVars PROVE [KeepsRows]_vars
    OBVIOUS
  <2>1. ASSUME NEW c \in Clients, ParseStep(c) PROVE KeepsRows
    <3>1. CASE ReadBack(c)
      BY <3>1, ReadBackStores DEF KeepsRows, resultVars
    <3>2. CASE ~ReadBack(c)
      BY <2>1, <3>2, StoreSteps, RowsPersist DEF ParseInv, StoreInv, AnchorInv
    <3>3. QED BY <3>1, <3>2
  <2>2. QED BY <2>1 DEF ParseNext, ParseStep, allVars
<1>2. QED BY <1>1, ParseAlways, PTL DEF ParseSpec, ResultsPersist, KeepsRows

-----------------------------------------------------------------------------
(***************************************************************************)
(* The pilot is a parse too: whatever holds of parses holds of pilots and  *)
(* parses that share a database.                                           *)
(***************************************************************************)

LEMMA PilotsParse == PilotSpec => ParseSpec
<1>1. PilotInit => ParseInit BY DEF PilotInit
<1>2. [PilotNext]_pilotVars => [ParseNext]_allVars
  <2>1. ASSUME NEW c \in Clients, Work(c) PROVE ParseNext
    BY <2>1 DEF Work, ParseNext
  <2>2. ASSUME NEW c \in Clients, StartPilot(c) \/ StartOther(c) PROVE ParseNext
    BY <2>2 DEF StartPilot, StartOther, ParseNext, PilotJob
  <2>3. ASSUME NEW c \in Clients, EndPilot(c) \/ EndOther(c) PROVE ParseNext
    BY <2>3 DEF EndPilot, EndOther, ParseNext
  <2>4. CASE UNCHANGED pilotVars BY <2>4 DEF pilotVars
  <2>5. QED BY <2>1, <2>2, <2>3, <2>4 DEF PilotNext
<1>3. QED BY <1>1, <1>2, PTL DEF PilotSpec, ParseSpec

\* Pilots and parses that share a database work on disjoint documents, keep the
\* results of the projects they leave alone, and keep the promise of parse.
THEOREM PilotsAreParses ==
  PilotSpec => []ParsesDisjoint /\ ResultsPersist /\ ImplementsStatelessParse
BY PilotsParse, ParsesAlwaysDisjoint, ParsesKeepResults, ParseKeepsItsPromise

-----------------------------------------------------------------------------
(***************************************************************************)
(* Sums, which count the members of disjoint sets.                         *)
(***************************************************************************)

\* A set of numbers has a least one.
LEMMA LeastNumber ==
  ASSUME NEW S \in SUBSET Nat, S # {}
  PROVE  \E n \in S : \A m \in S : n <= m
<1> DEFINE less == {ss \in Nat \X Nat : ss[1] < ss[2]}
<1>1. IsWellFoundedOn(less, Nat)
  BY NatLessThanWellFounded DEF OpToRel
<1> HIDE DEF less
<1>2. PICK n \in S : \A m \in S : <<m, n>> \notin less
  BY <1>1, WFMin
<1>3. ASSUME NEW m \in S
      PROVE  n <= m
  <2>1. n \in Nat /\ m \in Nat
    OBVIOUS
  <2>2. ~(m < n)
    BY <1>2, <2>1 DEF less
  <2> QED
    BY <2>1, <2>2
<1> QED
  BY <1>3

\* Induction over the numbers, on the set of those that are through.
LEMMA Induct ==
  ASSUME NEW S, 0 \in S, \A n \in Nat : n \in S => n + 1 \in S
  PROVE  Nat \subseteq S
<1>1. SUFFICES ASSUME Nat \ S # {}
               PROVE  FALSE
  OBVIOUS
<1>2. Nat \ S \in SUBSET Nat
  OBVIOUS
<1>3. PICK n \in Nat \ S : \A m \in Nat \ S : n <= m
  BY <1>1, <1>2, LeastNumber
<1>4. n # 0 /\ n \in Nat
  OBVIOUS
<1>5. n - 1 \in Nat /\ n = (n - 1) + 1 /\ ~(n <= n - 1)
  BY <1>4
<1>6. n - 1 \in S
  BY <1>3, <1>5
<1> QED
  BY <1>5, <1>6

\* Applying a function to the elements of a finite set leaves it finite.
LEMMA ImageFinite ==
  ASSUME NEW S, IsFiniteSet(S), NEW f
  PROVE  IsFiniteSet({f[x] : x \in S})
<1> DEFINE T == {f[x] : x \in S}
<1> DEFINE g == [x \in S |-> f[x]]
<1>1. g \in Surjection(S, T)
  BY DEF Surjection
<1> QED
  BY <1>1, FS_Surjection

\* A mapping that tells elements apart, and leaves none out.
Matches(f, S, T) ==
  /\ f \in [S -> T]
  /\ \A x, y \in S : f[x] = f[y] => x = y
  /\ \A z \in T : \E x \in S : f[x] = z

\* Then the two sets have one number.
LEMMA SameNumber ==
  ASSUME NEW S, IsFiniteSet(S), NEW T, NEW f, Matches(f, S, T)
  PROVE  IsFiniteSet(T) /\ Cardinality(T) = Cardinality(S)
<1>1. f \in Bijection(S, T)
  BY DEF Matches, Bijection, Injection, Surjection, IsInjective
<1> QED
  BY <1>1, FS_Bijection DEF ExistsBijection

\* The elements of the sets of a family, each with its index.
Family(P, D) == UNION {({x} \X P[x]) : x \in D}

\* What is in a family, said without sets of sets.
LEMMA FamilyMember ==
  ASSUME NEW P, NEW D
  PROVE  \A t : t \in Family(P, D) <=> \E x \in D : \E e \in P[x] : t = <<x, e>>
BY DEF Family

\* Finitely many finite sets make a finite family.
LEMMA FamilyFinite ==
  ASSUME NEW D, IsFiniteSet(D), NEW P, \A x \in D : IsFiniteSet(P[x])
  PROVE  IsFiniteSet(Family(P, D))
<1> DEFINE part == [x \in D |-> {x} \X P[x]]
<1> DEFINE parts == {part[x] : x \in D}
<1>1. IsFiniteSet(parts)
  <2> HIDE DEF part
  <2> QED BY ImageFinite
<1>2. ASSUME NEW x \in D
      PROVE  IsFiniteSet(part[x])
  <2>1. IsFiniteSet({x}) /\ IsFiniteSet(P[x])
    BY FS_Singleton
  <2> QED
    BY <2>1, FS_Product
<1>3. \A S \in parts : IsFiniteSet(S)
  BY <1>2
<1>4. Family(P, D) = UNION parts
  BY DEF Family
<1> HIDE DEF parts
<1> QED
  BY <1>1, <1>3, <1>4, FS_UNION

\* The numbers of two families that share no index add up.
LEMMA FamilySplit ==
  ASSUME NEW D, NEW E, IsFiniteSet(D), IsFiniteSet(E), D \cap E = {},
         NEW P, \A x \in D \cup E : IsFiniteSet(P[x])
  PROVE  Cardinality(Family(P, D \cup E)) = Cardinality(Family(P, D)) + Cardinality(Family(P, E))
<1>1. IsFiniteSet(Family(P, D)) /\ IsFiniteSet(Family(P, E))
  BY FamilyFinite
<1>2. Family(P, D \cup E) = (Family(P, D)) \cup Family(P, E)
  BY DEF Family
<1>3. (Family(P, D)) \cap Family(P, E) = {}
  BY FamilyMember
<1>4. Cardinality((Family(P, D)) \cap Family(P, E)) = 0
  BY <1>3, FS_EmptySet
<1>5. Cardinality(Family(P, D)) \in Nat /\ Cardinality(Family(P, E)) \in Nat
  BY <1>1, FS_CardinalityType
<1>6. Cardinality((Family(P, D)) \cup Family(P, E)) =
        Cardinality(Family(P, D)) + Cardinality(Family(P, E))
          - Cardinality((Family(P, D)) \cap Family(P, E))
  BY <1>1, FS_Union
<1>7. \A a, b \in Nat : a + b - 0 = a + b
  OBVIOUS
<1> QED
  BY <1>2, <1>4, <1>5, <1>6, <1>7, Zenon

\* A family of one set has its number.
LEMMA FamilyOne ==
  ASSUME NEW x, NEW P, IsFiniteSet(P[x])
  PROVE  Cardinality(Family(P, {x})) = Cardinality(P[x])
<1>1. \A t : t \in Family(P, {x}) <=> \E e \in P[x] : t = <<x, e>>
  BY FamilyMember
<1> DEFINE f == [e \in P[x] |-> <<x, e>>]
<1>2. f \in [P[x] -> Family(P, {x})]
  BY <1>1
<1>3. \A z \in Family(P, {x}) : \E e \in P[x] : f[e] = z
  BY <1>1
<1>4. \A d, e \in P[x] : f[d] = f[e] => d = e
  OBVIOUS
<1> HIDE DEF f
<1>5. Matches(f, P[x], Family(P, {x}))
  BY <1>2, <1>3, <1>4 DEF Matches
<1> QED
  BY <1>5, SameNumber

\* A sum of numbers counts what they number.
LEMMA SumCounts ==
  ASSUME NEW D, IsFiniteSet(D), NEW f \in [D -> Nat],
         NEW P, \A x \in D : IsFiniteSet(P[x]) /\ Cardinality(P[x]) = f[x]
  PROVE  FoldFunction(+, 0, f) = Cardinality(Family(P, D))
<1> DEFINE Sums(it) == it = [s \in SUBSET DOMAIN f |->
              IF s = {} THEN 0
              ELSE f[CHOOSE x \in s : TRUE] + it[s \ {CHOOSE x \in s : TRUE}]]
<1> DEFINE count == [s \in SUBSET D |-> Cardinality(Family(P, s))]
<1>1. FoldFunction(+, 0, f) = (CHOOSE it : Sums(it))[DOMAIN f]
  BY Zenon DEF FoldFunction, FoldFunctionOnSet, MapThenFoldSet
<1>2. DOMAIN f = D
  OBVIOUS
<1>3. ASSUME NEW s \in SUBSET D, NEW x \in s
      PROVE  s \ {x} \in SUBSET D /\ count[s] = f[x] + count[s \ {x}]
  <2>2. IsFiniteSet(s) /\ IsFiniteSet({x}) /\ IsFiniteSet(s \ {x})
    BY FS_Subset, FS_Singleton
  <2>3. s = {x} \cup (s \ {x}) /\ {x} \cap (s \ {x}) = {}
    OBVIOUS
  <2>4. Cardinality(Family(P, s)) = Cardinality(Family(P, {x})) + Cardinality(Family(P, s \ {x}))
    <3>1. \A y \in {x} \cup (s \ {x}) : IsFiniteSet(P[y])
      OBVIOUS
    <3> QED
      BY <2>2, <2>3, <3>1, FamilySplit
  <2>5. Cardinality(Family(P, {x})) = f[x]
    BY FamilyOne
  <2> QED
    BY <2>4, <2>5
<1>4. \A s \in SUBSET D : count[s] \in Nat
  <2>1. ASSUME NEW s \in SUBSET D
        PROVE  Cardinality(Family(P, s)) \in Nat
    BY FS_Subset, FamilyFinite, FS_CardinalityType
  <2> QED
    BY <2>1
<1>5. count[{}] = 0
  <2>1. Family(P, {}) = {}
    BY DEF Family
  <2> QED
    BY <2>1, FS_EmptySet
<1> HIDE DEF count
<1>6. Sums(count)
  <2>1. ASSUME NEW s \in SUBSET D, s # {}
        PROVE  count[s] = f[CHOOSE x \in s : TRUE] + count[s \ {CHOOSE x \in s : TRUE}]
    <3>1. (CHOOSE x \in s : TRUE) \in s
      BY <2>1
    <3> QED
      BY <1>3, <3>1
  <2>2. count = [s \in SUBSET D |-> count[s]]
    BY DEF count
  <2> QED
    BY <1>2, <1>5, <2>1, <2>2
<1>7. ASSUME NEW it, Sums(it)
      PROVE  it[D] = count[D]
  <2> DEFINE through == {n \in Nat : \A s \in SUBSET D : Cardinality(s) = n => it[s] = count[s]}
  <2>1. 0 \in through
    <3>1. \A s \in SUBSET D : Cardinality(s) = 0 => s = {}
      BY FS_Subset, FS_EmptySet
    <3>2. it[{}] = 0
      BY <1>2, <1>7
    <3> QED
      BY <1>5, <3>1, <3>2
  <2>2. ASSUME NEW n \in Nat, n \in through
        PROVE  n + 1 \in through
    <3>1. SUFFICES ASSUME NEW s \in SUBSET D, Cardinality(s) = n + 1
                   PROVE  it[s] = count[s]
      BY <2>2
    <3> DEFINE x == CHOOSE x \in s : TRUE
    <3>2. s # {}
      BY <3>1, FS_EmptySet
    <3>3. /\ x \in s /\ s \ {x} \in SUBSET D
          /\ count[s] = f[x] + count[s \ {x}]
      <4>1. x \in s
        BY <3>2
      <4> HIDE DEF x
      <4> QED BY <1>3, <4>1
    <3>4. it[s] = f[x] + it[s \ {x}]
      BY <1>2, <1>7, <3>2
    <3> HIDE DEF x
    <3>5. IsFiniteSet(s)
      BY FS_Subset
    <3>6. Cardinality(s \ {x}) = Cardinality(s) - 1
      BY <3>3, <3>5, FS_RemoveElement
    <3>7. Cardinality(s \ {x}) = n
      BY <3>1, <3>6
    <3> QED
      BY <2>2, <3>3, <3>4, <3>7
  <2>3. Nat \subseteq through
    <3> HIDE DEF through
    <3> QED BY <2>1, <2>2, Induct
  <2> QED
    BY <2>3, FS_CardinalityType
<1>8. Sums(CHOOSE it : Sums(it))
  <2> HIDE DEF Sums
  <2> QED BY <1>6, Zenon
<1>9. count[D] = Cardinality(Family(P, D))
  BY DEF count
<1> HIDE DEF Sums
<1> QED
  BY <1>1, <1>2, <1>7, <1>8, <1>9

-----------------------------------------------------------------------------
(***************************************************************************)
(* The report of a pilot.  The spans of all documents are the family of    *)
(* those of each, since a prediction is one of the pilot's documents only. *)
(***************************************************************************)

\* A pilot runs with both modules, on its cases.
PilotJobs == \A c \in Pilots : job[c] # None =>
  /\ job[c].docs = Cases
  /\ job[c].recognizer # None

\* A report is built of finitely many predictions, on the cases.
OnCases(A) == (\A a \in A : a.document \in Cases) /\ IsFiniteSet(UniqueSpans(A))

Reported == \A c \in Clients : report[c] # None =>
  \E A : OnCases(A) /\ report[c] = BuildReport(A)

\* The spans of one document.
LEMMA SpansOfDocument ==
  ASSUME NEW A, NEW d
  PROVE  UniqueSpans(OfDocument(A, d)) = {u \in UniqueSpans(A) : u[1] = d}
BY DEF UniqueSpans, OfDocument, Identity

\* Spans on the cases are counted case by case.
LEMMA CountedByCase ==
  ASSUME NEW U, IsFiniteSet(U), \A u \in U : u[1] \in Cases,
         NEW f \in [Cases -> Nat],
         \A d \in Cases : f[d] = Cardinality({u \in U : u[1] = d})
  PROVE  Cardinality(U) = FoldFunction(+, 0, f)
<1> DEFINE P == [d \in Cases |-> {u \in U : u[1] = d}]
<1>1. \A d \in Cases : IsFiniteSet(P[d]) /\ Cardinality(P[d]) = f[d]
  BY FS_Subset
<1>2. IsFiniteSet(Cases)
  BY PilotAssumption
<1> DEFINE at == [u \in U |-> <<u[1], u>>]
<1>3. Matches(at, U, Family(P, Cases))
  <2>1. at \in [U -> Family(P, Cases)]
    BY FamilyMember
  <2>2. \A t \in Family(P, Cases) : \E u \in U : at[u] = t
    BY FamilyMember
  <2>3. \A x, y \in U : at[x] = at[y] => x = y
    OBVIOUS
  <2> HIDE DEF at, P
  <2> QED
    BY <2>1, <2>2, <2>3 DEF Matches
<1> HIDE DEF P, at
<1>4. Cardinality(Family(P, Cases)) = Cardinality(U)
  BY <1>3, SameNumber
<1>5. FoldFunction(+, 0, f) = Cardinality(Family(P, Cases))
  BY <1>1, <1>2, SumCounts
<1> QED
  BY <1>4, <1>5

\* The gold spans that were found.
LEMMA TruePositivesAre ==
  ASSUME NEW gold, NEW predicted, IsFiniteSet(UniqueSpans(gold))
  PROVE  TruePositives(Metrics(gold, predicted)) =
           Cardinality(UniqueSpans(gold) \cap UniqueSpans(predicted))
<1> DEFINE m == Metrics(gold, predicted)
<1>1. /\ m.gold = Cardinality(UniqueSpans(gold))
      /\ m.recall = Ratio(Found(gold, predicted), Cardinality(UniqueSpans(gold)))
  BY DEF Metrics, Recall
<1>2. CASE m.gold = 0
  <2>1. UniqueSpans(gold) = {}
    BY <1>1, <1>2, FS_EmptySet
  <2>2. UniqueSpans(gold) \cap UniqueSpans(predicted) = {}
    BY <2>1
  <2> QED
    BY <1>2, <2>2, FS_EmptySet DEF TruePositives
<1>3. CASE m.gold # 0
  <2>1. m.recall = <<Found(gold, predicted), Cardinality(UniqueSpans(gold))>>
    BY <1>1, <1>3 DEF Ratio
  <2> QED
    BY <1>3, <2>1 DEF TruePositives, Found
<1> QED
  BY <1>2, <1>3

LEMMA GoldOnCases == OnCases(Gold)
<1>1. \A a \in Gold : a.document \in Cases
  BY PilotAssumption
<1> DEFINE spans == [a \in Gold |-> Identity(a)]
<1>2. UniqueSpans(Gold) = {spans[a] : a \in Gold}
  BY DEF UniqueSpans
<1>3. IsFiniteSet({spans[a] : a \in Gold})
  <2> HIDE DEF spans
  <2> QED BY PilotAssumption, ImageFinite
<1> QED
  BY <1>1, <1>2, <1>3 DEF OnCases

LEMMA SpansOnCases ==
  ASSUME NEW A, OnCases(A)
  PROVE  IsFiniteSet(UniqueSpans(A)) /\ \A u \in UniqueSpans(A) : u[1] \in Cases
BY DEF OnCases, UniqueSpans, Identity

\* The scores of the corpus are those of its documents.
LEMMA ReportAdds ==
  ASSUME NEW A, OnCases(A)
  PROVE  LET r == BuildReport(A)
         IN  /\ r.aggregate.gold = Summed(r.cases, LAMBDA m : m.gold)
             /\ r.aggregate.predicted = Summed(r.cases, LAMBDA m : m.predicted)
             /\ TruePositives(r.aggregate) = Summed(r.cases, TruePositives)
<1> DEFINE G == UniqueSpans(Gold)
           S == UniqueSpans(A)
           r == BuildReport(A)
           golds == [d \in Cases |-> r.cases[d].gold]
           predictions == [d \in Cases |-> r.cases[d].predicted]
           found == [d \in Cases |-> TruePositives(r.cases[d])]
<1>1. /\ IsFiniteSet(G) /\ \A u \in G : u[1] \in Cases
      /\ IsFiniteSet(S) /\ \A u \in S : u[1] \in Cases
  BY GoldOnCases, SpansOnCases
<1>2. /\ r.aggregate = Metrics(Gold, A)
      /\ \A d \in Cases : r.cases[d] = Metrics(OfDocument(Gold, d), OfDocument(A, d))
  BY DEF BuildReport, Qualified
<1> HIDE DEF r
<1>3. /\ r.aggregate.gold = Cardinality(G) /\ r.aggregate.predicted = Cardinality(S)
      /\ TruePositives(r.aggregate) = Cardinality(G \cap S)
  BY <1>1, <1>2, TruePositivesAre DEF Metrics
<1>4. ASSUME NEW d \in Cases
      PROVE  /\ golds[d] = Cardinality({u \in G : u[1] = d})
             /\ predictions[d] = Cardinality({u \in S : u[1] = d})
             /\ found[d] = Cardinality({u \in G \cap S : u[1] = d})
  <2>1. /\ UniqueSpans(OfDocument(Gold, d)) = {u \in G : u[1] = d}
        /\ UniqueSpans(OfDocument(A, d)) = {u \in S : u[1] = d}
    BY SpansOfDocument
  <2>2. IsFiniteSet(UniqueSpans(OfDocument(Gold, d)))
    BY <1>1, <2>1, FS_Subset
  <2>3. {u \in G : u[1] = d} \cap {u \in S : u[1] = d} = {u \in G \cap S : u[1] = d}
    OBVIOUS
  <2> DEFINE m == Metrics(OfDocument(Gold, d), OfDocument(A, d))
  <2>4. r.cases[d] = m
    BY <1>2
  <2>5. TruePositives(m) = Cardinality({u \in G \cap S : u[1] = d})
    BY <2>1, <2>2, <2>3, TruePositivesAre
  <2>6. m.gold = Cardinality({u \in G : u[1] = d})
    BY <2>1 DEF Metrics
  <2>7. m.predicted = Cardinality({u \in S : u[1] = d})
    BY <2>1 DEF Metrics
  <2> HIDE DEF m
  <2> QED
    BY <2>4, <2>5, <2>6, <2>7
<1>5. IsFiniteSet(G \cap S) /\ \A u \in G \cap S : u[1] \in Cases
  BY <1>1, FS_Intersection
<1>6. ASSUME NEW U, IsFiniteSet(U), NEW d
      PROVE  Cardinality({u \in U : u[1] = d}) \in Nat
  BY <1>6, FS_Subset, FS_CardinalityType
<1>7. golds \in [Cases -> Nat] /\ predictions \in [Cases -> Nat] /\ found \in [Cases -> Nat]
  <2>1. ASSUME NEW d \in Cases
        PROVE  golds[d] \in Nat /\ predictions[d] \in Nat /\ found[d] \in Nat
    <3>1. /\ Cardinality({u \in G : u[1] = d}) \in Nat
          /\ Cardinality({u \in S : u[1] = d}) \in Nat
          /\ Cardinality({u \in G \cap S : u[1] = d}) \in Nat
      BY <1>1, <1>5, <1>6
    <3>2. /\ golds[d] = Cardinality({u \in G : u[1] = d})
          /\ predictions[d] = Cardinality({u \in S : u[1] = d})
          /\ found[d] = Cardinality({u \in G \cap S : u[1] = d})
      BY <1>4
    <3> HIDE DEF golds, predictions, found, G, S
    <3> QED
      BY <3>1, <3>2
  <2>2. /\ golds = [d \in Cases |-> golds[d]]
        /\ predictions = [d \in Cases |-> predictions[d]]
        /\ found = [d \in Cases |-> found[d]]
    OBVIOUS
  <2> HIDE DEF golds, predictions, found
  <2> QED
    BY <2>1, <2>2
<1> HIDE DEF G, S, golds, predictions, found
<1>8. /\ Cardinality(G) = FoldFunction(+, 0, golds)
      /\ Cardinality(S) = FoldFunction(+, 0, predictions)
      /\ Cardinality(G \cap S) = FoldFunction(+, 0, found)
  BY <1>1, <1>4, <1>5, <1>7, CountedByCase
<1>9. /\ Summed(r.cases, LAMBDA m : m.gold) = FoldFunction(+, 0, golds)
      /\ Summed(r.cases, LAMBDA m : m.predicted) = FoldFunction(+, 0, predictions)
      /\ Summed(r.cases, TruePositives) = FoldFunction(+, 0, found)
  BY DEF Summed, golds, predictions, found
<1> QED
  BY <1>3, <1>8, <1>9 DEF r

\* A pilot that is about to return has predictions on its cases, finitely many.
LEMMA AnswerOnCases ==
  ASSUME ParseInv, PilotJobs, NEW c \in Pilots, stage[c] = "finally", ending[c] = "return"
  PROVE  OnCases(answer[c])
<1> DEFINE A == answer[c]
           r == job[c].recognizer
<1>1. c \in Clients
  BY PilotAssumption
<1>2. job[c] # None
  BY <1>1, JobHeld
<1>3. r \in Recognizers /\ job[c].docs = Cases
  BY <1>1, <1>2, JobTyped DEF PilotJobs
<1>4. Stateless!Correct(job[c], A)
  BY <1>1 DEF ParseInv, Working, AnswersRight
<1>5. /\ \A t \in A : t.document \in Cases
      /\ \A d \in Cases : Stateless!SpansAt(A, d) \in Stateless!Findings(r, d)
  BY <1>3, <1>4 DEF Stateless!Correct
<1>6. ASSUME NEW d \in Cases
      PROVE  IsFiniteSet(Stateless!SpansAt(A, d))
  <2>1. PICK found \in Spotted[r][d] :
          Stateless!SpansAt(A, d) = IF found = Unavailable THEN {} ELSE found
    BY <1>3, <1>5, ModulesAssumption DEF Stateless!Findings, Modules
  <2>2. d \in Docs
    BY PilotAssumption
  <2> QED
    BY <1>3, <2>1, <2>2, ListAssumption, FS_EmptySet
<1> DEFINE P == [d \in Cases |-> Stateless!SpansAt(A, d)]
<1>7. IsFiniteSet(Family(P, Cases))
  <2>1. IsFiniteSet(Cases) /\ \A d \in Cases : IsFiniteSet(P[d])
    BY <1>6, PilotAssumption
  <2> HIDE DEF P
  <2> QED BY <2>1, FamilyFinite
<1>8. UniqueSpans(A) \subseteq Family(P, Cases)
  <2>1. ASSUME NEW a \in A
        PROVE  \E d \in Cases : \E e \in P[d] : Identity(a) = <<d, e>>
    <3>1. a.document \in Cases
      BY <1>5
    <3>2. a.span \in P[a.document]
      BY <3>1 DEF Stateless!SpansAt
    <3> QED
      BY <3>1, <3>2 DEF Identity
  <2> HIDE DEF P
  <2> QED BY <2>1, FamilyMember DEF UniqueSpans
<1> HIDE DEF P
<1> QED
  BY <1>5, <1>7, <1>8, FS_Subset DEF OnCases

LEMMA PilotJobsStable ==
  ASSUME ParseInv, PilotJobs, [PilotNext]_pilotVars
  PROVE  PilotJobs'
<1>1. job \in [Clients -> Job \cup {None}]
  BY DEF ParseInv, ParseTypeOK
<1>2. CASE UNCHANGED pilotVars
  BY <1>2 DEF pilotVars, allVars, parseVars, PilotJobs
<1>3. ASSUME NEW c \in Clients, StartPilot(c)
      PROVE  PilotJobs'
  <2>1. PICK j \in PilotJob : job' = [job EXCEPT ![c] = j]
    BY <1>3 DEF StartPilot, StartParse
  <2> QED
    BY <1>1, <2>1, PilotAssumption DEF PilotJob, PilotJobs
<1>4. ASSUME NEW c \in Clients, StartOther(c)
      PROVE  PilotJobs'
  <2>1. c \notin Pilots /\ \E j \in Job : job' = [job EXCEPT ![c] = j]
    BY <1>4 DEF StartOther, StartParse
  <2> QED
    BY <1>1, <2>1, PilotAssumption DEF PilotJobs
<1>5. ASSUME NEW c \in Clients, Work(c) \/ CleanUp(c)
      PROVE  PilotJobs'
  <2>1. job' = job \/ job' = [job EXCEPT ![c] = None]
    BY <1>5 DEF Work, AddTexts, StartRecognizer, StartResolver, RunModules, ReadBack,
                RaiseInside, Die, CleanUp, Leave
  <2> QED
    BY <1>1, <2>1, PilotAssumption DEF PilotJobs
<1> QED
  BY <1>2, <1>3, <1>4, <1>5 DEF PilotNext, EndPilot, EndOther

LEMMA ReportStable ==
  ASSUME ParseInv, PilotJobs, Reported, DOMAIN report = Clients, [PilotNext]_pilotVars
  PROVE  Reported'
<1>1. CASE UNCHANGED report
  BY <1>1 DEF Reported, OnCases, BuildReport, Metrics
<1>2. ASSUME NEW c \in Clients, report' = [report EXCEPT ![c] = None]
      PROVE  Reported'
  BY <1>2 DEF Reported
<1>3. ASSUME NEW c \in Clients, EndPilot(c)
      PROVE  Reported'
  <2>1. CASE report' = [report EXCEPT ![c] = None]
    BY <1>2, <2>1
  <2>2. CASE report' # [report EXCEPT ![c] = None]
    <3>1. /\ c \in Pilots /\ stage[c] = "finally" /\ ending[c] = "return"
          /\ report' = [report EXCEPT ![c] = BuildReport(answer[c])]
      BY <1>3, <2>2 DEF EndPilot, CleanUp
    <3>2. OnCases(answer[c])
      BY <3>1, AnswerOnCases
    <3> QED
      BY <3>1, <3>2 DEF Reported
  <2> QED
    BY <2>1, <2>2
<1> QED
  BY <1>1, <1>2, <1>3 DEF PilotNext, pilotVars, StartPilot, StartOther, Work, EndOther

\* In every report of a pilot, whatever its documents and the predictions for them,
\* the scores of the corpus are those of its documents together: build_report
\* compares each span with its document, so that none stands in for another's.
THEOREM AggregatesAlwaysAdd == PilotSpec => []AggregateOfDocuments
<1> DEFINE Functional == DOMAIN report = Clients
           Inv == PilotJobs /\ Reported /\ Functional
<1>1. PilotInit => Inv
  BY PilotAssumption DEF PilotInit, ParseInit, PilotJobs, Reported
<1>2. ParseInv /\ Inv /\ [PilotNext]_pilotVars => Inv'
  <2>1. SUFFICES ASSUME ParseInv, Inv, [PilotNext]_pilotVars
                 PROVE  Inv'
    OBVIOUS
  <2>2. Functional'
    BY <2>1 DEF PilotNext, pilotVars, StartPilot, StartOther, Work, EndPilot, EndOther
  <2> QED
    BY <2>1, <2>2, PilotJobsStable, ReportStable
<1>3. Reported => AggregateOfDocuments
  BY ReportAdds DEF Reported, AggregateOfDocuments
<1> QED
  BY <1>1, <1>2, <1>3, PilotsParse, ParseAlways, PTL DEF PilotSpec
=============================================================================
