----------------------- MODULE ProjectAnnotationsProofs -----------------------
(***************************************************************************)
(* Proofs about ProjectAnnotations, for any number of scripts, files and   *)
(* labels, overlapping as they like and stopped at any step.               *)
(*                                                                         *)
(* That a label shows one file whole comes from its rows: the markers and  *)
(* references of a document that no two runs held at a time are those of   *)
(* one commit (WholeInv), because a run that finds the marker does not     *)
(* take the document up again (GuardInv).  That a load has linked what it  *)
(* should is carried from its recognizer to its resolver by the documents  *)
(* it hands over (LinkingInv): a reference that is added to one of them    *)
(* later means that two runs held the document.                            *)
(***************************************************************************)
EXTENDS ProjectAnnotations, NaturalsInduction, WellFoundedInduction, SequenceTheorems, TLAPS

ViewSteps == {"view_open", "view_insert", "view_recognizer", "view_resolver", "view_documents"}

Stages == {"ready", "lookup", "insert", "texts", "spans", "recognizing", "places",
           "resolving", "view"}

\* A script in its stages, and the call it makes in each.
ControlOf(c) ==
  /\ pc[c] \in Steps \cup ViewSteps \cup {"idle"}
  /\ stage[c] \in Stages
  /\ home[c] # None => home[c] \in Projects
  /\ stage[c] # "ready" => script[c] \in Scripts[c]
  /\ stage[c] \in {"recognizing", "resolving"} <=> pc[c] \in Steps
  /\ pc[c] \in ViewSteps => stage[c] = "view"
  /\ stage[c] \in {"texts", "places", "resolving"} => script[c].kind = "load"
  /\ stage[c] \in {"spans", "recognizing"} => script[c].kind \in {"load", "run"}
  /\ stage[c] \notin {"ready", "lookup", "insert"} => home[c] \in Projects
  /\ stage[c] = "recognizing" =>
       call[c] = [op |-> "recognize", project |-> home[c],
                  module |-> ModuleOf(script[c]), tag |-> script[c].tag]
  /\ stage[c] = "resolving" =>
       call[c] = [op |-> "resolve", project |-> home[c],
                  module |-> ResolverOf[script[c].tag], tag |-> script[c].tag]

Shape ==
  /\ DOMAIN pc = Clients /\ DOMAIN call = Clients /\ DOMAIN items = Clients
  /\ DOMAIN batch = Clients /\ DOMAIN seen = Clients /\ DOMAIN outcome = Clients
  /\ DOMAIN runs = Clients /\ DOMAIN script = Clients /\ DOMAIN stage = Clients
  /\ DOMAIN home = Clients /\ DOMAIN handed = Clients /\ DOMAIN projects = Projects

ControlInv == Shape /\ \A c \in Clients : ControlOf(c)

\* One client at a time creates the project, unless two have raced.
CreationInv == ~raced =>
  /\ \A b, c \in Clients : stage[b] = "insert" /\ stage[c] = "insert" => b = c
  /\ (\E c \in Clients : stage[c] = "insert") => Live = {}
  /\ \A p, q \in Live : p = q

\* A document that is gone went with its project, and does not come back.
Spared(d) == d \in documents \/ projects[HomeOf[d]] = "deleted"

RowsInv ==
  /\ documents \subseteq Docs
  /\ \A d \in documents : projects[HomeOf[d]] = "live"
  /\ \A x \in references : x.document \in documents /\ Recognized(x.document, x.recognizer)

\* A marker found in a batch is that of a run that held the batch's document too.
GuardInv ==
  /\ \A c \in Clients : \A d \in batch[c] :
       pc[c] = "commit" /\ call[c].op = "recognize" /\ Recognized(d, call[c].module)
         => <<d, call[c].module>> \in contended
  /\ \A b, c \in Clients : \A d \in batch[b] \cap batch[c] :
       /\ b # c /\ pc[b] = "commit" /\ pc[c] = "commit"
       /\ call[b].op = "recognize" /\ call[c].op = "recognize"
       /\ call[b].module = call[c].module
       => <<d, call[c].module>> \in contended

SpansOf(d, r) == {x.span : x \in {y \in references : y.document = d /\ y.recognizer = r}}

\* What a label's recognizer has left of a document is what one file says.
WholeInv == \A d \in Docs, label \in Labels :
  Recognized(d, RecognizerOf[label]) /\ <<d, RecognizerOf[label]>> \notin contended =>
    \E file \in Files : /\ Known(file, TextOf[d])
                        /\ SpansOf(d, RecognizerOf[label]) = GivenSpans(file, TextOf[d])

\* Every place is one that a file gave.
PlacesInv == \A y \in referents : y.feature \in Places(y.reference.document, y.reference.span)

\* The documents of a load, which are those of its project.
OfProject(load) == \A d \in load.docs :
  d \in Docs /\ HomeOf[d] = load.project /\ Spared(d)

\* Every text the file knows has been processed.
Processed(load) == \A d \in load.docs \cap documents :
  Known(load.file, TextOf[d]) => Recognized(d, RecognizerOf[load.tag])

\* The references that the load's resolver should see.
Due(load) == {x \in references :
  /\ x.document \in load.docs
  /\ x.recognizer = RecognizerOf[load.tag]
  /\ Known(load.file, TextOf[x.document])
  /\ <<x.document, x.recognizer>> \notin contended}

LinkedIn(load, S) == \A x \in S :
  GivenPlace(load.file, TextOf[x.document], x.span) # Unavailable
    => Resolved(x, ResolverOf[load.tag])

\* A load whose recognizer works on the documents it has loaded.
Reading(c) == [file |-> script[c].file, tag |-> script[c].tag,
               project |-> home[c], docs |-> items[c]]

ItemSteps == {"ensure", "register", "filter", "commit", "tag", "tag_insert", "tag_load",
              "tag_write"}
TagSteps == {"tag", "tag_insert", "tag_load", "tag_write"}

MarkingOf(c) == stage[c] = "recognizing" /\ script[c].kind = "load" =>
  /\ pc[c] \in ItemSteps => OfProject(Reading(c))
  /\ pc[c] = "commit" =>
       \A d \in items[c] \cap documents : d \in batch[c] \/ Recognized(d, call[c].module)
  /\ pc[c] \in TagSteps => Processed(Reading(c))

MarkingInv == \A c \in Clients : MarkingOf(c)

LinkingOf(c) ==
  /\ stage[c] \in {"places", "resolving"} => OfProject(Loaded(c)) /\ Processed(Loaded(c))
  /\ stage[c] = "resolving" =>
       /\ pc[c] \in {"ensure", "register", "filter"} => Due(Loaded(c)) \subseteq items[c]
       /\ pc[c] = "commit" =>
            \A x \in Due(Loaded(c)) : x \in batch[c] \/ Resolved(x, call[c].module)
       /\ pc[c] \in TagSteps => LinkedIn(Loaded(c), Due(Loaded(c)))

LinkingInv == \A c \in Clients : LinkingOf(c)

LoadsInv == \A load \in loads :
  /\ load.file \in Files /\ load.tag \in Labels /\ load.project \in Projects
  /\ OfProject(load)
  /\ Processed(load)
  /\ LinkedIn(load, Due(load))

AnnotationsInv ==
  /\ ControlInv
  /\ CreationInv
  /\ RowsInv
  /\ GuardInv
  /\ WholeInv
  /\ PlacesInv
  /\ ReferentsMarked
  /\ MarkingInv
  /\ LinkingInv
  /\ LoadsInv

-----------------------------------------------------------------------------
(***************************************************************************)
(* What a file says of a text.                                             *)
(***************************************************************************)

\* A set of positions has a first one.
LEMMA FirstExists ==
  ASSUME NEW S \in SUBSET Nat, S # {}
  PROVE  First(S) \in S
<1> DEFINE less == {ss \in Nat \X Nat : ss[1] < ss[2]}
<1>1. IsWellFoundedOn(less, Nat)
  BY NatLessThanWellFounded DEF OpToRel
<1> HIDE DEF less
<1>2. PICK i \in S : \A j \in S : <<j, i>> \notin less
  BY <1>1, WFMin
<1>3. ASSUME NEW j \in S
      PROVE  i <= j
  <2>1. i \in Nat /\ j \in Nat
    OBVIOUS
  <2>2. ~(j < i)
    BY <1>2, <2>1 DEF less
  <2> QED
    BY <2>1, <2>2
<1>4. \E i_1 \in S : \A j \in S : i_1 <= j
  BY <1>3
<1> QED
  BY <1>4 DEF First

ToponymRow == [span : Spans, place : Features \cup {Unavailable}]
EntryRow == [text : Texts, toponyms : Seq(ToponymRow)]

\* The entry of a text that the file knows is one of the file's.
LEMMA EntryFound ==
  ASSUME NEW file \in Files, NEW text, Known(file, text)
  PROVE  /\ EntryOf(file, text).text = text
         /\ EntryOf(file, text).toponyms \in Seq(ToponymRow)
<1> DEFINE S == {i \in DOMAIN Entries[file] : Entries[file][i].text = text}
<1>1. Entries[file] \in Seq(EntryRow)
  BY EntriesAssumption DEF EntryRow, ToponymRow
<1>2. DOMAIN Entries[file] \subseteq Nat
  BY <1>1
<1>3. S \in SUBSET Nat /\ S # {}
  BY <1>2 DEF Known
<1>4. First(S) \in S
  BY <1>3, FirstExists
<1>5. EntryOf(file, text) = Entries[file][First(S)]
  BY DEF EntryOf
<1> HIDE DEF S
<1>6. First(S) \in DOMAIN Entries[file] /\ Entries[file][First(S)].text = text
  BY <1>4 DEF S
<1>7. Entries[file][First(S)] \in EntryRow
  <2>1. First(S) \in 1..Len(Entries[file])
    BY <1>1, <1>6
  <2> QED
    BY <1>1, <2>1, ElementOfSeq
<1> QED
  BY <1>5, <1>6, <1>7 DEF EntryRow, ToponymRow

\* A file answers with spans for the texts it knows and not at all for others.
LEMMA SpansGiven ==
  ASSUME NEW file \in Files, NEW text
  PROVE  /\ Known(file, text) => GivenSpans(file, text) \in SUBSET Spans
         /\ GivenSpans(file, text) # Unavailable <=> Known(file, text)
<1>1. CASE Known(file, text)
  <2> DEFINE toponyms == EntryOf(file, text).toponyms
  <2>1. toponyms \in Seq(ToponymRow)
    BY <1>1, EntryFound
  <2>2. \A i \in DOMAIN toponyms : toponyms[i].span \in Spans
    <3> HIDE DEF toponyms
    <3>1. ASSUME NEW i \in DOMAIN toponyms
          PROVE  toponyms[i] \in ToponymRow
      <4>1. i \in 1..Len(toponyms)
        BY <2>1
      <4> QED
        BY <2>1, <4>1, ElementOfSeq
    <3> QED
      BY <3>1 DEF ToponymRow
  <2>3. GivenSpans(file, text) \in SUBSET Spans
    BY <1>1, <2>2 DEF GivenSpans
  <2> QED
    BY <1>1, <2>3, PredictionAssumption
<1>2. CASE ~Known(file, text)
  BY <1>2 DEF GivenSpans
<1> QED
  BY <1>1, <1>2

-----------------------------------------------------------------------------
(***************************************************************************)
(* The steps of a call.                                                    *)
(***************************************************************************)

\* Only this client moves.
OthersStay(c) == \A b \in Clients \ {c} :
  pc'[b] = pc[b] /\ call'[b] = call[b] /\ items'[b] = items[b] /\ batch'[b] = batch[b]

\* The variables of the calls keep their shape.
CallsFit ==
  /\ DOMAIN pc' = Clients /\ DOMAIN call' = Clients /\ DOMAIN items' = Clients
  /\ DOMAIN batch' = Clients /\ DOMAIN seen' = Clients /\ DOMAIN outcome' = Clients
  /\ DOMAIN runs' = Clients

Keeps == UNCHANGED <<projects, documents, resultVars>> /\ contended \subseteq contended'

\* A step that changes no item.
Passes(c) == items'[c] = items[c] /\ batch'[c] = batch[c] /\ call'[c] = call[c] /\ Keeps

LEMMA ReturnFrame ==
  ASSUME ControlInv, NEW c \in Clients, NEW result, Return(c, result)
  PROVE  OthersStay(c) /\ CallsFit /\ pc'[c] = "idle" /\ outcome'[c] = result
         /\ contended' = contended /\ batch'[c] = {}
BY DEF ControlInv, Shape, Return, OthersStay, CallsFit

LEMMA FailFrame ==
  ASSUME ControlInv, NEW c \in Clients, Fail(c)
  PROVE  OthersStay(c) /\ CallsFit /\ pc'[c] = "idle" /\ outcome'[c] = "failed" /\ Keeps
         /\ batch'[c] = {}
BY ReturnFrame DEF Fail, Keeps, dbVars, resultVars

\* A step to another one of the call.
LEMMA GotoFrame ==
  ASSUME ControlInv, NEW c \in Clients, NEW step, Goto(c, step), UNCHANGED callVars
  PROVE  /\ OthersStay(c) /\ CallsFit /\ pc'[c] = step
         /\ items'[c] = items[c] /\ batch'[c] = batch[c] /\ call'[c] = call[c]
         /\ contended' = contended
BY DEF ControlInv, Shape, Goto, callVars, OthersStay, CallsFit

LEMMA ReadContextFrame ==
  ASSUME ControlInv, NEW c \in Clients, NEW step, NEW tag, NEW present, NEW missing,
         ReadContext(c, step, tag, present, missing)
  PROVE  /\ OthersStay(c) /\ CallsFit /\ Passes(c)
         /\ pc[c] = step /\ pc'[c] \in {present, missing}
<1>1. pc[c] = step /\ (Goto(c, present) \/ Goto(c, missing)) /\ UNCHANGED callVars /\ Keeps
  BY DEF ReadContext, Keeps, dbVars, resultVars, callVars
<1> QED
  BY <1>1, GotoFrame DEF Passes

LEMMA InsertContextFrame ==
  ASSUME ControlInv, NEW c \in Clients, NEW step, NEW tag, NEW next,
         InsertContext(c, step, tag, next)
  PROVE  /\ OthersStay(c) /\ CallsFit /\ Keeps
         /\ pc[c] = step
         /\ \/ pc'[c] = next /\ Passes(c)
            \/ pc'[c] = "idle" /\ outcome'[c] = "failed"
<1>1. pc[c] = step
  BY DEF InsertContext
<1>2. CASE Fail(c)
  BY <1>1, <1>2, FailFrame
<1>3. CASE Goto(c, next) /\ UNCHANGED <<projects, documents, modules, resultVars, callVars>>
  <2>1. Goto(c, next) /\ UNCHANGED callVars /\ Keeps
    BY <1>3 DEF Keeps, callVars
  <2> QED
    BY <1>1, <2>1, GotoFrame DEF Passes
<1> QED
  BY <1>2, <1>3 DEF InsertContext

\* What a module stores, and for which of the items of its batch.
Commits(c) ==
  /\ pc[c] = "commit" /\ pc'[c] = "tag"
  /\ UNCHANGED <<projects, documents, callVars>>
  /\ \/ /\ script[c].kind = "load" /\ call[c].op = "recognize"
        /\ LET found == [d \in batch[c] |-> GivenSpans(script[c].file, TextOf[d])]
               predicted == {d \in batch[c] : found[d] # Unavailable}
           IN predicted \subseteq documents /\ InsertRecognitions(c, predicted, found)
     \/ /\ script[c].kind = "load" /\ call[c].op = "resolve"
        /\ LET place == [x \in batch[c] |->
                           GivenPlace(script[c].file, TextOf[x.document], x.span)]
               predicted == {x \in batch[c] : place[x] # Unavailable}
           IN /\ predicted \subseteq references /\ \A x \in predicted : place[x] \in Installed
              /\ InsertResolutions(c, predicted, place)
     \/ /\ script[c].kind # "load" /\ call[c].op = "recognize"
        /\ \E predicted \in SUBSET (batch[c] \cap documents) :
             \E found : InsertRecognitions(c, predicted, found)

LEMMA InsertFrame ==
  ASSUME ControlInv, NEW c \in Clients, NEW predicted, NEW found,
         InsertRecognitions(c, predicted, found) \/ InsertResolutions(c, predicted, found)
  PROVE  /\ OthersStay(c) /\ CallsFit /\ pc'[c] = "tag"
         /\ UNCHANGED <<projects, documents, callVars>>
<1>1. Goto(c, "tag") /\ UNCHANGED callVars /\ UNCHANGED <<projects, documents>>
  BY DEF InsertRecognitions, InsertResolutions
<1> QED
  BY <1>1, GotoFrame

\* The path of a call: from one of its steps to a later one, or to its end.
Path(c) ==
  \/ pc'[c] = "idle" /\ outcome'[c] = "failed" /\ Keeps
  \/ pc'[c] = "idle" /\ outcome'[c] = "ok" /\ Keeps /\ pc[c] = "tag_write"
  \/ pc[c] \in {"open", "open_insert"} /\ pc'[c] \in {"open_insert", "load"} /\ Passes(c)
  \/ LoadDocuments(c) /\ pc'[c] = "ensure"
  \/ pc[c] \in {"ensure", "register"} /\ pc'[c] \in {"register", "filter"} /\ Passes(c)
  \/ Filter(c) /\ pc'[c] \in {"tag", "commit"}
  \/ Commits(c)
  \/ pc[c] \in TagSteps /\ pc'[c] \in TagSteps /\ Passes(c)

LEMMA StorePath ==
  ASSUME ControlInv, NEW c \in Clients, StoreStep(c), stage[c] \in {"recognizing", "resolving"}
  PROVE  Path(c) /\ OthersStay(c) /\ CallsFit
<1>0. /\ pc[c] \in Steps
      /\ stage[c] = "recognizing" => call[c].op = "recognize"
      /\ stage[c] = "resolving" => call[c].op = "resolve" /\ script[c].kind = "load"
  <2>1. ControlOf(c)
    BY DEF ControlInv
  <2>2. pc[c] \in Steps
    BY <2>1 DEF ControlOf
  <2>3. stage[c] = "recognizing" => call[c].op = "recognize"
    BY <2>1 DEF ControlOf
  <2>4. stage[c] = "resolving" => call[c].op = "resolve" /\ script[c].kind = "load"
    BY <2>1 DEF ControlOf
  <2> QED
    BY <2>2, <2>3, <2>4
<1>1. ASSUME Fail(c)
      PROVE  Path(c) /\ OthersStay(c) /\ CallsFit
  BY <1>1, FailFrame DEF Path
<1>2. CASE script[c].kind = "load" /\ pc[c] = "commit"
  <2>1. CASE CommitGivenSpans(c)
    <3> DEFINE found == [d \in batch[c] |-> GivenSpans(script[c].file, TextOf[d])]
               predicted == {d \in batch[c] : found[d] # Unavailable}
    <3>1. \/ predicted \subseteq documents /\ InsertRecognitions(c, predicted, found)
          \/ Fail(c)
      BY <2>1 DEF CommitGivenSpans
    <3>2. call[c].op = "recognize"
      BY <2>1 DEF CommitGivenSpans
    <3>3. CASE predicted \subseteq documents /\ InsertRecognitions(c, predicted, found)
      <4>1. /\ OthersStay(c) /\ CallsFit /\ pc'[c] = "tag"
            /\ UNCHANGED <<projects, documents, callVars>>
        BY <3>3, InsertFrame
      <4>2. Commits(c)
        BY <1>2, <3>2, <3>3, <4>1 DEF Commits
      <4> QED
        BY <4>1, <4>2 DEF Path
    <3> QED
      BY <1>1, <3>1, <3>3
  <2>2. CASE CommitGivenPlaces(c)
    <3> DEFINE place == [x \in batch[c] |-> GivenPlace(script[c].file, TextOf[x.document], x.span)]
               predicted == {x \in batch[c] : place[x] # Unavailable}
    <3>1. \/ /\ predicted \subseteq references /\ \A x \in predicted : place[x] \in Installed
             /\ InsertResolutions(c, predicted, place)
          \/ Fail(c)
      BY <2>2 DEF CommitGivenPlaces
    <3>2. call[c].op = "resolve"
      BY <2>2 DEF CommitGivenPlaces
    <3>3. CASE /\ predicted \subseteq references /\ \A x \in predicted : place[x] \in Installed
               /\ InsertResolutions(c, predicted, place)
      <4>1. /\ OthersStay(c) /\ CallsFit /\ pc'[c] = "tag"
            /\ UNCHANGED <<projects, documents, callVars>>
        BY <3>3, InsertFrame
      <4>2. Commits(c)
        BY <1>2, <3>2, <3>3, <4>1 DEF Commits
      <4> QED
        BY <4>1, <4>2 DEF Path
    <3> QED
      BY <1>1, <3>1, <3>3
  <2> QED
    BY <1>2, <2>1, <2>2 DEF StoreStep
<1>3. CASE ~(script[c].kind = "load" /\ pc[c] = "commit")
  <2>1. CASE OpenContext(c)
    BY <2>1, ReadContextFrame DEF OpenContext, Path
  <2>2. CASE OpenInsert(c)
    <3>1. InsertContext(c, "open_insert", Latest, "load")
      BY <2>2 DEF OpenInsert
    <3> QED
      BY <3>1, InsertContextFrame DEF Path
  <2>3. CASE LoadDocuments(c)
    BY <2>3 DEF LoadDocuments, Goto, ControlInv, Shape, Path, OthersStay, CallsFit
  <2>4. CASE EnsureModule(c)
    <3>1. /\ pc[c] = "ensure" /\ (Goto(c, "filter") \/ Goto(c, "register"))
          /\ UNCHANGED callVars /\ Keeps
      BY <2>4 DEF EnsureModule, Keeps, dbVars, resultVars, callVars
    <3> QED
      BY <3>1, GotoFrame DEF Path, Passes
  <2>5. CASE RegisterModule(c) /\ ~Fail(c)
    <3>1. /\ pc[c] = "register" /\ Goto(c, "filter") /\ UNCHANGED callVars /\ Keeps
      BY <2>5 DEF RegisterModule, Keeps, callVars
    <3> QED
      BY <3>1, GotoFrame DEF Path, Passes
  <2>6. CASE Filter(c)
    <3>1. pc'[c] \in {"tag", "commit"}
      BY <2>6 DEF Filter, Goto, ControlInv, Shape
    <3> QED
      BY <2>6, <3>1 DEF Filter, Goto, ControlInv, Shape, Path, OthersStay, CallsFit
  <2>7. CASE CommitRecognition(c) /\ ~Fail(c)
    <3>1. pc[c] = "commit" /\ call[c].op = "recognize"
      BY <2>7 DEF CommitRecognition
    <3>2. PICK predicted \in SUBSET (batch[c] \cap documents) :
                 \E found : InsertRecognitions(c, predicted, found)
      BY <2>7 DEF CommitRecognition
    <3>3. PICK found : InsertRecognitions(c, predicted, found)
      BY <3>2
    <3>4. /\ OthersStay(c) /\ CallsFit /\ pc'[c] = "tag"
          /\ UNCHANGED <<projects, documents, callVars>>
      BY <3>3, InsertFrame
    <3>5. Commits(c)
      BY <1>3, <3>1, <3>2, <3>4 DEF Commits
    <3> QED
      BY <3>4, <3>5 DEF Path
  <2>8. CASE CommitResolution(c)
    BY <1>0, <1>3, <2>8 DEF CommitResolution
  <2>9. CASE TagContext(c)
    BY <2>9, ReadContextFrame DEF TagContext, Path, TagSteps
  <2>10. CASE TagInsert(c)
    <3>1. InsertContext(c, "tag_insert", call[c].tag, "tag_load")
      BY <2>10 DEF TagInsert
    <3> QED
      BY <3>1, InsertContextFrame DEF Path, TagSteps
  <2>11. CASE LoadContext(c) /\ ~Fail(c)
    BY <2>11 DEF LoadContext, Goto, ControlInv, Shape, Path, OthersStay, CallsFit, TagSteps, Passes,
                 Keeps, dbVars, resultVars
  <2>12. CASE WriteContext(c) /\ ~Fail(c)
    <3>1. /\ pc[c] = "tag_write" /\ Return(c, "ok")
          /\ UNCHANGED <<projects, documents, resultVars>>
      BY <2>12 DEF WriteContext
    <3>2. Keeps
      BY <3>1, ReturnFrame DEF Keeps
    <3> QED
      BY <3>1, <3>2, ReturnFrame DEF Path
  <2> QED
    BY <1>1, <1>3, <2>1, <2>2, <2>3, <2>4, <2>5, <2>6, <2>7, <2>8, <2>9, <2>10, <2>11, <2>12
       DEF StoreStep, ClientStep
<1> QED
  BY <1>2, <1>3

-----------------------------------------------------------------------------
(***************************************************************************)
(* The scripts and the stages they pass.                                   *)
(***************************************************************************)

\* Only this client's script moves.
OthersWait(c) ==
  /\ OthersStay(c)
  /\ \A b \in Clients \ {c} : /\ script'[b] = script[b] /\ stage'[b] = stage[b]
                              /\ home'[b] = home[b] /\ handed'[b] = handed[b]

ScriptsFit ==
  DOMAIN script' = Clients /\ DOMAIN stage' = Clients /\ DOMAIN home' = Clients
  /\ DOMAIN handed' = Clients

\* A client whose script moved alone leaves the others where they were.
LEMMA ControlKept ==
  ASSUME ControlInv, NEW c \in Clients, OthersWait(c), CallsFit, ScriptsFit,
         DOMAIN projects' = Projects, ControlOf(c)'
  PROVE  ControlInv'
<1>1. Shape'
  BY DEF CallsFit, ScriptsFit, Shape
<1>2. ASSUME NEW b \in Clients \ {c}
      PROVE  ControlOf(b)'
  <2>1. ControlOf(b)
    BY DEF ControlInv
  <2>2. /\ pc'[b] = pc[b] /\ call'[b] = call[b] /\ script'[b] = script[b]
        /\ stage'[b] = stage[b] /\ home'[b] = home[b]
    BY DEF OthersWait, OthersStay
  <2> QED
    BY <2>1, <2>2 DEF ControlOf
<1> QED
  BY <1>1, <1>2 DEF ControlInv

\* A client whose call did not move, and its script only by a stage.
LEMMA CallsStay ==
  ASSUME ControlInv, UNCHANGED <<pc, callVars>>, NEW c \in Clients
  PROVE  OthersStay(c) /\ CallsFit
BY DEF ControlInv, Shape, callVars, OthersStay, CallsFit

\* The stages that opening a project leads to.
LEMMA OpeningStage ==
  ASSUME NEW s \in Script
  PROVE  /\ AfterOpening(s) \in {"view", "spans", "texts"}
         /\ AfterOpening(s) = "texts" => s.kind = "load"
         /\ AfterOpening(s) = "spans" => s.kind \in {"load", "run"}
BY DEF AfterOpening, Script

\* A script is one that its client may run.
LEMMA ScriptKnown ==
  ASSUME ControlInv, NEW c \in Clients, stage[c] # "ready"
  PROVE  /\ script[c] \in Script
         /\ script[c].kind = "load" => script[c].file \in Files /\ script[c].tag \in Labels
         /\ script[c].kind = "run" => \A label \in Labels : script[c].module # RecognizerOf[label]
<1>1. script[c] \in Scripts[c]
  BY DEF ControlInv, ControlOf
<1>2. script[c] \in Script
  BY <1>1, ScriptAssumption
<1> QED
  BY <1>1, <1>2, ScriptAssumption DEF Script

\* The end of a script.
LEMMA LeaveFrame ==
  ASSUME ControlInv, NEW c \in Clients, Leave(c)
  PROVE  /\ ScriptsFit /\ stage'[c] = "ready" /\ home'[c] = None
         /\ \A b \in Clients \ {c} : /\ script'[b] = script[b] /\ stage'[b] = stage[b]
                                     /\ home'[b] = home[b] /\ handed'[b] = handed[b]
BY DEF Leave, ControlInv, Shape, ScriptsFit

LEMMA LeaveControl ==
  ASSUME ControlInv, NEW c \in Clients, Leave(c), OthersStay(c), CallsFit, pc'[c] = "idle",
         UNCHANGED projects
  PROVE  ControlInv' /\ OthersWait(c) /\ ScriptsFit
<1>1. OthersWait(c)
  BY LeaveFrame DEF OthersWait
<1>2. ControlOf(c)'
  BY LeaveFrame DEF ControlOf, Steps, ViewSteps, Stages
<1>3. DOMAIN projects' = Projects
  BY DEF ControlInv, Shape
<1> QED
  BY <1>1, <1>2, <1>3, LeaveFrame, ControlKept

\* The steps of a view.
ViewPath(c) ==
  /\ stage[c] = "view" /\ Keeps
  /\ \/ pc'[c] \in ViewSteps /\ UNCHANGED scriptVars
     \/ pc'[c] = "idle" /\ Leave(c)

LEMMA ViewFrame ==
  ASSUME ControlInv, NEW c \in Clients, View(c)
  PROVE  ViewPath(c) /\ OthersStay(c) /\ CallsFit
<1>1. Keeps /\ OthersStay(c) /\ CallsFit /\ (pc'[c] \in ViewSteps \/ pc'[c] = "idle")
  <2>1. CASE StartView(c)
    BY <2>1 DEF StartView, Goto, ControlInv, Shape, OthersStay, CallsFit, Keeps, dbVars, resultVars,
                ViewSteps
  <2>2. CASE ViewOpen(c)
    <3>1. ReadContext(c, "view_open", script[c].tag, "view_recognizer", "view_insert")
      BY <2>2 DEF ViewOpen
    <3> QED
      BY <3>1, ReadContextFrame DEF Passes, ViewSteps
  <2>3. CASE ViewInsert(c)
    <3>1. InsertContext(c, "view_insert", script[c].tag, "view_recognizer")
      BY <2>3 DEF ViewInsert
    <3> QED
      BY <3>1, InsertContextFrame DEF ViewSteps
  <2>4. CASE Fail(c)
    BY <2>4, FailFrame
  <2>5. CASE ViewRecognizer(c) /\ ~Fail(c)
    BY <2>5 DEF ViewRecognizer, ViewColumn, Goto, ControlInv, Shape, OthersStay, CallsFit, Keeps,
                dbVars, resultVars, ViewSteps
  <2>6. CASE ViewResolver(c) /\ ~Fail(c)
    BY <2>6 DEF ViewResolver, ViewColumn, Goto, ControlInv, Shape, OthersStay, CallsFit, Keeps,
                dbVars, resultVars, ViewSteps
  <2>7. CASE ViewDocuments(c)
    <3>1. Return(c, "ok") /\ UNCHANGED dbVars
      BY <2>7 DEF ViewDocuments
    <3>2. Keeps
      BY <3>1, ReturnFrame DEF Keeps, dbVars, resultVars
    <3> QED
      BY <3>1, <3>2, ReturnFrame
  <2> QED
    BY <2>1, <2>2, <2>3, <2>4, <2>5, <2>6, <2>7 DEF View
<1>2. "idle" \notin ViewSteps
  BY DEF ViewSteps
<1>3. stage[c] = "view" /\ (IF pc'[c] = "idle" THEN Leave(c) ELSE UNCHANGED scriptVars)
  BY DEF View
<1> QED
  BY <1>1, <1>2, <1>3 DEF ViewPath

\* How a step of a module's call goes on.
Continues(c) ==
  /\ pc'[c] # "idle" /\ UNCHANGED <<scriptVars, loads>>

HandsOver(c) ==
  /\ pc[c] = "tag_write" /\ pc'[c] = "idle" /\ Keeps
  /\ script[c].kind = "load" /\ stage[c] = "recognizing"
  /\ Advance(c, "places")
  /\ handed' = [handed EXCEPT ![c] = items[c]]
  /\ UNCHANGED <<script, home, loads>>

Ends(c) ==
  /\ pc'[c] = "idle" /\ Keeps /\ Leave(c)
  /\ \/ loads' = loads
     \/ /\ pc[c] = "tag_write" /\ script[c].kind = "load" /\ stage[c] = "resolving"
        /\ loads' = loads \cup {Loaded(c)}

LEMMA RunFrame ==
  ASSUME ControlInv, NEW c \in Clients, RunModule(c)
  PROVE  /\ Path(c) /\ OthersStay(c) /\ CallsFit /\ UNCHANGED raced
         /\ stage[c] \in {"recognizing", "resolving"}
         /\ Continues(c) \/ HandsOver(c) \/ Ends(c)
<1>1. stage[c] \in {"recognizing", "resolving"} /\ StoreStep(c) /\ UNCHANGED raced
  BY DEF RunModule
<1>2. Path(c) /\ OthersStay(c) /\ CallsFit
  BY <1>1, StorePath
<1>3. CASE pc'[c] # "idle"
  BY <1>1, <1>2, <1>3 DEF RunModule, Continues
<1>4. CASE pc'[c] = "idle"
  <2>1. /\ Keeps
        /\ \/ outcome'[c] = "failed"
           \/ outcome'[c] = "ok" /\ pc[c] = "tag_write"
    BY <1>2, <1>4 DEF Path, TagSteps, Commits
  <2>2. CASE outcome'[c] = "ok" /\ script[c].kind = "load" /\ stage[c] = "recognizing"
    <3>1. /\ Advance(c, "places")
          /\ handed' = [handed EXCEPT ![c] = items[c]]
          /\ UNCHANGED <<script, home, loads>>
      BY <1>4, <2>2 DEF RunModule
    <3> QED
      BY <1>1, <1>2, <1>4, <2>1, <2>2, <3>1 DEF HandsOver
  <2>3. CASE ~(outcome'[c] = "ok" /\ script[c].kind = "load" /\ stage[c] = "recognizing")
    <3>1. /\ Leave(c)
          /\ loads' = loads \cup (IF outcome'[c] = "ok" /\ script[c].kind = "load"
                                    THEN {Loaded(c)} ELSE {})
      BY <1>4, <2>3 DEF RunModule
    <3>2. CASE outcome'[c] = "ok" /\ script[c].kind = "load"
      <4>1. loads' = loads \cup {Loaded(c)}
        BY <3>1, <3>2
      <4> QED
        BY <1>1, <1>2, <1>4, <2>1, <2>3, <3>1, <3>2, <4>1 DEF Ends
    <3>3. CASE ~(outcome'[c] = "ok" /\ script[c].kind = "load")
      <4>1. loads' = loads
        BY <3>1, <3>3
      <4> QED
        BY <1>1, <1>2, <1>4, <2>1, <3>1, <4>1 DEF Ends
    <3> QED
      BY <3>2, <3>3
  <2> QED
    BY <2>2, <2>3
<1> QED
  BY <1>1, <1>2, <1>3, <1>4

-----------------------------------------------------------------------------
(***************************************************************************)
(* Every step of a script keeps its call, and moves no other script.       *)
(***************************************************************************)

LEMMA OpeningControl ==
  ASSUME ControlInv, NEW c \in Clients, NEW p \in Projects,
         stage[c] \in {"lookup", "insert"},
         home' = [home EXCEPT ![c] = p], Advance(c, AfterOpening(script[c])),
         UNCHANGED <<script, handed, pc, callVars>>, DOMAIN projects' = Projects
  PROVE  ControlInv' /\ OthersWait(c)
<1>1. OthersStay(c) /\ CallsFit
  BY CallsStay
<1>2. ScriptsFit /\ OthersWait(c) /\ stage'[c] = AfterOpening(script[c]) /\ home'[c] = p
      /\ script'[c] = script[c] /\ pc'[c] = pc[c]
  BY <1>1 DEF ControlInv, Shape, Advance, ScriptsFit, OthersWait
<1>3. script[c] \in Script /\ script[c] \in Scripts[c] /\ pc[c] \in {"idle"} \cup ViewSteps
      /\ pc[c] = "idle"
  <2>1. ControlOf(c)
    BY DEF ControlInv
  <2>2. pc[c] \notin Steps /\ pc[c] \notin ViewSteps
    BY <2>1 DEF ControlOf
  <2> QED
    BY <2>1, <2>2, ScriptKnown DEF ControlOf
<1>4. ControlOf(c)'
  BY <1>2, <1>3, OpeningStage DEF ControlOf, Steps, ViewSteps, Stages
<1> QED
  BY <1>1, <1>2, <1>4, ControlKept

LEMMA BeginControl ==
  ASSUME ControlInv, NEW c \in Clients, NEW args, Begin(c, args), NEW next,
         Advance(c, next), UNCHANGED <<script, home, handed>>,
         \/ /\ next = "recognizing" /\ script[c].kind \in {"load", "run"}
            /\ args = [op |-> "recognize", project |-> home[c],
                       module |-> ModuleOf(script[c]), tag |-> script[c].tag]
         \/ /\ next = "resolving" /\ script[c].kind = "load"
            /\ args = [op |-> "resolve", project |-> home[c],
                       module |-> ResolverOf[script[c].tag], tag |-> script[c].tag],
         stage[c] \in {"spans", "places"}
  PROVE  ControlInv' /\ OthersWait(c) /\ pc'[c] = "open" /\ Keeps
<1>1. OthersStay(c) /\ CallsFit /\ Keeps /\ pc'[c] = "open" /\ call'[c] = args
  BY DEF Begin, Goto, ControlInv, Shape, OthersStay, CallsFit, Keeps, dbVars, resultVars
<1>2. ScriptsFit /\ OthersWait(c) /\ stage'[c] = next /\ script'[c] = script[c]
      /\ home'[c] = home[c]
  BY <1>1 DEF ControlInv, Shape, Advance, ScriptsFit, OthersWait
<1>3. home[c] \in Projects /\ script[c] \in Scripts[c]
  BY DEF ControlInv, ControlOf
<1>4. pc'[c] \in Steps
  BY <1>1 DEF Steps
<1>5. ControlOf(c)'
  BY <1>1, <1>2, <1>3, <1>4 DEF ControlOf, Steps, ViewSteps, Stages
<1>6. DOMAIN projects' = Projects
  BY <1>1 DEF Keeps, ControlInv, Shape
<1> QED
  BY <1>1, <1>2, <1>5, <1>6, ControlKept

LEMMA RunControl ==
  ASSUME ControlInv, NEW c \in Clients, RunModule(c)
  PROVE  ControlInv' /\ OthersWait(c)
<1>1. /\ Path(c) /\ OthersStay(c) /\ CallsFit
      /\ stage[c] \in {"recognizing", "resolving"}
      /\ Continues(c) \/ HandsOver(c) \/ Ends(c)
  BY RunFrame
<1>2. ControlOf(c)
  BY DEF ControlInv
<1>3. CASE Continues(c)
  <2>1. /\ pc'[c] # "idle" /\ script'[c] = script[c] /\ stage'[c] = stage[c]
        /\ home'[c] = home[c] /\ handed'[c] = handed[c]
        /\ ScriptsFit /\ OthersWait(c)
    BY <1>1, <1>3 DEF Continues, scriptVars, ScriptsFit, OthersWait, ControlInv, Shape
  <2>2. pc'[c] \in Steps /\ call'[c] = call[c] /\ UNCHANGED projects
    BY <1>1, <2>1 DEF Path, Passes, Keeps, LoadDocuments, Filter, Commits, dbVars, callVars,
                      Steps, TagSteps
  <2>3. ControlOf(c)'
    BY <1>1, <1>2, <2>1, <2>2 DEF ControlOf, ViewSteps, Steps
  <2>4. DOMAIN projects' = Projects
    BY <2>2 DEF ControlInv, Shape
  <2> QED
    BY <1>1, <2>1, <2>3, <2>4, ControlKept
<1>4. CASE HandsOver(c)
  <2>1. /\ pc'[c] = "idle" /\ script'[c] = script[c] /\ stage'[c] = "places"
        /\ home'[c] = home[c] /\ ScriptsFit /\ OthersWait(c) /\ UNCHANGED projects
        /\ script[c].kind = "load"
    BY <1>1, <1>4 DEF HandsOver, Advance, ScriptsFit, OthersWait, ControlInv, Shape, Keeps
  <2>2. home[c] \in Projects /\ script[c] \in Scripts[c]
    BY <1>1, <1>2 DEF ControlOf
  <2>3. ControlOf(c)'
    BY <2>1, <2>2 DEF ControlOf, ViewSteps, Steps, Stages
  <2>4. DOMAIN projects' = Projects
    BY <2>1 DEF ControlInv, Shape
  <2> QED
    BY <1>1, <2>1, <2>3, <2>4, ControlKept
<1>5. CASE Ends(c)
  BY <1>1, <1>5, LeaveControl DEF Ends, Keeps
<1> QED
  BY <1>1, <1>3, <1>4, <1>5

LEMMA ViewControl ==
  ASSUME ControlInv, NEW c \in Clients, View(c)
  PROVE  ControlInv' /\ OthersWait(c)
<1>1. ViewPath(c) /\ OthersStay(c) /\ CallsFit
  BY ViewFrame
<1>2. CASE pc'[c] \in ViewSteps /\ UNCHANGED scriptVars
  <2>1. /\ script'[c] = script[c] /\ stage'[c] = "view" /\ home'[c] = home[c]
        /\ ScriptsFit /\ OthersWait(c) /\ UNCHANGED projects
    BY <1>1, <1>2 DEF ViewPath, Keeps, scriptVars, ScriptsFit, OthersWait, ControlInv, Shape
  <2>2. home[c] \in Projects /\ script[c] \in Scripts[c]
    BY <1>1 DEF ControlInv, ControlOf, ViewPath
  <2>3. ControlOf(c)'
    BY <1>2, <2>1, <2>2 DEF ControlOf, ViewSteps, Steps, Stages
  <2>4. DOMAIN projects' = Projects
    BY <2>1 DEF ControlInv, Shape
  <2> QED
    BY <1>1, <2>1, <2>3, <2>4, ControlKept
<1>3. CASE pc'[c] = "idle" /\ Leave(c)
  BY <1>1, <1>3, LeaveControl DEF ViewPath, Keeps
<1> QED
  BY <1>1, <1>2, <1>3 DEF ViewPath

LEMMA QuitFrame ==
  ASSUME ControlInv, NEW c \in Clients, Quit(c)
  PROVE  /\ OthersStay(c) /\ CallsFit /\ pc'[c] = "idle" /\ Keeps
         /\ Leave(c) /\ UNCHANGED historyVars
<1>1. Stop(c) /\ Leave(c) /\ UNCHANGED historyVars
  BY DEF Quit
<1>2. CASE pc[c] = "idle"
  <2>1. UNCHANGED <<pc, callVars>> /\ Keeps
    BY <1>1, <1>2 DEF Stop, vars, Keeps, dbVars, resultVars, callVars
  <2> QED
    BY <1>1, <1>2, <2>1, CallsStay
<1>3. CASE pc[c] # "idle"
  BY <1>1, <1>3, FailFrame DEF Stop, Interrupt
<1> QED
  BY <1>2, <1>3

-----------------------------------------------------------------------------
(***************************************************************************)
(* What a step does to the rows.                                           *)
(***************************************************************************)

RowKinds ==
  \/ Keeps
  \/ \E p \in Projects : CreateProject(p)
  \/ \E p \in Projects : \E D \in SUBSET Uncreated(p) : CreateDocuments(p, D)
  \/ \E p \in Projects : DeleteProject(p)
  \/ \E c \in Clients : Commits(c)

LEMMA PathRows ==
  ASSUME NEW c \in Clients, Path(c)
  PROVE  Keeps \/ Commits(c)
BY DEF Path, Passes, LoadDocuments, Filter, Keeps, dbVars, resultVars

LEMMA StepRows ==
  ASSUME ControlInv, AnnotationsNext \/ UNCHANGED allVars
  PROVE  RowKinds /\ ControlInv'
<1>1. CASE UNCHANGED allVars
  <2>1. Keeps
    BY <1>1 DEF allVars, vars, dbVars, resultVars, callVars, Keeps
  <2>2. /\ UNCHANGED <<projects, pc, script, stage, home, handed>>
        /\ UNCHANGED <<call, items, batch, seen, outcome, runs>>
    BY <1>1 DEF allVars, vars, dbVars, callVars, scriptVars
  <2>3. Shape'
    BY <2>2 DEF ControlInv, Shape
  <2>4. ASSUME NEW c \in Clients
        PROVE  ControlOf(c)'
    BY <2>2 DEF ControlInv, ControlOf
  <2> QED
    BY <2>1, <2>3, <2>4 DEF RowKinds, ControlInv
<1>2. ASSUME NEW c \in Clients, NEW s \in Scripts[c], Start(c, s)
      PROVE  RowKinds /\ ControlInv'
  <2>1. UNCHANGED <<pc, callVars, projects>> /\ Keeps
    BY <1>2 DEF Start, vars, dbVars, resultVars, callVars, Keeps
  <2>2. OthersStay(c) /\ CallsFit
    BY <2>1, CallsStay
  <2>3. /\ ScriptsFit /\ OthersWait(c) /\ stage'[c] = "lookup" /\ script'[c] = s
        /\ home'[c] = home[c] /\ pc'[c] = pc[c] /\ stage[c] = "ready"
    BY <1>2, <2>1, <2>2 DEF Start, Advance, ScriptsFit, OthersWait, ControlInv, Shape
  <2>4. ControlOf(c)
    BY DEF ControlInv
  <2>5. pc[c] = "idle"
    BY <2>3, <2>4 DEF ControlOf
  <2>6. ControlOf(c)'
    BY <2>3, <2>4, <2>5 DEF ControlOf, Steps, ViewSteps, Stages
  <2>7. DOMAIN projects' = Projects
    BY <2>1 DEF ControlInv, Shape
  <2> QED
    BY <2>1, <2>2, <2>3, <2>6, <2>7, ControlKept DEF RowKinds
<1>3. ASSUME NEW c \in Clients, LookUp(c)
      PROVE  RowKinds /\ ControlInv'
  <2>1. UNCHANGED <<pc, callVars, projects>> /\ Keeps /\ stage[c] = "lookup"
    BY <1>3 DEF LookUp, vars, dbVars, resultVars, callVars, Keeps
  <2>2. OthersStay(c) /\ CallsFit /\ DOMAIN projects' = Projects
    BY <2>1, CallsStay DEF ControlInv, Shape
  <2>3. CASE Live = {}
    <3>1. /\ ScriptsFit /\ OthersWait(c) /\ stage'[c] = "insert" /\ script'[c] = script[c]
          /\ home'[c] = home[c] /\ pc'[c] = pc[c]
      BY <1>3, <2>1, <2>2, <2>3 DEF LookUp, Advance, ScriptsFit, OthersWait, ControlInv, Shape
    <3>2. ControlOf(c)
      BY DEF ControlInv
    <3>3. pc[c] = "idle"
      BY <2>1, <3>2 DEF ControlOf
    <3>4. ControlOf(c)'
      BY <2>1, <3>1, <3>2, <3>3 DEF ControlOf, Steps, ViewSteps, Stages
    <3> QED
      BY <2>1, <2>2, <3>1, <3>4, ControlKept DEF RowKinds
  <2>4. CASE Live # {}
    <3>1. PICK p \in Live : home' = [home EXCEPT ![c] = p]
      BY <1>3, <2>4 DEF LookUp
    <3>2. p \in Projects
      BY DEF Live
    <3>3. Advance(c, AfterOpening(script[c])) /\ UNCHANGED <<script, handed>>
      BY <1>3, <2>4 DEF LookUp
    <3> QED
      BY <2>1, <2>2, <3>1, <3>2, <3>3, OpeningControl DEF RowKinds
  <2> QED
    BY <2>3, <2>4
<1>4. ASSUME NEW c \in Clients, InsertProject(c)
      PROVE  RowKinds /\ ControlInv'
  <2>1. PICK p \in Projects : CreateProject(p) /\ home' = [home EXCEPT ![c] = p]
    BY <1>4 DEF InsertProject
  <2>2. /\ stage[c] = "insert" /\ Advance(c, AfterOpening(script[c]))
        /\ UNCHANGED <<script, handed, pc, callVars>> /\ DOMAIN projects' = Projects
    BY <1>4, <2>1 DEF InsertProject, CreateProject, ControlInv, Shape
  <2> QED
    BY <2>1, <2>2, OpeningControl DEF RowKinds
<1>5. ASSUME NEW c \in Clients, AddTexts(c)
      PROVE  RowKinds /\ ControlInv'
  <2>1. PICK D \in NewDocuments(home[c], script[c].file) : CreateDocuments(home[c], D)
    BY <1>5 DEF AddTexts
  <2>2. D \in SUBSET Uncreated(home[c])
    BY <2>1 DEF NewDocuments
  <2>3. stage[c] = "texts" /\ Advance(c, "spans") /\ UNCHANGED <<script, home, handed>>
    BY <1>5 DEF AddTexts
  <2>4. ControlOf(c)
    BY DEF ControlInv
  <2>5. /\ home[c] \in Projects /\ pc[c] = "idle" /\ script[c] \in Scripts[c]
        /\ script[c].kind = "load"
    BY <2>3, <2>4 DEF ControlOf
  <2>6. UNCHANGED <<pc, callVars, projects>>
    BY <2>1 DEF CreateDocuments
  <2>7. OthersStay(c) /\ CallsFit /\ DOMAIN projects' = Projects
    BY <2>6, CallsStay DEF ControlInv, Shape
  <2>8. /\ ScriptsFit /\ OthersWait(c) /\ stage'[c] = "spans" /\ script'[c] = script[c]
        /\ home'[c] = home[c] /\ pc'[c] = pc[c]
    BY <2>3, <2>6, <2>7 DEF Advance, ScriptsFit, OthersWait, ControlInv, Shape
  <2>9. ControlOf(c)'
    BY <2>5, <2>8 DEF ControlOf, Steps, ViewSteps, Stages
  <2>10. RowKinds
    BY <2>1, <2>2, <2>5 DEF RowKinds
  <2> QED
    BY <2>7, <2>8, <2>9, <2>10, ControlKept
<1>6. ASSUME NEW c \in Clients, StartSpans(c)
      PROVE  RowKinds /\ ControlInv'
  <2>1. /\ Begin(c, [op |-> "recognize", project |-> home[c],
                     module |-> ModuleOf(script[c]), tag |-> script[c].tag])
        /\ Advance(c, "recognizing") /\ UNCHANGED <<script, home, handed>>
        /\ stage[c] = "spans"
    BY <1>6 DEF StartSpans, RunRecognizer
  <2>2. script[c].kind \in {"load", "run"}
    BY <2>1 DEF ControlInv, ControlOf
  <2> QED
    BY <2>1, <2>2, BeginControl DEF RowKinds
<1>7. ASSUME NEW c \in Clients, StartPlaces(c)
      PROVE  RowKinds /\ ControlInv'
  <2>1. /\ Begin(c, [op |-> "resolve", project |-> home[c],
                     module |-> ResolverOf[script[c].tag], tag |-> script[c].tag])
        /\ Advance(c, "resolving") /\ UNCHANGED <<script, home, handed>>
        /\ stage[c] = "places"
    BY <1>7 DEF StartPlaces, RunResolver
  <2>2. script[c].kind = "load"
    BY <2>1 DEF ControlInv, ControlOf
  <2> QED
    BY <2>1, <2>2, BeginControl DEF RowKinds
<1>8. ASSUME NEW c \in Clients, RunModule(c)
      PROVE  RowKinds /\ ControlInv'
  BY <1>8, RunFrame, PathRows, RunControl DEF RowKinds
<1>9. ASSUME NEW c \in Clients, View(c)
      PROVE  RowKinds /\ ControlInv'
  BY <1>9, ViewFrame, ViewControl DEF RowKinds, ViewPath
<1>10. ASSUME NEW c \in Clients, Quit(c)
       PROVE  RowKinds /\ ControlInv'
  BY <1>10, QuitFrame, LeaveControl DEF RowKinds, Keeps
<1>11. ASSUME NEW p \in Projects, Delete(p)
       PROVE  RowKinds /\ ControlInv'
  <2>1. /\ DeleteProject(p)
        /\ UNCHANGED <<pc, script, stage, home, handed>>
        /\ UNCHANGED <<call, items, batch, seen, outcome, runs>>
        /\ projects' = [projects EXCEPT ![p] = "deleted"]
    BY <1>11 DEF Delete, DeleteProject, callVars, scriptVars
  <2>2. Shape'
    BY <2>1 DEF ControlInv, Shape
  <2>3. ASSUME NEW c \in Clients
        PROVE  ControlOf(c)'
    BY <2>1 DEF ControlInv, ControlOf
  <2> QED
    BY <2>1, <2>2, <2>3 DEF RowKinds, ControlInv
<1> QED
  BY <1>1, <1>2, <1>3, <1>4, <1>5, <1>6, <1>7, <1>8, <1>9, <1>10, <1>11 DEF AnnotationsNext

-----------------------------------------------------------------------------
(***************************************************************************)
(* A name stands for one project, unless two scripts have created it.      *)
(***************************************************************************)

LEMMA CalmCreation ==
  ASSUME CreationInv, UNCHANGED raced, Live' \subseteq Live,
         \A b \in Clients : stage'[b] = "insert" => stage[b] = "insert"
  PROVE  CreationInv'
BY DEF CreationInv

LEMMA CalmScript ==
  ASSUME CreationInv, NEW c \in Clients, UNCHANGED <<projects, raced>>, OthersWait(c),
         stage'[c] # "insert"
  PROVE  CreationInv'
BY CalmCreation DEF OthersWait, Live

LEMMA CreationStep ==
  ASSUME ControlInv, CreationInv, AnnotationsNext \/ UNCHANGED allVars
  PROVE  CreationInv'
<1>1. CASE UNCHANGED allVars
  <2>1. UNCHANGED <<projects, stage, raced>>
    BY <1>1 DEF allVars, vars, dbVars, scriptVars, historyVars
  <2> QED
    BY <2>1, CalmCreation DEF Live
<1>2. ASSUME NEW c \in Clients, NEW s \in Scripts[c], Start(c, s)
      PROVE  CreationInv'
  BY <1>2, CalmCreation DEF Start, Advance, vars, dbVars, Live, ControlInv, Shape
<1>3. ASSUME NEW c \in Clients, LookUp(c)
      PROVE  CreationInv'
  <2>1. UNCHANGED projects
    BY <1>3 DEF LookUp, vars, dbVars
  <2>2. CASE Live = {}
    <3>1. Advance(c, "insert") /\ (raced' = (raced \/ \E b \in Clients \ {c} : stage[b] = "insert"))
      BY <1>3, <2>2 DEF LookUp
    <3>2. ASSUME ~raced'
          PROVE  ~raced /\ \A b \in Clients \ {c} : stage[b] # "insert"
      BY <3>1, <3>2
    <3>3. \A b \in Clients : stage'[b] = IF b = c THEN "insert" ELSE stage[b]
      BY <3>1 DEF Advance, ControlInv, Shape
    <3>4. Live' = {}
      BY <2>1, <2>2 DEF Live
    <3> QED
      BY <3>2, <3>3, <3>4 DEF CreationInv
  <2>3. CASE Live # {}
    <3>1. UNCHANGED raced /\ Advance(c, AfterOpening(script[c])) /\ stage[c] = "lookup"
      BY <1>3, <2>3 DEF LookUp
    <3>2. AfterOpening(script[c]) # "insert"
      BY <3>1, ScriptKnown, OpeningStage
    <3>3. \A b \in Clients : stage'[b] = "insert" => stage[b] = "insert"
      BY <3>1, <3>2 DEF Advance, ControlInv, Shape
    <3> QED
      BY <2>1, <3>1, <3>3, CalmCreation DEF Live
  <2> QED
    BY <2>2, <2>3
<1>4. ASSUME NEW c \in Clients, InsertProject(c)
      PROVE  CreationInv'
  <2>1. PICK p \in Projects : CreateProject(p)
    BY <1>4 DEF InsertProject
  <2>2. UNCHANGED raced /\ Advance(c, AfterOpening(script[c])) /\ stage[c] = "insert"
    BY <1>4 DEF InsertProject
  <2>3. AfterOpening(script[c]) # "insert"
    BY <2>2, ScriptKnown, OpeningStage
  <2>4. \A b \in Clients : stage'[b] = IF b = c THEN AfterOpening(script[c]) ELSE stage[b]
    BY <2>2 DEF Advance, ControlInv, Shape
  <2>5. Live' = Live \cup {p}
    BY <2>1 DEF CreateProject, Live, ControlInv, Shape
  <2> QED
    BY <2>2, <2>3, <2>4, <2>5 DEF CreationInv
<1>5. ASSUME NEW c \in Clients, AddTexts(c)
      PROVE  CreationInv'
  <2>1. UNCHANGED <<projects, raced>> /\ Advance(c, "spans")
    BY <1>5 DEF AddTexts, CreateDocuments, historyVars
  <2>2. \A b \in Clients : stage'[b] = "insert" => stage[b] = "insert"
    BY <2>1 DEF Advance, ControlInv, Shape
  <2> QED
    BY <2>1, <2>2, CalmCreation DEF Live
<1>6. ASSUME NEW c \in Clients, StartSpans(c)
      PROVE  CreationInv'
  <2>1. UNCHANGED <<projects, raced>> /\ Advance(c, "recognizing")
    BY <1>6 DEF StartSpans, RunRecognizer, Begin, dbVars, historyVars
  <2>2. \A b \in Clients : stage'[b] = "insert" => stage[b] = "insert"
    BY <2>1 DEF Advance, ControlInv, Shape
  <2> QED
    BY <2>1, <2>2, CalmCreation DEF Live
<1>7. ASSUME NEW c \in Clients, StartPlaces(c)
      PROVE  CreationInv'
  <2>1. UNCHANGED <<projects, raced>> /\ Advance(c, "resolving")
    BY <1>7 DEF StartPlaces, RunResolver, Begin, dbVars, historyVars
  <2>2. \A b \in Clients : stage'[b] = "insert" => stage[b] = "insert"
    BY <2>1 DEF Advance, ControlInv, Shape
  <2> QED
    BY <2>1, <2>2, CalmCreation DEF Live
<1>8. ASSUME NEW c \in Clients, RunModule(c)
      PROVE  CreationInv'
  <2>1. /\ Path(c) /\ UNCHANGED raced /\ stage[c] \in {"recognizing", "resolving"}
        /\ Continues(c) \/ HandsOver(c) \/ Ends(c)
    BY <1>8, RunFrame
  <2>2. OthersWait(c)
    BY <1>8, RunControl
  <2>3. UNCHANGED projects
    BY <2>1, PathRows DEF Keeps, Commits
  <2>4. stage'[c] # "insert"
    BY <2>1, LeaveFrame DEF Continues, HandsOver, Ends, scriptVars, Advance, ControlInv, Shape
  <2> QED
    BY <2>1, <2>2, <2>3, <2>4, CalmScript
<1>9. ASSUME NEW c \in Clients, View(c)
      PROVE  CreationInv'
  <2>1. ViewPath(c) /\ OthersWait(c) /\ UNCHANGED raced
    BY <1>9, ViewFrame, ViewControl DEF View, historyVars
  <2>2. stage'[c] # "insert" /\ UNCHANGED projects
    BY <2>1, LeaveFrame DEF ViewPath, scriptVars, Keeps
  <2> QED
    BY <2>1, <2>2, CalmScript
<1>10. ASSUME NEW c \in Clients, Quit(c)
       PROVE  CreationInv'
  <2>1. OthersStay(c) /\ CallsFit /\ pc'[c] = "idle" /\ Keeps /\ Leave(c) /\ UNCHANGED historyVars
    BY <1>10, QuitFrame
  <2>2. UNCHANGED <<projects, raced>> /\ OthersWait(c) /\ stage'[c] # "insert"
    BY <2>1, LeaveFrame, LeaveControl DEF Keeps, historyVars
  <2> QED
    BY <2>2, CalmScript
<1>11. ASSUME NEW p \in Projects, Delete(p)
       PROVE  CreationInv'
  <2>1. UNCHANGED <<stage, raced>> /\ projects' = [projects EXCEPT ![p] = "deleted"]
    BY <1>11 DEF Delete, DeleteProject, scriptVars, historyVars
  <2>2. Live' \subseteq Live
    BY <2>1 DEF Live, ControlInv, Shape
  <2> QED
    BY <2>1, <2>2, CalmCreation
<1> QED
  BY <1>1, <1>2, <1>3, <1>4, <1>5, <1>6, <1>7, <1>8, <1>9, <1>10, <1>11 DEF AnnotationsNext

-----------------------------------------------------------------------------
(***************************************************************************)
(* A commit.                                                               *)
(***************************************************************************)

\* What a recognizer stores: the spans it found, and a marker for each document
\* it has answered for.
LEMMA RecognitionRows ==
  ASSUME NEW c \in Clients, NEW predicted, NEW found, NEW r,
         InsertRecognitions(c, predicted, found), r = call[c].module
  PROVE  /\ \A x \in references : x \in references'
         /\ \A x \in references' : x \in references \/
              /\ x.document \in predicted /\ x.recognizer = r
              /\ x.span \in found[x.document]
         /\ \A d \in predicted : \A span \in Spans \cap found[d] :
              \E x \in references' : x.document = d /\ x.recognizer = r /\ x.span = span
         /\ \A d, q : Recognized(d, q)' <=> Recognized(d, q) \/ (d \in predicted /\ q = r)
         /\ UNCHANGED <<projects, documents, referents, resolutions, contended>>
<1> DEFINE new == {x \in [document : predicted, recognizer : {r}, span : Spans,
                          run : {ThisRun(c)}] : x.span \in found[x.document]}
<1>1. /\ references' = references \cup new
      /\ recognitions' = recognitions \cup
           [document : predicted, recognizer : {r}, run : {ThisRun(c)}]
      /\ UNCHANGED <<projects, documents, referents, resolutions, contended>>
  BY DEF InsertRecognitions, callVars
<1>2. \A x \in references' : x \in references \/
        /\ x.document \in predicted /\ x.recognizer = r
        /\ x.span \in found[x.document]
  BY <1>1
<1>3. ASSUME NEW d \in predicted, NEW span \in Spans \cap found[d]
      PROVE  \E x \in references' : x.document = d /\ x.recognizer = r /\ x.span = span
  <2> DEFINE x == [document |-> d, recognizer |-> r, span |-> span, run |-> ThisRun(c)]
  <2>1. x \in new
    OBVIOUS
  <2>2. x \in references' /\ x.document = d /\ x.recognizer = r /\ x.span = span
    BY <1>1, <2>1
  <2> HIDE DEF x
  <2> QED
    BY <2>2
<1>4. ASSUME NEW d, NEW q
      PROVE  Recognized(d, q)' <=> Recognized(d, q) \/ (d \in predicted /\ q = r)
  <2>1. ASSUME Recognized(d, q)'
        PROVE  Recognized(d, q) \/ (d \in predicted /\ q = r)
    BY <1>1, <2>1 DEF Recognized
  <2>2. ASSUME d \in predicted, q = r
        PROVE  Recognized(d, q)'
    <3> DEFINE m == [document |-> d, recognizer |-> r, run |-> ThisRun(c)]
    <3>1. m \in recognitions' /\ m.document = d /\ m.recognizer = q
      BY <1>1, <2>2
    <3> HIDE DEF m
    <3> QED
      BY <3>1 DEF Recognized
  <2>3. ASSUME Recognized(d, q)
        PROVE  Recognized(d, q)'
    BY <1>1, <2>3 DEF Recognized
  <2> QED
    BY <2>1, <2>2, <2>3
<1> HIDE DEF new
<1> QED
  BY <1>1, <1>2, <1>3, <1>4

\* What a resolver stores: a referent and a marker for each reference.
LEMMA ResolutionRows ==
  ASSUME NEW c \in Clients, NEW predicted, NEW place, NEW s,
         InsertResolutions(c, predicted, place), s = call[c].module
  PROVE  /\ referents' = referents \cup
              {[reference |-> x, resolver |-> s, feature |-> place[x], run |-> ThisRun(c)] :
                 x \in predicted}
         /\ resolutions' = resolutions \cup
              [reference : predicted, resolver : {s}, run : {ThisRun(c)}]
         /\ \A x, q : Resolved(x, q) => Resolved(x, q)'
         /\ \A x \in predicted : Resolved(x, s)'
         /\ UNCHANGED <<projects, documents, references, recognitions, contended>>
<1>1. /\ referents' = referents \cup
           {[reference |-> x, resolver |-> s, feature |-> place[x], run |-> ThisRun(c)] :
              x \in predicted}
      /\ resolutions' = resolutions \cup
           [reference : predicted, resolver : {s}, run : {ThisRun(c)}]
      /\ UNCHANGED <<projects, documents, references, recognitions, contended>>
  BY DEF InsertResolutions, callVars
<1>2. \A x, q : Resolved(x, q) => Resolved(x, q)'
  BY <1>1 DEF Resolved
<1>3. ASSUME NEW x \in predicted
      PROVE  Resolved(x, s)'
  <2> DEFINE m == [reference |-> x, resolver |-> s, run |-> ThisRun(c)]
  <2>1. m \in resolutions' /\ m.reference = x /\ m.resolver = s
    BY <1>1
  <2> HIDE DEF m
  <2> QED
    BY <2>1 DEF Resolved
<1> QED
  BY <1>1, <1>2, <1>3

\* Which recognizer stores what: a load its label's, what its file says; another
\* script one that is no label's.
Stores(c, predicted, found) ==
  /\ call[c].op = "recognize"
  /\ predicted \subseteq batch[c] \cap documents
  /\ InsertRecognitions(c, predicted, found)
  /\ \/ /\ script[c].kind = "load"
        /\ script[c].file \in Files /\ script[c].tag \in Labels
        /\ call[c].module = RecognizerOf[script[c].tag]
        /\ \A d \in predicted : /\ found[d] = GivenSpans(script[c].file, TextOf[d])
                                /\ found[d] # Unavailable
        /\ \A d \in batch[c] : GivenSpans(script[c].file, TextOf[d]) # Unavailable
                                 => d \in predicted
     \/ /\ script[c].kind # "load"
        /\ \A label \in Labels : call[c].module # RecognizerOf[label]

\* The resolver of a load stores the places that its file gives.
Links(c, predicted, place) ==
  /\ call[c].op = "resolve" /\ script[c].kind = "load"
  /\ script[c].file \in Files /\ script[c].tag \in Labels
  /\ call[c].module = ResolverOf[script[c].tag]
  /\ predicted \subseteq batch[c] \cap references
  /\ \A x \in predicted : /\ place[x] = GivenPlace(script[c].file, TextOf[x.document], x.span)
                          /\ place[x] \in Features
  /\ \A x \in batch[c] : GivenPlace(script[c].file, TextOf[x.document], x.span) # Unavailable
                           => x \in predicted
  /\ InsertResolutions(c, predicted, place)

LEMMA CommitKinds ==
  ASSUME ControlInv, NEW c \in Clients, Commits(c)
  PROVE  (\E predicted, found : Stores(c, predicted, found))
         \/ (\E predicted, place : Links(c, predicted, place))
<1>1. ControlOf(c)
  BY DEF ControlInv
<1>2. pc[c] \in Steps
  BY DEF Commits, Steps
<1>3. stage[c] \in {"recognizing", "resolving"} /\ stage[c] # "ready"
  BY <1>1, <1>2 DEF ControlOf
<1>4. /\ script[c].kind = "load" => script[c].file \in Files /\ script[c].tag \in Labels
      /\ script[c].kind = "run" => \A label \in Labels : script[c].module # RecognizerOf[label]
  BY <1>3, ScriptKnown
<1>5. ASSUME call[c].op = "recognize"
      PROVE  /\ script[c].kind \in {"load", "run"}
             /\ call[c].module = ModuleOf(script[c])
  <2>1. stage[c] # "resolving"
    BY <1>1, <1>5 DEF ControlOf
  <2> QED
    BY <1>1, <1>3, <2>1 DEF ControlOf
<1>6. ASSUME call[c].op = "resolve"
      PROVE  script[c].kind = "load" /\ call[c].module = ResolverOf[script[c].tag]
  <2>1. stage[c] # "recognizing"
    BY <1>1, <1>6 DEF ControlOf
  <2> QED
    BY <1>1, <1>3, <2>1 DEF ControlOf
<1>7. CASE script[c].kind = "load" /\ call[c].op = "recognize"
  <2> DEFINE found == [d \in batch[c] |-> GivenSpans(script[c].file, TextOf[d])]
             predicted == {d \in batch[c] : found[d] # Unavailable}
  <2>1. predicted \subseteq documents /\ InsertRecognitions(c, predicted, found)
    BY <1>7 DEF Commits
  <2>2. call[c].module = RecognizerOf[script[c].tag]
    BY <1>5, <1>7 DEF ModuleOf
  <2>3. Stores(c, predicted, found)
    BY <1>4, <1>7, <2>1, <2>2 DEF Stores
  <2> HIDE DEF found, predicted
  <2> QED
    BY <2>3
<1>8. CASE script[c].kind # "load" /\ call[c].op = "recognize"
  <2>1. PICK predicted \in SUBSET (batch[c] \cap documents) :
               \E found : InsertRecognitions(c, predicted, found)
    BY <1>8 DEF Commits
  <2>2. PICK found : InsertRecognitions(c, predicted, found)
    BY <2>1
  <2>3. \A label \in Labels : call[c].module # RecognizerOf[label]
    BY <1>4, <1>5, <1>8 DEF ModuleOf
  <2>4. Stores(c, predicted, found)
    BY <1>8, <2>2, <2>3 DEF Stores
  <2> QED
    BY <2>4
<1>9. CASE script[c].kind = "load" /\ call[c].op = "resolve"
  <2> DEFINE place == [x \in batch[c] |->
                         GivenPlace(script[c].file, TextOf[x.document], x.span)]
             predicted == {x \in batch[c] : place[x] # Unavailable}
  <2>1. /\ predicted \subseteq references /\ \A x \in predicted : place[x] \in Installed
        /\ InsertResolutions(c, predicted, place)
    BY <1>9 DEF Commits
  <2>2. \A x \in predicted : place[x] \in Features
    BY <2>1, PredictionAssumption
  <2>3. Links(c, predicted, place)
    BY <1>4, <1>6, <1>9, <2>1, <2>2 DEF Links
  <2> HIDE DEF place, predicted
  <2> QED
    BY <2>3
<1> QED
  BY <1>7, <1>8, <1>9 DEF Commits

-----------------------------------------------------------------------------
(***************************************************************************)
(* Rows and their markers.                                                 *)
(***************************************************************************)

\* A row lives in a live project, a reference beside the marker of its recognizer.
LEMMA RowsStep ==
  ASSUME ControlInv, RowsInv, RowKinds
  PROVE  RowsInv'
<1>1. CASE Keeps
  BY <1>1 DEF RowsInv, Keeps, resultVars, Recognized
<1>2. ASSUME NEW p \in Projects, CreateProject(p)
      PROVE  RowsInv'
  <2>1. /\ projects' = [projects EXCEPT ![p] = "live"]
        /\ UNCHANGED <<documents, references, recognitions>>
    BY <1>2 DEF CreateProject, resultVars
  <2> QED
    BY <2>1 DEF RowsInv, Recognized, ControlInv, Shape
<1>3. ASSUME NEW p \in Projects, NEW D \in SUBSET Uncreated(p), CreateDocuments(p, D)
      PROVE  RowsInv'
  <2>1. /\ documents' = documents \cup D /\ projects[p] = "live"
        /\ UNCHANGED <<projects, references, recognitions>>
    BY <1>3 DEF CreateDocuments, resultVars
  <2>2. \A d \in D : d \in Docs /\ HomeOf[d] = p
    BY DEF Uncreated
  <2> QED
    BY <2>1, <2>2 DEF RowsInv, Recognized
<1>4. ASSUME NEW p \in Projects, DeleteProject(p)
      PROVE  RowsInv'
  <2>1. /\ projects' = [projects EXCEPT ![p] = "deleted"]
        /\ documents' = {d \in documents : HomeOf[d] # p}
        /\ references' = {x \in references : x.document \in documents'}
        /\ recognitions' = {x \in recognitions : x.document \in documents'}
    BY <1>4 DEF DeleteProject
  <2>2. documents' \subseteq Docs
    BY <2>1 DEF RowsInv
  <2>3. \A d \in documents' : projects'[HomeOf[d]] = "live"
    BY <2>1 DEF RowsInv, ControlInv, Shape
  <2>4. ASSUME NEW x \in references'
        PROVE  x.document \in documents' /\ Recognized(x.document, x.recognizer)'
    BY <2>1, <2>4 DEF RowsInv, Recognized
  <2> QED
    BY <2>2, <2>3, <2>4 DEF RowsInv
<1>5. ASSUME NEW c \in Clients, Commits(c)
      PROVE  RowsInv'
  <2>1. ASSUME NEW predicted, NEW found, Stores(c, predicted, found)
        PROVE  RowsInv'
    <3>1. predicted \subseteq documents /\ InsertRecognitions(c, predicted, found)
      BY <2>1 DEF Stores
    <3> QED
      BY <3>1, RecognitionRows DEF RowsInv
  <2>2. ASSUME NEW predicted, NEW place, Links(c, predicted, place)
        PROVE  RowsInv'
    <3>1. InsertResolutions(c, predicted, place)
      BY <2>2 DEF Links
    <3>2. UNCHANGED <<projects, documents, references, recognitions>>
      BY <3>1, ResolutionRows
    <3> QED
      BY <3>2 DEF RowsInv, Recognized
  <2> QED
    BY <1>5, <2>1, <2>2, CommitKinds
<1> QED
  BY <1>1, <1>2, <1>3, <1>4, <1>5 DEF RowKinds

\* Referents and their markers come and go together.
LEMMA ReferentsStep ==
  ASSUME ControlInv, ReferentsMarked, RowKinds
  PROVE  ReferentsMarked'
<1>1. ASSUME UNCHANGED <<referents, resolutions>>
      PROVE  ReferentsMarked'
  BY <1>1 DEF ReferentsMarked
<1>2. CASE Keeps
  BY <1>1, <1>2 DEF Keeps, resultVars
<1>3. ASSUME NEW p \in Projects, CreateProject(p)
      PROVE  ReferentsMarked'
  BY <1>1, <1>3 DEF CreateProject, resultVars
<1>4. ASSUME NEW p \in Projects, NEW D, CreateDocuments(p, D)
      PROVE  ReferentsMarked'
  BY <1>1, <1>4 DEF CreateDocuments, resultVars
<1>5. ASSUME NEW p \in Projects, DeleteProject(p)
      PROVE  ReferentsMarked'
  <2>1. /\ referents' = {x \in referents : x.reference.document \in documents'}
        /\ resolutions' = {x \in resolutions : x.reference.document \in documents'}
    BY <1>5 DEF DeleteProject
  <2>2. ASSUME NEW x \in referents'
        PROVE  [reference |-> x.reference, resolver |-> x.resolver, run |-> x.run] \in resolutions'
    BY <2>1 DEF ReferentsMarked
  <2>3. ASSUME NEW m \in resolutions'
        PROVE  \E x \in referents' : x.reference = m.reference /\ x.resolver = m.resolver
                                     /\ x.run = m.run
    BY <2>1 DEF ReferentsMarked
  <2> QED
    BY <2>2, <2>3 DEF ReferentsMarked
<1>6. ASSUME NEW c \in Clients, Commits(c)
      PROVE  ReferentsMarked'
  <2>1. ASSUME NEW predicted, NEW found, Stores(c, predicted, found)
        PROVE  ReferentsMarked'
    BY <1>1, <2>1 DEF Stores, InsertRecognitions
  <2>2. ASSUME NEW predicted, NEW place, Links(c, predicted, place)
        PROVE  ReferentsMarked'
    <3> DEFINE s == call[c].module
    <3>1. /\ referents' = referents \cup
               {[reference |-> x, resolver |-> s, feature |-> place[x], run |-> ThisRun(c)] :
                  x \in predicted}
          /\ resolutions' = resolutions \cup
               [reference : predicted, resolver : {s}, run : {ThisRun(c)}]
      BY <2>2, ResolutionRows DEF Links
    <3> HIDE DEF s
    <3>2. ASSUME NEW x \in referents'
          PROVE  [reference |-> x.reference, resolver |-> x.resolver, run |-> x.run]
                   \in resolutions'
      BY <3>1 DEF ReferentsMarked
    <3>3. ASSUME NEW m \in resolutions'
          PROVE  \E x \in referents' : x.reference = m.reference /\ x.resolver = m.resolver
                                       /\ x.run = m.run
      <4>1. CASE m \in resolutions
        BY <3>1, <4>1 DEF ReferentsMarked
      <4>2. CASE m \notin resolutions
        <5>1. m.reference \in predicted /\ m.resolver = s /\ m.run = ThisRun(c)
          BY <3>1, <4>2
        <5> DEFINE y == [reference |-> m.reference, resolver |-> s, feature |-> place[m.reference],
                         run |-> ThisRun(c)]
        <5>2. y \in referents' /\ y.reference = m.reference /\ y.resolver = s
              /\ y.run = ThisRun(c)
          BY <3>1, <5>1
        <5> HIDE DEF y
        <5> QED
          BY <5>1, <5>2
      <4> QED
        BY <4>1, <4>2
    <3> QED
      BY <3>2, <3>3 DEF ReferentsMarked
  <2> QED
    BY <1>6, <2>1, <2>2, CommitKinds
<1> QED
  BY <1>2, <1>3, <1>4, <1>5, <1>6 DEF RowKinds

\* A place is one that a file gives.
LEMMA PlacesStep ==
  ASSUME ControlInv, PlacesInv, RowKinds
  PROVE  PlacesInv'
<1>1. CASE Keeps
  BY <1>1 DEF Keeps, resultVars, PlacesInv
<1>2. ASSUME NEW p \in Projects, CreateProject(p)
      PROVE  PlacesInv'
  BY <1>2 DEF CreateProject, resultVars, PlacesInv
<1>3. ASSUME NEW p \in Projects, NEW D, CreateDocuments(p, D)
      PROVE  PlacesInv'
  BY <1>3 DEF CreateDocuments, resultVars, PlacesInv
<1>4. ASSUME NEW p \in Projects, DeleteProject(p)
      PROVE  PlacesInv'
  BY <1>4 DEF DeleteProject, PlacesInv
<1>5. ASSUME NEW c \in Clients, Commits(c)
      PROVE  PlacesInv'
  <2>1. ASSUME NEW predicted, NEW found, Stores(c, predicted, found)
        PROVE  PlacesInv'
    BY <2>1 DEF Stores, InsertRecognitions, PlacesInv
  <2>2. ASSUME NEW predicted, NEW place, Links(c, predicted, place)
        PROVE  PlacesInv'
    <3>1. ASSUME NEW y \in referents', y \notin referents
          PROVE  y.feature \in Places(y.reference.document, y.reference.span)
      <4>1. PICK x \in predicted : y.reference = x /\ y.feature = place[x]
        BY <2>2, <3>1, ResolutionRows DEF Links
      <4>2. /\ place[x] = GivenPlace(script[c].file, TextOf[x.document], x.span)
            /\ place[x] \in Features /\ script[c].file \in Files
        BY <2>2 DEF Links
      <4> QED
        BY <4>1, <4>2 DEF Places
    <3> QED
      BY <3>1 DEF PlacesInv
  <2> QED
    BY <1>5, <2>1, <2>2, CommitKinds
<1> QED
  BY <1>1, <1>2, <1>3, <1>4, <1>5 DEF RowKinds

\* A recognizer finds no marker on a document that no other run has held.
LEMMA WholeStep ==
  ASSUME ControlInv, RowsInv, GuardInv, WholeInv, RowKinds
  PROVE  WholeInv'
<1>1. ASSUME contended \subseteq contended',
             \A d \in Docs, r \in Recognizers : Recognized(d, r)' => Recognized(d, r) /\
               SpansOf(d, r)' = SpansOf(d, r)
      PROVE  WholeInv'
  <2>1. \A label \in Labels : RecognizerOf[label] \in Recognizers
    BY LabelAssumption
  <2> QED
    BY <1>1, <2>1 DEF WholeInv
<1>2. ASSUME UNCHANGED <<references, recognitions>>, contended \subseteq contended'
      PROVE  WholeInv'
  BY <1>1, <1>2 DEF Recognized, SpansOf
<1>3. CASE Keeps
  BY <1>2, <1>3 DEF Keeps, resultVars
<1>4. ASSUME NEW p \in Projects, CreateProject(p)
      PROVE  WholeInv'
  BY <1>2, <1>4 DEF CreateProject, resultVars, callVars
<1>5. ASSUME NEW p \in Projects, NEW D, CreateDocuments(p, D)
      PROVE  WholeInv'
  BY <1>2, <1>5 DEF CreateDocuments, resultVars, callVars
<1>6. ASSUME NEW p \in Projects, DeleteProject(p)
      PROVE  WholeInv'
  <2>1. /\ references' = {x \in references : x.document \in documents'}
        /\ recognitions' = {x \in recognitions : x.document \in documents'}
        /\ contended' = contended
    BY <1>6 DEF DeleteProject, callVars
  <2>2. ASSUME NEW d \in Docs, NEW r \in Recognizers, Recognized(d, r)'
        PROVE  Recognized(d, r) /\ SpansOf(d, r)' = SpansOf(d, r)
    <3>1. d \in documents' /\ Recognized(d, r)
      BY <2>1, <2>2 DEF Recognized
    <3>2. \A y : y \in references' /\ y.document = d /\ y.recognizer = r
                   <=> y \in references /\ y.document = d /\ y.recognizer = r
      BY <2>1, <3>1
    <3>3. SpansOf(d, r)' = SpansOf(d, r)
      BY <3>2 DEF SpansOf
    <3> QED
      BY <3>1, <3>3
  <2> QED
    BY <1>1, <2>1, <2>2
<1>7. ASSUME NEW c \in Clients, Commits(c)
      PROVE  WholeInv'
  <2>1. ASSUME NEW predicted, NEW found, Stores(c, predicted, found)
        PROVE  WholeInv'
    <3> DEFINE r == call[c].module
    <3>1. /\ \A x \in references : x \in references'
          /\ \A x \in references' : x \in references \/
               /\ x.document \in predicted /\ x.recognizer = r
               /\ x.span \in found[x.document]
          /\ \A d \in predicted : \A span \in Spans \cap found[d] :
               \E x \in references' : x.document = d /\ x.recognizer = r /\ x.span = span
          /\ \A d, q : Recognized(d, q)' <=> Recognized(d, q) \/ (d \in predicted /\ q = r)
          /\ UNCHANGED contended
      BY <2>1, RecognitionRows DEF Stores
    <3>2. /\ call[c].op = "recognize" /\ pc[c] = "commit"
          /\ predicted \subseteq batch[c] \cap documents
      BY <1>7, <2>1 DEF Stores, Commits
    <3>3. \A d \in predicted : Recognized(d, r) => <<d, r>> \in contended
      BY <3>2 DEF GuardInv
    <3> HIDE DEF r
    <3>4. SUFFICES ASSUME NEW d \in Docs, NEW label \in Labels,
                          Recognized(d, RecognizerOf[label])',
                          <<d, RecognizerOf[label]>> \notin contended
                   PROVE  \E file \in Files :
                            /\ Known(file, TextOf[d])
                            /\ SpansOf(d, RecognizerOf[label])' = GivenSpans(file, TextOf[d])
      BY <3>1 DEF WholeInv
    <3> DEFINE q == RecognizerOf[label]
    <3>5. CASE ~(d \in predicted /\ q = r)
      <4>1. Recognized(d, q)
        BY <3>1, <3>4, <3>5
      <4>2. \A y : y \in references' /\ y.document = d /\ y.recognizer = q
                     <=> y \in references /\ y.document = d /\ y.recognizer = q
        BY <3>1, <3>5
      <4>3. SpansOf(d, q)' = SpansOf(d, q)
        BY <4>2 DEF SpansOf
      <4> QED
        BY <3>4, <4>1, <4>3 DEF WholeInv
    <3>6. CASE d \in predicted /\ q = r
      <4>1. ~Recognized(d, q)
        BY <3>3, <3>4, <3>6
      <4>2. \A y \in references : ~(y.document = d /\ y.recognizer = q)
        BY <4>1 DEF RowsInv
      <4>3. /\ script[c].file \in Files
            /\ found[d] = GivenSpans(script[c].file, TextOf[d])
            /\ found[d] # Unavailable
        BY <2>1, <3>6 DEF Stores, r
      <4>4. Known(script[c].file, TextOf[d]) /\ found[d] \in SUBSET Spans
        BY <3>6, <4>3, SpansGiven
      <4>5. SpansOf(d, q)' = found[d]
        <5>1. ASSUME NEW y \in references', y.document = d, y.recognizer = q
              PROVE  y.span \in found[d]
          BY <3>1, <4>2, <5>1
        <5>2. ASSUME NEW span \in found[d]
              PROVE  \E y \in references' : y.document = d /\ y.recognizer = q /\ y.span = span
          BY <3>1, <3>6, <4>4, <5>2
        <5> QED
          BY <5>1, <5>2 DEF SpansOf
      <4> QED
        BY <3>6, <4>3, <4>4, <4>5
    <3> QED
      BY <3>5, <3>6
  <2>2. ASSUME NEW predicted, NEW place, Links(c, predicted, place)
        PROVE  WholeInv'
    <3>1. UNCHANGED <<references, recognitions, contended>>
      BY <2>2, ResolutionRows DEF Links
    <3> QED
      BY <1>2, <3>1
  <2> QED
    BY <1>7, <2>1, <2>2, CommitKinds
<1> QED
  BY <1>3, <1>4, <1>5, <1>6, <1>7 DEF RowKinds

-----------------------------------------------------------------------------
(***************************************************************************)
(* What has been done to a document lasts as long as the document.         *)
(***************************************************************************)

\* A reference is new only on a document that its recognizer has not processed,
\* unless two runs held that.
Grows ==
  /\ contended \subseteq contended'
  /\ \A d \in Docs : Spared(d) => Spared(d)'
  /\ \A d \in documents' : Spared(d) => d \in documents
  /\ \A d \in documents' : \A r : Recognized(d, r) => Recognized(d, r)'
  /\ \A x \in references' : \A s : Resolved(x, s) => Resolved(x, s)'
  /\ \A x \in references' : \/ x \in references
                            \/ ~Recognized(x.document, x.recognizer)
                            \/ <<x.document, x.recognizer>> \in contended

LEMMA GrowsStep ==
  ASSUME ControlInv, RowsInv, GuardInv, RowKinds
  PROVE  Grows
<1>1. CASE Keeps
  BY <1>1 DEF Keeps, resultVars, Grows, Spared, Recognized, Resolved
<1>2. ASSUME NEW p \in Projects, CreateProject(p)
      PROVE  Grows
  <2>1. /\ projects[p] = "new" /\ projects' = [projects EXCEPT ![p] = "live"]
        /\ UNCHANGED <<documents, references, recognitions, resolutions, contended>>
    BY <1>2 DEF CreateProject, resultVars, callVars
  <2>2. \A d \in Docs : projects[HomeOf[d]] = "deleted" => projects'[HomeOf[d]] = "deleted"
    BY <2>1, HomeAssumption DEF ControlInv, Shape
  <2>3. \A d \in documents' : d \in documents
    BY <2>1
  <2> QED
    BY <2>1, <2>2, <2>3 DEF Grows, Spared, Recognized, Resolved
<1>3. ASSUME NEW p \in Projects, NEW D \in SUBSET Uncreated(p), CreateDocuments(p, D)
      PROVE  Grows
  <2>1. /\ projects[p] = "live" /\ documents' = documents \cup D
        /\ UNCHANGED <<projects, references, recognitions, resolutions, contended>>
    BY <1>3 DEF CreateDocuments, resultVars, callVars
  <2>2. \A d \in D : HomeOf[d] = p
    BY DEF Uncreated
  <2> QED
    BY <2>1, <2>2 DEF Grows, Spared, Recognized, Resolved
<1>4. ASSUME NEW p \in Projects, DeleteProject(p)
      PROVE  Grows
  <2>1. /\ projects' = [projects EXCEPT ![p] = "deleted"]
        /\ documents' = {d \in documents : HomeOf[d] # p}
        /\ references' = {x \in references : x.document \in documents'}
        /\ recognitions' = {x \in recognitions : x.document \in documents'}
        /\ resolutions' = {x \in resolutions : x.reference.document \in documents'}
        /\ contended' = contended
    BY <1>4 DEF DeleteProject, callVars
  <2>2. \A d \in Docs : Spared(d) => Spared(d)'
    BY <2>1, HomeAssumption DEF Spared, ControlInv, Shape
  <2>3. \A d \in documents' : \A r : Recognized(d, r) => Recognized(d, r)'
    BY <2>1 DEF Recognized
  <2>4. ASSUME NEW x \in references', NEW s, Resolved(x, s)
        PROVE  Resolved(x, s)'
    BY <2>1, <2>4 DEF Resolved
  <2> QED
    BY <2>1, <2>2, <2>3, <2>4 DEF Grows
<1>5. ASSUME NEW c \in Clients, Commits(c)
      PROVE  Grows
  <2>1. ASSUME NEW predicted, NEW found, Stores(c, predicted, found)
        PROVE  Grows
    <3> DEFINE r == call[c].module
    <3>1. /\ \A x \in references' : x \in references \/
               /\ x.document \in predicted /\ x.recognizer = r
               /\ x.span \in found[x.document]
          /\ \A d, q : Recognized(d, q)' <=> Recognized(d, q) \/ (d \in predicted /\ q = r)
          /\ UNCHANGED <<projects, documents, resolutions, contended>>
      BY <2>1, RecognitionRows DEF Stores
    <3>2. /\ call[c].op = "recognize" /\ pc[c] = "commit"
          /\ predicted \subseteq batch[c] \cap documents
      BY <1>5, <2>1 DEF Stores, Commits
    <3>3. \A d \in predicted : Recognized(d, r) => <<d, r>> \in contended
      BY <3>2 DEF GuardInv
    <3> HIDE DEF r
    <3>4. \A d \in documents' : d \in documents
      BY <3>1
    <3>5. ASSUME NEW x \in references'
          PROVE  \/ x \in references
                 \/ ~Recognized(x.document, x.recognizer)
                 \/ <<x.document, x.recognizer>> \in contended
      BY <3>1, <3>3
    <3>6. \A x \in references' : \A s : Resolved(x, s) => Resolved(x, s)'
      BY <3>1 DEF Resolved
    <3>7. \A d \in Docs : Spared(d) => Spared(d)'
      BY <3>1 DEF Spared
    <3> QED
      BY <3>1, <3>4, <3>5, <3>6, <3>7 DEF Grows
  <2>2. ASSUME NEW predicted, NEW place, Links(c, predicted, place)
        PROVE  Grows
    <3>1. /\ \A x, q : Resolved(x, q) => Resolved(x, q)'
          /\ UNCHANGED <<projects, documents, references, recognitions, contended>>
      BY <2>2, ResolutionRows DEF Links
    <3> QED
      BY <3>1 DEF Grows, Spared, Recognized
  <2> QED
    BY <1>5, <2>1, <2>2, CommitKinds
<1> QED
  BY <1>1, <1>2, <1>3, <1>4, <1>5 DEF RowKinds

\* The documents of a load keep what the load has done to them, and no reference
\* comes that it would have had to link.
LEMMA Lasting ==
  ASSUME Grows, RowsInv', NEW l, OfProject(l)
  PROVE  /\ OfProject(l)'
         /\ \A d \in l.docs \cap documents' : d \in documents
         /\ Processed(l) => Processed(l)'
         /\ Processed(l) => Due(l)' \subseteq Due(l)
         /\ Processed(l) /\ LinkedIn(l, Due(l)) => LinkedIn(l, Due(l))'
<1>1. OfProject(l)'
  BY DEF OfProject, Grows
<1>2. \A d \in l.docs \cap documents' : d \in documents
  BY DEF OfProject, Grows
<1>3. Processed(l) => Processed(l)'
  BY <1>2 DEF Processed, Grows
<1>4. ASSUME Processed(l), NEW x \in Due(l)'
      PROVE  x \in Due(l)
  <2>1. /\ x \in references' /\ x.document \in l.docs
        /\ x.recognizer = RecognizerOf[l.tag] /\ Known(l.file, TextOf[x.document])
        /\ <<x.document, x.recognizer>> \notin contended'
    BY <1>4 DEF Due
  <2>2. x.document \in documents
    BY <1>2, <2>1 DEF RowsInv
  <2>3. Recognized(x.document, x.recognizer)
    BY <1>4, <2>1, <2>2 DEF Processed
  <2>4. <<x.document, x.recognizer>> \notin contended
    BY <2>1 DEF Grows
  <2>5. x \in references
    BY <2>1, <2>3, <2>4 DEF Grows
  <2> QED
    BY <2>1, <2>4, <2>5 DEF Due
<1>5. ASSUME Processed(l), LinkedIn(l, Due(l))
      PROVE  LinkedIn(l, Due(l))'
  <2>1. ASSUME NEW x \in Due(l)', GivenPlace(l.file, TextOf[x.document], x.span) # Unavailable
        PROVE  Resolved(x, ResolverOf[l.tag])'
    <3>1. x \in Due(l) /\ x \in references'
      BY <1>4, <1>5, <2>1 DEF Due
    <3>2. Resolved(x, ResolverOf[l.tag])
      BY <1>5, <2>1, <3>1 DEF LinkedIn
    <3> QED
      BY <3>1, <3>2 DEF Grows
  <2> QED
    BY <2>1 DEF LinkedIn
<1> QED
  BY <1>1, <1>2, <1>3, <1>4, <1>5

-----------------------------------------------------------------------------
(***************************************************************************)
(* What the scripts that do not move had done stays done.                  *)
(***************************************************************************)

Stands(b) ==
  /\ pc'[b] = pc[b] /\ call'[b] = call[b] /\ items'[b] = items[b] /\ batch'[b] = batch[b]
  /\ script'[b] = script[b] /\ stage'[b] = stage[b] /\ home'[b] = home[b]
  /\ handed'[b] = handed[b]

LEMMA StandingKept ==
  ASSUME Grows, RowsInv', NEW b \in Clients, Stands(b), MarkingOf(b), LinkingOf(b)
  PROVE  MarkingOf(b)' /\ LinkingOf(b)'
<1>1. Reading(b)' = Reading(b) /\ Loaded(b)' = Loaded(b)
  BY DEF Stands, Reading, Loaded
<1>2. PICK l : l = Reading(b)
  OBVIOUS
<1>3. PICK k : k = Loaded(b)
  OBVIOUS
<1>4. l.docs = items[b]
  BY <1>2 DEF Reading
<1>5. MarkingOf(b)'
  <2>1. SUFFICES ASSUME stage[b] = "recognizing", script[b].kind = "load"
                 PROVE  /\ pc[b] \in ItemSteps => OfProject(l)'
                        /\ pc[b] = "commit" => \A d \in items[b] \cap documents' :
                             d \in batch[b] \/ Recognized(d, call[b].module)'
                        /\ pc[b] \in TagSteps => Processed(l)'
    BY <1>1, <1>2 DEF MarkingOf, Stands, OfProject, Processed
  <2>2. /\ pc[b] \in ItemSteps => OfProject(l)
        /\ pc[b] = "commit" => \A d \in items[b] \cap documents :
             d \in batch[b] \/ Recognized(d, call[b].module)
        /\ pc[b] \in TagSteps => Processed(l)
    BY <1>2, <2>1 DEF MarkingOf
  <2>3. TagSteps \subseteq ItemSteps /\ "commit" \in ItemSteps
    BY DEF TagSteps, ItemSteps
  <2>4. CASE pc[b] \in ItemSteps
    <3>1. /\ OfProject(l)' /\ \A d \in l.docs \cap documents' : d \in documents
          /\ Processed(l) => Processed(l)'
      BY <2>2, <2>4, Lasting
    <3>2. ASSUME pc[b] = "commit", NEW d \in items[b] \cap documents'
          PROVE  d \in batch[b] \/ Recognized(d, call[b].module)'
      BY <1>4, <2>2, <3>1, <3>2 DEF Grows, Stands
    <3> QED
      BY <2>2, <3>1, <3>2
  <2> QED
    BY <2>3, <2>4
<1>6. LinkingOf(b)'
  <2>1. SUFFICES ASSUME stage[b] \in {"places", "resolving"}
                 PROVE  /\ OfProject(k)' /\ Processed(k)'
                        /\ stage[b] = "resolving" =>
                             /\ pc[b] \in {"ensure", "register", "filter"} =>
                                  Due(k)' \subseteq items[b]
                             /\ pc[b] = "commit" => \A x \in Due(k)' :
                                  x \in batch[b] \/ Resolved(x, call[b].module)'
                             /\ pc[b] \in TagSteps => LinkedIn(k, Due(k))'
    BY <1>1, <1>3 DEF LinkingOf, Stands, OfProject, Processed, Due, LinkedIn
  <2>2. /\ OfProject(k) /\ Processed(k)
        /\ stage[b] = "resolving" =>
             /\ pc[b] \in {"ensure", "register", "filter"} => Due(k) \subseteq items[b]
             /\ pc[b] = "commit" => \A x \in Due(k) : x \in batch[b] \/ Resolved(x, call[b].module)
             /\ pc[b] \in TagSteps => LinkedIn(k, Due(k))
    BY <1>3, <2>1 DEF LinkingOf
  <2>3. /\ OfProject(k)' /\ Processed(k)' /\ Due(k)' \subseteq Due(k)
        /\ LinkedIn(k, Due(k)) => LinkedIn(k, Due(k))'
    BY <2>2, Lasting
  <2>4. ASSUME stage[b] = "resolving", pc[b] = "commit", NEW x \in Due(k)'
        PROVE  x \in batch[b] \/ Resolved(x, call[b].module)'
    <3>1. x \in Due(k) /\ x \in references'
      BY <2>3, <2>4 DEF Due
    <3> QED
      BY <2>2, <2>4, <3>1 DEF Grows, Stands
  <2> QED
    BY <2>2, <2>3, <2>4
<1> QED
  BY <1>5, <1>6

-----------------------------------------------------------------------------
(***************************************************************************)
(* Only two runs that hold a document together both find it unprocessed.   *)
(***************************************************************************)

\* A client that does not come to a commit, beside rows without a new marker.
LEMMA CalmGuard ==
  ASSUME GuardInv, contended \subseteq contended', NEW c \in Clients, OthersStay(c),
         \/ pc'[c] # "commit"
         \/ pc'[c] = pc[c] /\ call'[c] = call[c] /\ batch'[c] = batch[c],
         \A d, r : Recognized(d, r)' => Recognized(d, r)
  PROVE  GuardInv'
<1>1. ASSUME NEW b \in Clients, pc'[b] = "commit"
      PROVE  pc[b] = "commit" /\ call'[b] = call[b] /\ batch'[b] = batch[b]
  BY <1>1 DEF OthersStay
<1>2. ASSUME NEW b \in Clients, NEW d \in batch'[b], pc'[b] = "commit",
             call'[b].op = "recognize", Recognized(d, call[b].module)'
      PROVE  <<d, call'[b].module>> \in contended'
  <2>1. pc[b] = "commit" /\ call'[b] = call[b] /\ batch'[b] = batch[b]
    BY <1>1, <1>2
  <2>2. PICK r : r = call[b].module
    OBVIOUS
  <2>3. Recognized(d, r)'
    BY <1>2, <2>1, <2>2
  <2>4. Recognized(d, r)
    BY <2>3
  <2> QED
    BY <1>2, <2>1, <2>2, <2>4 DEF GuardInv
<1>3. ASSUME NEW a \in Clients, NEW b \in Clients, NEW d \in batch'[a] \cap batch'[b],
             a # b, pc'[a] = "commit", pc'[b] = "commit",
             call'[a].op = "recognize", call'[b].op = "recognize",
             call'[a].module = call'[b].module
      PROVE  <<d, call'[b].module>> \in contended'
  <2>1. /\ pc[a] = "commit" /\ call'[a] = call[a] /\ batch'[a] = batch[a]
        /\ pc[b] = "commit" /\ call'[b] = call[b] /\ batch'[b] = batch[b]
    BY <1>1, <1>3
  <2> QED
    BY <1>3, <2>1 DEF GuardInv
<1> QED
  BY <1>2, <1>3 DEF GuardInv

\* A run that fills its batch sees the markers, and is noted beside its rivals.
LEMMA FilterGuard ==
  ASSUME ControlInv, GuardInv, NEW c \in Clients, Filter(c)
  PROVE  GuardInv'
<1>1. /\ pc[c] = "filter" /\ batch'[c] = Unprocessed(c) /\ call' = call
      /\ \A b \in Clients \ {c} : pc'[b] = pc[b] /\ batch'[b] = batch[b]
      /\ contended' = contended \cup
           {<<i, call[c].module>> : i \in {j \in Unprocessed(c) :
                                             \E b \in Rivals(c) : j \in batch[b]}}
      /\ UNCHANGED recognitions
  BY DEF Filter, Goto, ControlInv, Shape, dbVars, resultVars
<1>2. contended \subseteq contended'
  BY <1>1
<1>3. ASSUME call[c].op = "recognize", NEW d \in batch'[c]
      PROVE  ~Recognized(d, call[c].module)
  BY <1>1, <1>3 DEF Unprocessed
<1>4. ASSUME NEW b \in Clients \ {c}, NEW d \in batch[b] \cap batch'[c], pc[b] = "commit",
             call[b].module = call[c].module
      PROVE  <<d, call[c].module>> \in contended'
  <2>1. b \in Rivals(c)
    BY <1>4 DEF Rivals
  <2> QED
    BY <1>1, <1>4, <2>1
<1>5. ASSUME NEW b \in Clients, NEW d \in batch'[b], pc'[b] = "commit",
             call[b].op = "recognize", Recognized(d, call[b].module)
      PROVE  <<d, call[b].module>> \in contended'
  <2>1. b # c
    BY <1>3, <1>5
  <2> QED
    BY <1>1, <1>2, <1>5, <2>1 DEF GuardInv
<1>6. ASSUME NEW a \in Clients, NEW b \in Clients, NEW d \in batch'[a] \cap batch'[b],
             a # b, pc'[a] = "commit", pc'[b] = "commit",
             call[a].op = "recognize", call[b].op = "recognize",
             call[a].module = call[b].module
      PROVE  <<d, call[b].module>> \in contended'
  <2>1. CASE a = c
    BY <1>1, <1>4, <1>6, <2>1
  <2>2. CASE b = c
    BY <1>1, <1>4, <1>6, <2>2
  <2>3. CASE a # c /\ b # c
    BY <1>1, <1>2, <1>6, <2>3 DEF GuardInv
  <2> QED
    BY <2>1, <2>2, <2>3
<1>7. \A d, r : Recognized(d, r)' <=> Recognized(d, r)
  BY <1>1 DEF Recognized
<1>8. ASSUME NEW b \in Clients, NEW d \in batch'[b]
      PROVE  Recognized(d, call[b].module)' <=> Recognized(d, call[b].module)
  BY <1>1 DEF Recognized
<1> QED
  BY <1>1, <1>5, <1>6, <1>8 DEF GuardInv

\* A document that another run still holds is noted before its marker comes.
LEMMA CommitGuard ==
  ASSUME ControlInv, GuardInv, NEW c \in Clients, Commits(c), OthersStay(c)
  PROVE  GuardInv'
<1>1. pc[c] = "commit" /\ pc'[c] = "tag"
  BY DEF Commits
<1>2. ASSUME NEW predicted, NEW found, Stores(c, predicted, found)
      PROVE  GuardInv'
  <2>1. /\ call[c].op = "recognize" /\ predicted \subseteq batch[c]
        /\ InsertRecognitions(c, predicted, found) /\ UNCHANGED <<call, batch, contended>>
    BY <1>2 DEF Stores, InsertRecognitions, callVars
  <2> DEFINE m == call[c].module
  <2>2. \A d, q : Recognized(d, q)' <=> Recognized(d, q) \/ (d \in predicted /\ q = m)
    BY <2>1, RecognitionRows
  <2>3. ASSUME NEW b \in Clients, NEW d \in batch[b], pc'[b] = "commit",
               call[b].op = "recognize", Recognized(d, call[b].module)'
        PROVE  <<d, call[b].module>> \in contended
    <3>1. b # c /\ pc[b] = "commit"
      BY <1>1, <2>3 DEF OthersStay
    <3>2. PICK q : q = call[b].module
      OBVIOUS
    <3>3. Recognized(d, q)'
      BY <2>1, <2>3, <3>2
    <3>4. CASE Recognized(d, q)
      BY <2>3, <3>1, <3>2, <3>4 DEF GuardInv
    <3>5. CASE d \in predicted /\ q = m
      BY <1>1, <2>1, <2>3, <3>1, <3>2, <3>5 DEF GuardInv
    <3> HIDE DEF m
    <3> QED
      BY <2>2, <3>3, <3>4, <3>5
  <2> HIDE DEF m
  <2>4. ASSUME NEW a \in Clients, NEW b \in Clients, NEW d \in batch[a] \cap batch[b],
               a # b, pc'[a] = "commit", pc'[b] = "commit",
               call[a].op = "recognize", call[b].op = "recognize",
               call[a].module = call[b].module
        PROVE  <<d, call[b].module>> \in contended
    <3>1. pc[a] = "commit" /\ pc[b] = "commit"
      BY <1>1, <2>4 DEF OthersStay
    <3> QED
      BY <2>4, <3>1 DEF GuardInv
  <2> QED
    BY <2>1, <2>3, <2>4 DEF GuardInv
<1>3. ASSUME NEW predicted, NEW place, Links(c, predicted, place)
      PROVE  GuardInv'
  <2>1. UNCHANGED <<recognitions, contended>>
    BY <1>3, ResolutionRows DEF Links
  <2>2. \A d, q : Recognized(d, q)' => Recognized(d, q)
    BY <2>1 DEF Recognized
  <2> QED
    BY <1>1, <2>1, <2>2, CalmGuard
<1> QED
  BY <1>2, <1>3, CommitKinds

LEMMA GuardStep ==
  ASSUME ControlInv, GuardInv, AnnotationsNext \/ UNCHANGED allVars
  PROVE  GuardInv'
<1>1. ASSUME UNCHANGED <<pc, call, batch, contended>>,
             \A d, r : Recognized(d, r)' => Recognized(d, r)
      PROVE  GuardInv'
  <2>1. ASSUME NEW b \in Clients, NEW d \in batch[b], Recognized(d, call[b].module)'
        PROVE  Recognized(d, call[b].module)
    <3>1. PICK r : r = call[b].module
      OBVIOUS
    <3>2. Recognized(d, r)'
      BY <1>1, <2>1, <3>1
    <3> QED
      BY <1>1, <3>1, <3>2
  <2> QED
    BY <1>1, <2>1 DEF GuardInv
<1>2. ASSUME UNCHANGED <<pc, callVars, recognitions>>
      PROVE  GuardInv'
  <2>1. \A d, r : Recognized(d, r)' => Recognized(d, r)
    BY <1>2 DEF Recognized
  <2> QED
    BY <1>1, <1>2, <2>1 DEF callVars
<1>3. ASSUME NEW c \in Clients, OthersStay(c), pc'[c] # "commit", Keeps
      PROVE  GuardInv'
  <2>1. \A d, r : Recognized(d, r)' => Recognized(d, r)
    BY <1>3 DEF Keeps, resultVars, Recognized
  <2> QED
    BY <1>3, <2>1, CalmGuard DEF Keeps
<1>4. CASE UNCHANGED allVars
  BY <1>2, <1>4 DEF allVars, vars, dbVars
<1>5. ASSUME NEW c \in Clients, NEW s \in Scripts[c], Start(c, s)
      PROVE  GuardInv'
  BY <1>2, <1>5 DEF Start, vars, dbVars
<1>6. ASSUME NEW c \in Clients, LookUp(c)
      PROVE  GuardInv'
  BY <1>2, <1>6 DEF LookUp, vars, dbVars
<1>7. ASSUME NEW c \in Clients, InsertProject(c)
      PROVE  GuardInv'
  BY <1>2, <1>7 DEF InsertProject, CreateProject, resultVars
<1>8. ASSUME NEW c \in Clients, AddTexts(c)
      PROVE  GuardInv'
  BY <1>2, <1>8 DEF AddTexts, CreateDocuments, resultVars
<1>9. ASSUME NEW c \in Clients, NEW args, Begin(c, args)
      PROVE  GuardInv'
  <2>1. OthersStay(c) /\ pc'[c] = "open" /\ Keeps
    BY <1>9 DEF Begin, Goto, ControlInv, Shape, OthersStay, Keeps, dbVars, resultVars
  <2> QED
    BY <1>3, <2>1
<1>10. ASSUME NEW c \in Clients, RunModule(c)
       PROVE  GuardInv'
  <2>1. Path(c) /\ OthersStay(c)
    BY <1>10, RunFrame
  <2>2. CASE Filter(c)
    BY <2>2, FilterGuard
  <2>3. CASE Commits(c)
    BY <2>1, <2>3, CommitGuard
  <2>4. CASE ~Filter(c) /\ ~Commits(c)
    <3>1. pc'[c] # "commit"
      BY <2>1, <2>4 DEF Path, TagSteps
    <3>2. Keeps
      BY <2>1, <2>4, PathRows
    <3> QED
      BY <1>3, <2>1, <3>1, <3>2
  <2> QED
    BY <2>2, <2>3, <2>4
<1>11. ASSUME NEW c \in Clients, View(c)
       PROVE  GuardInv'
  <2>1. ViewPath(c) /\ OthersStay(c)
    BY <1>11, ViewFrame
  <2>2. pc'[c] # "commit" /\ Keeps
    BY <2>1 DEF ViewPath, ViewSteps
  <2> QED
    BY <1>3, <2>1, <2>2
<1>12. ASSUME NEW c \in Clients, Quit(c)
       PROVE  GuardInv'
  <2>1. OthersStay(c) /\ pc'[c] = "idle" /\ Keeps
    BY <1>12, QuitFrame
  <2> QED
    BY <1>3, <2>1
<1>13. ASSUME NEW p \in Projects, Delete(p)
       PROVE  GuardInv'
  <2>1. /\ UNCHANGED <<pc, call, batch, contended>>
        /\ recognitions' = {x \in recognitions : x.document \in documents'}
    BY <1>13 DEF Delete, DeleteProject, callVars
  <2>2. \A d, r : Recognized(d, r)' => Recognized(d, r)
    BY <2>1 DEF Recognized
  <2> QED
    BY <1>1, <2>1, <2>2
<1> QED
  BY <1>4, <1>5, <1>6, <1>7, <1>8, <1>9, <1>10, <1>11, <1>12, <1>13
     DEF AnnotationsNext, StartSpans, StartPlaces, RunRecognizer, RunResolver

-----------------------------------------------------------------------------
(***************************************************************************)
(* What a load has done when its recognizer, and then its resolver, moves  *)
(* the tag.                                                                *)
(***************************************************************************)

\* A call that goes on keeps its arguments.
LEMMA ContinuesFrame ==
  ASSUME NEW c \in Clients, Path(c), Continues(c)
  PROVE  /\ script'[c] = script[c] /\ stage'[c] = stage[c]
         /\ home'[c] = home[c] /\ handed'[c] = handed[c] /\ call'[c] = call[c]
         /\ \/ pc'[c] \in {"open_insert", "load"}
            \/ LoadDocuments(c) /\ pc'[c] = "ensure"
            \/ pc'[c] \in {"register", "filter"} /\ pc[c] \in {"ensure", "register"} /\ Passes(c)
            \/ Filter(c) /\ pc'[c] \in {"tag", "commit"}
            \/ Commits(c)
            \/ pc[c] \in TagSteps /\ pc'[c] \in TagSteps /\ Passes(c)
<1>1. pc'[c] # "idle" /\ UNCHANGED scriptVars
  BY DEF Continues
<1>2. script'[c] = script[c] /\ stage'[c] = stage[c] /\ home'[c] = home[c]
      /\ handed'[c] = handed[c]
  BY <1>1 DEF scriptVars
<1>3. call'[c] = call[c]
  BY <1>1 DEF Path, Passes, LoadDocuments, Filter, Commits, callVars
<1> QED
  BY <1>1, <1>2, <1>3 DEF Path

\* The module of a load's call is that of its label.
LEMMA LoadCall ==
  ASSUME ControlInv, NEW c \in Clients
  PROVE  /\ stage[c] = "recognizing" /\ script[c].kind = "load" =>
              /\ call[c].op = "recognize" /\ call[c].project = home[c]
              /\ call[c].module = RecognizerOf[script[c].tag]
         /\ stage[c] = "resolving" =>
              /\ call[c].op = "resolve" /\ call[c].project = home[c]
              /\ call[c].module = ResolverOf[script[c].tag]
<1>1. ControlOf(c)
  BY DEF ControlInv
<1>2. ASSUME stage[c] = "recognizing", script[c].kind = "load"
      PROVE  /\ call[c].op = "recognize" /\ call[c].project = home[c]
             /\ call[c].module = RecognizerOf[script[c].tag]
  <2>1. call[c] = [op |-> "recognize", project |-> home[c],
                   module |-> ModuleOf(script[c]), tag |-> script[c].tag]
    BY <1>1, <1>2 DEF ControlOf
  <2>2. ModuleOf(script[c]) = RecognizerOf[script[c].tag]
    BY <1>2 DEF ModuleOf
  <2> QED
    BY <2>1, <2>2
<1>3. ASSUME stage[c] = "resolving"
      PROVE  /\ call[c].op = "resolve" /\ call[c].project = home[c]
             /\ call[c].module = ResolverOf[script[c].tag]
  BY <1>1, <1>3 DEF ControlOf
<1> QED
  BY <1>2, <1>3

LEMMA RunMarking ==
  ASSUME ControlInv, RowsInv, Grows, RowsInv', NEW c \in Clients, Path(c), Continues(c),
         MarkingOf(c)
  PROVE  MarkingOf(c)'
<1>1. /\ script'[c] = script[c] /\ stage'[c] = stage[c]
      /\ home'[c] = home[c] /\ handed'[c] = handed[c] /\ call'[c] = call[c]
  BY ContinuesFrame
<1>2. SUFFICES ASSUME stage[c] = "recognizing", script[c].kind = "load"
               PROVE  /\ pc'[c] \in ItemSteps => OfProject(Reading(c))'
                      /\ pc'[c] = "commit" => \A d \in items'[c] \cap documents' :
                           d \in batch'[c] \/ Recognized(d, call[c].module)'
                      /\ pc'[c] \in TagSteps => Processed(Reading(c))'
  BY <1>1 DEF MarkingOf
<1>3. /\ call[c].op = "recognize" /\ call[c].project = home[c]
      /\ call[c].module = RecognizerOf[script[c].tag]
  BY <1>2, LoadCall
<1>4. /\ script[c].file \in Files /\ script[c].tag \in Labels
  BY <1>2, ScriptKnown
<1>0. PICK r : r = call[c].module
  OBVIOUS
<1>5. PICK l : l = Reading(c)
  OBVIOUS
<1>6. l.docs = items[c] /\ l.file = script[c].file /\ l.tag = script[c].tag
      /\ l.project = home[c]
  BY <1>5 DEF Reading
<1>7. CASE pc'[c] \in {"open_insert", "load"}
  BY <1>7 DEF ItemSteps, TagSteps
<1>8. CASE LoadDocuments(c) /\ pc'[c] = "ensure"
  <2>1. items'[c] = DocumentsOf(home[c]) /\ UNCHANGED documents
    BY <1>3, <1>8 DEF LoadDocuments, ControlInv, Shape, dbVars
  <2>2. PICK k : k = Reading(c)'
    OBVIOUS
  <2>3. k.docs = DocumentsOf(home[c]) /\ k.project = home[c]
    BY <1>1, <2>1, <2>2 DEF Reading
  <2>4. OfProject(k)'
    BY <2>1, <2>3 DEF OfProject, DocumentsOf, Spared, RowsInv
  <2>5. OfProject(Reading(c))'
    BY <2>2, <2>4 DEF OfProject
  <2> QED
    BY <1>8, <2>5 DEF TagSteps
<1>9. ASSUME pc[c] \in ItemSteps, items'[c] = items[c]
      PROVE  /\ OfProject(Reading(c))' /\ Reading(c)' = l
             /\ \A d \in items[c] \cap documents' : d \in documents
             /\ Processed(l) => Processed(l)'
  <2>1. OfProject(l)
    BY <1>2, <1>5, <1>9 DEF MarkingOf
  <2>2. Reading(c)' = l
    BY <1>1, <1>5, <1>9 DEF Reading
  <2>3. /\ OfProject(l)' /\ (Processed(l) => Processed(l)')
        /\ \A d \in items[c] \cap documents' : d \in documents
    BY <1>6, <2>1, Lasting
  <2> QED
    BY <2>2, <2>3 DEF OfProject
<1>10. CASE /\ pc'[c] \in {"register", "filter"} /\ pc[c] \in {"ensure", "register"}
            /\ Passes(c)
  <2>1. OfProject(Reading(c))'
    BY <1>9, <1>10 DEF ItemSteps, Passes
  <2> QED
    BY <1>10, <2>1 DEF TagSteps
<1>11. CASE Filter(c) /\ pc'[c] \in {"tag", "commit"}
  <2>1. /\ pc[c] = "filter" /\ items'[c] = items[c] /\ batch'[c] = Unprocessed(c)
        /\ UNCHANGED <<documents, recognitions>>
        /\ pc'[c] = "tag" => Unprocessed(c) = {}
    BY <1>11 DEF Filter, Goto, ControlInv, Shape, dbVars
  <2>2. /\ OfProject(Reading(c))' /\ Reading(c)' = l
        /\ \A d \in items[c] \cap documents' : d \in documents
        /\ Processed(l) => Processed(l)'
    BY <1>9, <2>1 DEF ItemSteps
  <2>3. \A d \in items[c] : d \in Unprocessed(c) \/ Recognized(d, call[c].module)
    BY <1>3 DEF Unprocessed
  <2>4. \A d \in items[c] : d \in Unprocessed(c) \/ Recognized(d, call[c].module)'
    BY <1>1, <2>1, <2>3 DEF Recognized
  <2>5. ASSUME pc'[c] = "tag"
        PROVE  Processed(Reading(c))'
    <3>1. \A d \in items[c] : Recognized(d, call[c].module)
      BY <2>1, <2>3, <2>5
    <3>2. Processed(l)
      BY <1>3, <1>6, <3>1 DEF Processed
    <3> QED
      BY <2>2, <3>2 DEF Processed
  <2> QED
    BY <1>1, <1>11, <2>1, <2>2, <2>4, <2>5 DEF TagSteps
<1>12. CASE Commits(c)
  <2>1. pc[c] = "commit" /\ pc'[c] = "tag" /\ items'[c] = items[c]
    BY <1>12 DEF Commits, callVars
  <2>2. OfProject(Reading(c))' /\ Reading(c)' = l
        /\ \A d \in items[c] \cap documents' : d \in documents
    BY <1>9, <2>1 DEF ItemSteps
  <2>3. ASSUME NEW predicted, NEW found, Stores(c, predicted, found)
        PROVE  Processed(l)'
    <3>1. ASSUME NEW d \in items[c] \cap documents', Known(script[c].file, TextOf[d])
          PROVE  Recognized(d, r)'
      <4>1. d \in documents
        BY <2>2, <3>1
      <4>2. d \in batch[c] \/ Recognized(d, call[c].module)
        BY <1>2, <2>1, <3>1, <4>1 DEF MarkingOf
      <4>3. \A e, q : Recognized(e, q)' <=> Recognized(e, q) \/ (e \in predicted /\ q = r)
        BY <1>0, <2>3, RecognitionRows DEF Stores
      <4>4. d \in batch[c] => d \in predicted
        BY <1>2, <1>4, <2>3, <3>1, SpansGiven DEF Stores
      <4> QED
        BY <1>0, <4>2, <4>3, <4>4
    <3>2. \A d \in l.docs \cap documents' :
            Known(l.file, TextOf[d]) => Recognized(d, RecognizerOf[l.tag])'
      BY <1>3, <1>6, <1>0, <3>1
    <3> QED
      BY <3>2 DEF Processed
  <2>4. ASSUME NEW predicted, NEW place, Links(c, predicted, place)
        PROVE  FALSE
    BY <1>3, <2>4 DEF Links
  <2>5. Processed(l)'
    BY <1>12, <2>3, <2>4, CommitKinds
  <2> QED
    BY <2>1, <2>2, <2>5 DEF TagSteps, Processed
<1>13. CASE pc[c] \in TagSteps /\ pc'[c] \in TagSteps /\ Passes(c)
  <2>1. /\ OfProject(Reading(c))' /\ Reading(c)' = l
        /\ Processed(l) => Processed(l)'
    BY <1>9, <1>13 DEF ItemSteps, TagSteps, Passes
  <2>2. Processed(l)
    BY <1>2, <1>5, <1>13 DEF MarkingOf
  <2> QED
    BY <1>13, <2>1, <2>2 DEF TagSteps, Processed
<1> QED
  BY <1>7, <1>8, <1>10, <1>11, <1>12, <1>13, ContinuesFrame

LEMMA RunLinking ==
  ASSUME ControlInv, RowsInv, Grows, RowsInv', NEW c \in Clients, Path(c), Continues(c),
         LinkingOf(c), stage[c] = "resolving"
  PROVE  LinkingOf(c)'
<1>0. PICK s : s = call[c].module
  OBVIOUS
<1>1. /\ script'[c] = script[c] /\ stage'[c] = "resolving"
      /\ home'[c] = home[c] /\ handed'[c] = handed[c] /\ call'[c] = call[c]
  BY ContinuesFrame
<1>2. PICK k : k = Loaded(c)
  OBVIOUS
<1>3. Loaded(c)' = k
  BY <1>1, <1>2 DEF Loaded
<1>4. /\ call[c].op = "resolve" /\ call[c].project = home[c]
      /\ s = ResolverOf[k.tag]
      /\ k.docs = handed[c] /\ k.project = home[c] /\ k.file = script[c].file
      /\ k.tag = script[c].tag
  BY <1>0, <1>2, LoadCall DEF Loaded
<1>5. /\ OfProject(k) /\ Processed(k)
      /\ pc[c] \in {"ensure", "register", "filter"} => Due(k) \subseteq items[c]
      /\ pc[c] = "commit" => \A x \in Due(k) : x \in batch[c] \/ Resolved(x, s)
      /\ pc[c] \in TagSteps => LinkedIn(k, Due(k))
  BY <1>0, <1>2 DEF LinkingOf
<1>6. /\ OfProject(k)' /\ Processed(k)' /\ Due(k)' \subseteq Due(k)
      /\ LinkedIn(k, Due(k)) => LinkedIn(k, Due(k))'
  BY <1>5, Lasting
<1>7. SUFFICES /\ pc'[c] \in {"ensure", "register", "filter"} => Due(k)' \subseteq items'[c]
               /\ pc'[c] = "commit" => \A x \in Due(k)' : x \in batch'[c] \/ Resolved(x, s)'
               /\ pc'[c] \in TagSteps => LinkedIn(k, Due(k))'
  BY <1>0, <1>1, <1>3, <1>6 DEF LinkingOf, OfProject, Processed, Due, LinkedIn
<1>8. \A x \in Due(k)' : x \in references' /\ (Resolved(x, s) => Resolved(x, s)')
  BY DEF Due, Grows
<1>9. CASE pc'[c] \in {"open_insert", "load"}
  BY <1>9 DEF TagSteps
<1>10. CASE LoadDocuments(c) /\ pc'[c] = "ensure"
  <2>1. items'[c] = ReferencesOf(home[c])
    BY <1>4, <1>10 DEF LoadDocuments, ControlInv, Shape
  <2>2. \A x \in Due(k) : x \in ReferencesOf(home[c])
    BY <1>4, <1>5 DEF Due, OfProject, ReferencesOf
  <2> QED
    BY <1>6, <1>10, <2>1, <2>2 DEF TagSteps
<1>11. CASE /\ pc'[c] \in {"register", "filter"} /\ pc[c] \in {"ensure", "register"}
            /\ Passes(c)
  BY <1>5, <1>6, <1>11 DEF TagSteps, Passes
<1>12. CASE Filter(c) /\ pc'[c] \in {"tag", "commit"}
  <2>1. /\ pc[c] = "filter" /\ batch'[c] = Unprocessed(c)
        /\ pc'[c] = "tag" => Unprocessed(c) = {}
    BY <1>12 DEF Filter, Goto, ControlInv, Shape
  <2>2. \A x \in Due(k)' : x \in Unprocessed(c) \/ Resolved(x, s)
    BY <1>0, <1>4, <1>5, <1>6, <2>1 DEF Unprocessed
  <2>3. ASSUME pc'[c] = "tag"
        PROVE  LinkedIn(k, Due(k))'
    BY <1>4, <1>8, <2>1, <2>2, <2>3 DEF LinkedIn
  <2> QED
    BY <1>8, <1>12, <2>1, <2>2, <2>3 DEF TagSteps
<1>13. CASE Commits(c)
  <2>1. pc[c] = "commit" /\ pc'[c] = "tag"
    BY <1>13 DEF Commits
  <2>2. ASSUME NEW predicted, NEW place, Links(c, predicted, place)
        PROVE  LinkedIn(k, Due(k))'
    <3>1. ASSUME NEW x \in Due(k)', GivenPlace(k.file, TextOf[x.document], x.span) # Unavailable
          PROVE  Resolved(x, s)'
      <4>1. x \in batch[c] \/ Resolved(x, s)
        BY <1>5, <1>6, <2>1
      <4>2. x \in batch[c] => x \in predicted
        BY <1>4, <2>2, <3>1 DEF Links
      <4>3. \A y \in predicted : Resolved(y, s)'
        BY <1>0, <2>2, ResolutionRows DEF Links
      <4> QED
        BY <1>8, <4>1, <4>2, <4>3
    <3> QED
      BY <1>4, <3>1 DEF LinkedIn
  <2>3. ASSUME NEW predicted, NEW found, Stores(c, predicted, found)
        PROVE  FALSE
    BY <1>4, <2>3 DEF Stores
  <2>4. LinkedIn(k, Due(k))'
    BY <1>13, <2>2, <2>3, CommitKinds
  <2> QED
    BY <2>1, <2>4
<1>14. CASE pc[c] \in TagSteps /\ pc'[c] \in TagSteps /\ Passes(c)
  BY <1>5, <1>6, <1>14 DEF TagSteps
<1> QED
  BY <1>9, <1>10, <1>11, <1>12, <1>13, <1>14, ContinuesFrame

\* A load that has ended well keeps what it did.
LEMMA LoadsLast ==
  ASSUME Grows, RowsInv', LoadsInv, UNCHANGED loads
  PROVE  LoadsInv'
<1>1. ASSUME NEW load \in loads
      PROVE  /\ load.file \in Files /\ load.tag \in Labels /\ load.project \in Projects
             /\ OfProject(load)' /\ Processed(load)' /\ LinkedIn(load, Due(load))'
  <2>1. /\ load.file \in Files /\ load.tag \in Labels /\ load.project \in Projects
        /\ OfProject(load) /\ Processed(load) /\ LinkedIn(load, Due(load))
    BY DEF LoadsInv
  <2> QED
    BY <2>1, Lasting
<1> QED
  BY <1>1 DEF LoadsInv, OfProject, Processed, LinkedIn, Due

\* A client that moves answers for itself; the others stand.
WorkInv == MarkingInv /\ LinkingInv /\ LoadsInv

LEMMA WorkOthers ==
  ASSUME Grows, RowsInv', WorkInv, NEW c \in Clients, OthersWait(c),
         MarkingOf(c)', LinkingOf(c)'
  PROVE  MarkingInv' /\ LinkingInv'
<1>1. ASSUME NEW b \in Clients \ {c}
      PROVE  MarkingOf(b)' /\ LinkingOf(b)'
  <2>1. Stands(b)
    BY DEF OthersWait, OthersStay, Stands
  <2> QED
    BY <2>1, StandingKept DEF WorkInv, MarkingInv, LinkingInv
<1>2. \A b \in Clients : MarkingOf(b)' /\ LinkingOf(b)'
  BY <1>1
<1> QED
  BY <1>2 DEF MarkingInv, LinkingInv

\* A script outside its load's calls has nothing to answer for.
LEMMA FreshWork ==
  ASSUME Grows, RowsInv', WorkInv, NEW c \in Clients, OthersWait(c), UNCHANGED loads,
         stage'[c] \notin {"recognizing", "places", "resolving"}
  PROVE  WorkInv'
<1>1. MarkingOf(c)' /\ LinkingOf(c)'
  BY DEF MarkingOf, LinkingOf
<1> QED
  BY <1>1, WorkOthers, LoadsLast DEF WorkInv

LEMMA RunWork ==
  ASSUME ControlInv, RowsInv, Grows, RowsInv', WorkInv, NEW c \in Clients, RunModule(c)
  PROVE  WorkInv'
<1>1. /\ Path(c) /\ stage[c] \in {"recognizing", "resolving"}
      /\ Continues(c) \/ HandsOver(c) \/ Ends(c)
  BY RunFrame
<1>2. OthersWait(c)
  BY RunControl
<1>3. MarkingOf(c) /\ LinkingOf(c)
  BY DEF WorkInv, MarkingInv, LinkingInv
<1>4. CASE Continues(c)
  <2>1. MarkingOf(c)'
    BY <1>1, <1>3, <1>4, RunMarking
  <2>2. stage'[c] = stage[c]
    BY <1>1, <1>4, ContinuesFrame
  <2>3. LinkingOf(c)'
    <3>1. CASE stage[c] = "resolving"
      BY <1>1, <1>3, <1>4, <3>1, RunLinking
    <3>2. CASE stage[c] = "recognizing"
      BY <2>2, <3>2 DEF LinkingOf
    <3> QED
      BY <1>1, <3>1, <3>2
  <2>4. UNCHANGED loads
    BY <1>4 DEF Continues
  <2> QED
    BY <1>2, <2>1, <2>3, <2>4, WorkOthers, LoadsLast DEF WorkInv
<1>5. CASE HandsOver(c)
  <2>1. /\ pc[c] = "tag_write" /\ script[c].kind = "load" /\ stage[c] = "recognizing"
        /\ stage'[c] = "places" /\ handed'[c] = items[c]
        /\ script'[c] = script[c] /\ home'[c] = home[c] /\ UNCHANGED loads
    BY <1>5 DEF HandsOver, Advance, ControlInv, Shape
  <2>2. PICK l : l = Reading(c)
    OBVIOUS
  <2>3. Loaded(c)' = l
    BY <2>1, <2>2 DEF Loaded, Reading
  <2>4. OfProject(l) /\ Processed(l)
    BY <1>3, <2>1, <2>2 DEF MarkingOf, ItemSteps, TagSteps
  <2>5. OfProject(l)' /\ Processed(l)'
    BY <2>4, Lasting
  <2>6. OfProject(Loaded(c))' /\ Processed(Loaded(c))'
    BY <2>3, <2>5 DEF OfProject, Processed
  <2>7. MarkingOf(c)' /\ LinkingOf(c)'
    BY <2>1, <2>6 DEF MarkingOf, LinkingOf
  <2> QED
    BY <1>2, <2>1, <2>7, WorkOthers, LoadsLast DEF WorkInv
<1>6. CASE Ends(c)
  <2>1. stage'[c] = "ready"
    BY <1>6, LeaveFrame DEF Ends
  <2>2. MarkingOf(c)' /\ LinkingOf(c)'
    BY <2>1 DEF MarkingOf, LinkingOf
  <2>3. MarkingInv' /\ LinkingInv'
    BY <1>2, <2>2, WorkOthers
  <2>4. CASE loads' = loads
    BY <2>3, <2>4, LoadsLast DEF WorkInv
  <2>5. CASE /\ pc[c] = "tag_write" /\ script[c].kind = "load" /\ stage[c] = "resolving"
             /\ loads' = loads \cup {Loaded(c)}
    <3>1. PICK k : k = Loaded(c)
      OBVIOUS
    <3>2. OfProject(k) /\ Processed(k) /\ LinkedIn(k, Due(k))
      BY <1>3, <2>5, <3>1 DEF LinkingOf, TagSteps
    <3>3. k.file \in Files /\ k.tag \in Labels /\ k.project \in Projects
      <4>1. script[c].file \in Files /\ script[c].tag \in Labels
        BY <2>5, ScriptKnown
      <4>2. home[c] \in Projects
        BY <2>5 DEF ControlInv, ControlOf
      <4> QED
        BY <3>1, <4>1, <4>2 DEF Loaded
    <3>4. ASSUME NEW load \in loads'
          PROVE  /\ load.file \in Files /\ load.tag \in Labels /\ load.project \in Projects
                 /\ OfProject(load)' /\ Processed(load)' /\ LinkedIn(load, Due(load))'
      <4>1. /\ load.file \in Files /\ load.tag \in Labels /\ load.project \in Projects
            /\ OfProject(load) /\ Processed(load) /\ LinkedIn(load, Due(load))
        <5>1. CASE load \in loads
          BY <5>1 DEF WorkInv, LoadsInv
        <5>2. CASE load = k
          BY <3>2, <3>3, <5>2
        <5> QED
          BY <2>5, <3>1, <5>1, <5>2
      <4> QED
        BY <4>1, Lasting
    <3>5. LoadsInv'
      BY <3>4 DEF LoadsInv, OfProject, Processed, LinkedIn, Due
    <3> QED
      BY <2>3, <3>5 DEF WorkInv
  <2> QED
    BY <1>6, <2>4, <2>5 DEF Ends
<1> QED
  BY <1>1, <1>4, <1>5, <1>6

LEMMA WorkStep ==
  ASSUME ControlInv, RowsInv, Grows, RowsInv', WorkInv, AnnotationsNext \/ UNCHANGED allVars
  PROVE  WorkInv'
<1>1. ASSUME \A b \in Clients : Stands(b), UNCHANGED loads
      PROVE  WorkInv'
  <2>1. \A b \in Clients : MarkingOf(b)' /\ LinkingOf(b)'
    BY <1>1, StandingKept DEF WorkInv, MarkingInv, LinkingInv
  <2> QED
    BY <1>1, <2>1, LoadsLast DEF WorkInv, MarkingInv, LinkingInv
<1>2. CASE UNCHANGED allVars
  <2>1. UNCHANGED <<pc, call, items, batch, script, stage, home, handed, loads>>
    BY <1>2 DEF allVars, vars, callVars, scriptVars, historyVars
  <2> QED
    BY <1>1, <2>1 DEF Stands
<1>3. ASSUME NEW c \in Clients, UNCHANGED <<pc, callVars>>, UNCHANGED loads,
             NEW next, Advance(c, next), next \notin {"recognizing", "places", "resolving"},
             \A b \in Clients \ {c} : script'[b] = script[b] /\ home'[b] = home[b],
             UNCHANGED handed
      PROVE  WorkInv'
  <2>1. OthersStay(c)
    BY <1>3, CallsStay
  <2>2. OthersWait(c) /\ stage'[c] = next
    BY <1>3, <2>1 DEF OthersWait, Advance, ControlInv, Shape
  <2> QED
    BY <1>3, <2>2, FreshWork
<1>4. ASSUME NEW c \in Clients, NEW s \in Scripts[c], Start(c, s)
      PROVE  WorkInv'
  <2>1. /\ UNCHANGED <<pc, callVars>> /\ UNCHANGED loads /\ Advance(c, "lookup")
        /\ script' = [script EXCEPT ![c] = s] /\ UNCHANGED <<home, handed>>
    BY <1>4 DEF Start, vars
  <2> QED
    BY <1>3, <2>1 DEF ControlInv, Shape
<1>5. ASSUME NEW c \in Clients, LookUp(c)
      PROVE  WorkInv'
  <2>1. UNCHANGED <<pc, callVars, script, handed, loads>> /\ stage[c] = "lookup"
    BY <1>5 DEF LookUp, vars
  <2>2. CASE Live = {}
    <3>1. Advance(c, "insert") /\ UNCHANGED home
      BY <1>5, <2>2 DEF LookUp
    <3> QED
      BY <1>3, <2>1, <3>1
  <2>3. CASE Live # {}
    <3>1. Advance(c, AfterOpening(script[c])) /\ home' \in {[home EXCEPT ![c] = p] : p \in Live}
      BY <1>5, <2>3 DEF LookUp
    <3>2. AfterOpening(script[c]) \notin {"recognizing", "places", "resolving"}
      BY <2>1, ScriptKnown, OpeningStage
    <3>3. \A b \in Clients \ {c} : home'[b] = home[b]
      BY <3>1 DEF ControlInv, Shape
    <3> QED
      BY <1>3, <2>1, <3>1, <3>2, <3>3
  <2> QED
    BY <2>2, <2>3
<1>6. ASSUME NEW c \in Clients, InsertProject(c)
      PROVE  WorkInv'
  <2>1. PICK p \in Projects : CreateProject(p) /\ home' = [home EXCEPT ![c] = p]
    BY <1>6 DEF InsertProject
  <2>2. /\ UNCHANGED <<pc, callVars, script, handed, loads>> /\ stage[c] = "insert"
        /\ Advance(c, AfterOpening(script[c]))
    BY <1>6, <2>1 DEF InsertProject, CreateProject
  <2>3. AfterOpening(script[c]) \notin {"recognizing", "places", "resolving"}
    BY <2>2, ScriptKnown, OpeningStage
  <2>4. \A b \in Clients \ {c} : home'[b] = home[b]
    BY <2>1 DEF ControlInv, Shape
  <2> QED
    BY <1>3, <2>2, <2>3, <2>4
<1>7. ASSUME NEW c \in Clients, AddTexts(c)
      PROVE  WorkInv'
  <2>1. UNCHANGED <<pc, callVars, script, home, handed, loads>> /\ Advance(c, "spans")
    BY <1>7 DEF AddTexts, CreateDocuments, historyVars
  <2> QED
    BY <1>3, <2>1
<1>8. ASSUME NEW c \in Clients, StartSpans(c)
      PROVE  WorkInv'
  <2>1. /\ Begin(c, [op |-> "recognize", project |-> home[c],
                     module |-> ModuleOf(script[c]), tag |-> script[c].tag])
        /\ Advance(c, "recognizing") /\ UNCHANGED <<script, home, handed, loads>>
        /\ stage[c] = "spans"
    BY <1>8 DEF StartSpans, RunRecognizer, historyVars
  <2>2. script[c].kind \in {"load", "run"}
    BY <2>1 DEF ControlInv, ControlOf
  <2>3. OthersWait(c) /\ pc'[c] = "open"
    BY <2>1, <2>2, BeginControl
  <2>4. stage'[c] = "recognizing"
    BY <2>1 DEF Advance, ControlInv, Shape
  <2>5. MarkingOf(c)' /\ LinkingOf(c)'
    BY <2>3, <2>4 DEF MarkingOf, LinkingOf, ItemSteps, TagSteps
  <2> QED
    BY <2>1, <2>3, <2>5, WorkOthers, LoadsLast DEF WorkInv
<1>9. ASSUME NEW c \in Clients, StartPlaces(c)
      PROVE  WorkInv'
  <2>1. /\ Begin(c, [op |-> "resolve", project |-> home[c],
                     module |-> ResolverOf[script[c].tag], tag |-> script[c].tag])
        /\ Advance(c, "resolving") /\ UNCHANGED <<script, home, handed, loads>>
        /\ stage[c] = "places"
    BY <1>9 DEF StartPlaces, RunResolver, historyVars
  <2>2. script[c].kind = "load"
    BY <2>1 DEF ControlInv, ControlOf
  <2>3. OthersWait(c) /\ pc'[c] = "open"
    BY <2>1, <2>2, BeginControl
  <2>4. stage'[c] = "resolving"
    BY <2>1 DEF Advance, ControlInv, Shape
  <2>5. PICK k : k = Loaded(c)
    OBVIOUS
  <2>6. Loaded(c)' = k
    BY <2>1, <2>5 DEF Loaded
  <2>7. OfProject(k) /\ Processed(k)
    BY <2>1, <2>5 DEF WorkInv, LinkingInv, LinkingOf
  <2>8. OfProject(k)' /\ Processed(k)'
    BY <2>7, Lasting
  <2>9. OfProject(Loaded(c))' /\ Processed(Loaded(c))'
    BY <2>6, <2>8 DEF OfProject, Processed
  <2>10. MarkingOf(c)' /\ LinkingOf(c)'
    BY <2>3, <2>4, <2>9 DEF MarkingOf, LinkingOf, TagSteps
  <2> QED
    BY <2>1, <2>3, <2>10, WorkOthers, LoadsLast DEF WorkInv
<1>10. ASSUME NEW c \in Clients, RunModule(c)
       PROVE  WorkInv'
  BY <1>10, RunWork
<1>11. ASSUME NEW c \in Clients, View(c)
       PROVE  WorkInv'
  <2>1. ViewPath(c) /\ OthersWait(c) /\ UNCHANGED loads
    BY <1>11, ViewFrame, ViewControl DEF View, historyVars
  <2>2. stage'[c] \in {"view", "ready"}
    BY <2>1, LeaveFrame DEF ViewPath, scriptVars
  <2> QED
    BY <2>1, <2>2, FreshWork
<1>12. ASSUME NEW c \in Clients, Quit(c)
       PROVE  WorkInv'
  <2>1. OthersStay(c) /\ CallsFit /\ pc'[c] = "idle" /\ Keeps /\ Leave(c) /\ UNCHANGED loads
    BY <1>12, QuitFrame DEF historyVars
  <2>2. OthersWait(c) /\ stage'[c] = "ready"
    BY <2>1, LeaveFrame, LeaveControl DEF Keeps
  <2> QED
    BY <2>1, <2>2, FreshWork
<1>13. ASSUME NEW p \in Projects, Delete(p)
       PROVE  WorkInv'
  <2>1. UNCHANGED <<pc, call, items, batch, script, stage, home, handed, loads>>
    BY <1>13 DEF Delete, DeleteProject, callVars, scriptVars, historyVars
  <2> QED
    BY <1>1, <2>1 DEF Stands
<1> QED
  BY <1>2, <1>4, <1>5, <1>6, <1>7, <1>8, <1>9, <1>10, <1>11, <1>12, <1>13 DEF AnnotationsNext

-----------------------------------------------------------------------------
(***************************************************************************)
(* The invariant.                                                          *)
(***************************************************************************)

LEMMA AnnotationsInitial == AnnotationsInit => AnnotationsInv
<1> SUFFICES ASSUME AnnotationsInit
             PROVE  AnnotationsInv
  OBVIOUS
<1>1. /\ projects = [p \in Projects |-> "new"] /\ documents = {} /\ references = {}
      /\ recognitions = {} /\ referents = {} /\ resolutions = {}
      /\ pc = [c \in Clients |-> "idle"] /\ call = [c \in Clients |-> None]
      /\ items = [c \in Clients |-> {}] /\ batch = [c \in Clients |-> {}]
      /\ seen = [c \in Clients |-> NoContext] /\ outcome = [c \in Clients |-> "none"]
      /\ runs = [c \in Clients |-> 0]
      /\ script = [c \in Clients |-> None] /\ stage = [c \in Clients |-> "ready"]
      /\ home = [c \in Clients |-> None] /\ handed = [c \in Clients |-> {}]
      /\ loads = {} /\ raced = FALSE
  BY DEF AnnotationsInit, Init
<1>2. ControlInv
  BY <1>1 DEF ControlInv, Shape, ControlOf, Steps, ViewSteps, Stages
<1>3. CreationInv
  BY <1>1 DEF CreationInv, Live
<1>4. RowsInv /\ PlacesInv /\ ReferentsMarked /\ LoadsInv
  BY <1>1 DEF RowsInv, PlacesInv, ReferentsMarked, LoadsInv
<1>5. GuardInv
  BY <1>1 DEF GuardInv
<1>6. WholeInv
  BY <1>1 DEF WholeInv, Recognized
<1>7. MarkingInv /\ LinkingInv
  BY <1>1 DEF MarkingInv, LinkingInv, MarkingOf, LinkingOf
<1> QED
  BY <1>2, <1>3, <1>4, <1>5, <1>6, <1>7 DEF AnnotationsInv

LEMMA AnnotationsStep ==
  ASSUME AnnotationsInv, AnnotationsNext \/ UNCHANGED allVars
  PROVE  AnnotationsInv'
<1>1. RowKinds /\ ControlInv'
  BY StepRows DEF AnnotationsInv
<1>2. RowsInv' /\ ReferentsMarked' /\ PlacesInv'
  BY <1>1, RowsStep, ReferentsStep, PlacesStep DEF AnnotationsInv
<1>3. CreationInv' /\ GuardInv'
  BY CreationStep, GuardStep DEF AnnotationsInv
<1>4. WholeInv' /\ Grows
  BY <1>1, WholeStep, GrowsStep DEF AnnotationsInv
<1>5. WorkInv'
  BY <1>2, <1>4, WorkStep DEF AnnotationsInv, WorkInv
<1> QED
  BY <1>1, <1>2, <1>3, <1>4, <1>5 DEF AnnotationsInv, WorkInv

LEMMA AlwaysAnnotations == AnnotationsSpec => []AnnotationsInv
<1>1. AnnotationsInit => AnnotationsInv
  BY AnnotationsInitial
<1>2. AnnotationsInv /\ [AnnotationsNext]_allVars => AnnotationsInv'
  BY AnnotationsStep
<1> QED
  BY <1>1, <1>2, PTL DEF AnnotationsSpec

\* Referents and their markers are written together or not at all, also by the
\* calls that loading annotations is made of (ReferentStore.create_referents).
THEOREM ReferentsAlwaysMarked == AnnotationsSpec => []ReferentsMarked
<1>1. AnnotationsInv => ReferentsMarked
  BY DEF AnnotationsInv
<1> QED
  BY <1>1, AlwaysAnnotations, PTL

\* Whoever opens the project by its name finds what was loaded under it, unless
\* two scripts were creating it at the same time (Project.__init__ looks the name
\* up and inserts it in sessions of their own).
THEOREM LoadsAlwaysFound == AnnotationsSpec => []LoadsFound
<1>1. ASSUME AnnotationsInv
      PROVE  LoadsFound
  <2>1. SUFFICES ASSUME NEW c \in Clients, home[c] # None, projects[home[c]] = "live", ~raced,
                        NEW load \in loads, projects[load.project] = "live"
                 PROVE  load.project = home[c]
    BY DEF LoadsFound
  <2>2. home[c] \in Projects /\ load.project \in Projects
    BY <1>1, <2>1 DEF AnnotationsInv, ControlInv, ControlOf, LoadsInv
  <2> QED
    BY <1>1, <2>1, <2>2 DEF AnnotationsInv, CreationInv, Live
<1> QED
  BY <1>1, AlwaysAnnotations, PTL

\* What a label's recognizer has left of a document is what one file says of its
\* text as it is stored, or nothing if no file has that, and each of its references
\* that the load links has a place that a file gave, whatever ran beside the load or
\* was interrupted before it.
THEOREM LoadsAlwaysShown == AnnotationsSpec => []LoadsShown
<1>1. ASSUME AnnotationsInv
      PROVE  LoadsShown
  <2>1. SUFFICES ASSUME NEW c \in Clients, pc[c] = "view_documents",
                        NEW load \in loads, load.tag = script[c].tag
                 PROVE  ShownAsLoaded(c, load)
    BY DEF LoadsShown
  <2>2. SUFFICES ASSUME NEW d \in load.docs \cap DocumentsOf(home[c]),
                        seen[c].recognizer = RecognizerOf[load.tag],
                        <<d, RecognizerOf[load.tag]>> \notin contended
                 PROVE  /\ Known(load.file, TextOf[d]) => Annotated(c, d, load)
                        /\ (\A file \in Files : ~Known(file, TextOf[d]))
                             => Unannotated(c, d, load)
    BY DEF ShownAsLoaded
  <2>3. /\ load.tag \in Labels /\ OfProject(load) /\ Processed(load)
        /\ LinkedIn(load, Due(load))
    BY <1>1 DEF AnnotationsInv, LoadsInv
  <2> DEFINE r == RecognizerOf[load.tag]
             s == ResolverOf[load.tag]
  <2>4. d \in documents /\ d \in Docs
    BY <1>1, <2>2 DEF DocumentsOf, AnnotationsInv, RowsInv
  <2>5. Shown(c, d) = {x \in references : x.document = d /\ x.recognizer = r}
    BY <2>2 DEF Shown, Toponyms
  <2>6. ASSUME Recognized(d, r)
        PROVE  \E file \in Files :
                 Known(file, TextOf[d]) /\ SpansOf(d, r) = GivenSpans(file, TextOf[d])
    BY <1>1, <2>2, <2>3, <2>4, <2>6 DEF AnnotationsInv, WholeInv
  <2>7. ASSUME Known(load.file, TextOf[d])
        PROVE  Annotated(c, d, load)
    <3>1. {x.span : x \in Shown(c, d)} = SpansOf(d, r)
      BY <2>5 DEF SpansOf
    <3>2. Recognized(d, r)
      BY <2>2, <2>3, <2>4, <2>7 DEF Processed
    <3>3. PICK file \in Files :
            Known(file, TextOf[d]) /\ SpansOf(d, r) = GivenSpans(file, TextOf[d])
      BY <2>6, <3>2
    <3>4. ASSUME seen[c].resolver = s, NEW x \in Shown(c, d),
                 GivenPlace(load.file, TextOf[d], x.span) # Unavailable
          PROVE  ShownPlaces(c, x) \subseteq Places(d, x.span)
      <4>1. x \in Due(load) /\ x.document = d
        BY <2>2, <2>5, <2>7, <3>4 DEF Due
      <4>2. Resolved(x, s)
        BY <2>3, <3>4, <4>1 DEF LinkedIn
      <4>3. PICK m \in resolutions : m.reference = x /\ m.resolver = s
        BY <4>2 DEF Resolved
      <4>4. PICK y \in referents : y.reference = x /\ y.resolver = s
        BY <1>1, <4>3 DEF AnnotationsInv, ReferentsMarked
      <4> DEFINE own == {z \in referents : z.reference = x /\ z.resolver = seen[c].resolver}
      <4>5. own # {}
        BY <3>4, <4>4
      <4>6. ShownPlaces(c, x) = {z.feature : z \in own}
        BY <4>5 DEF ShownPlaces, Locations
      <4>7. \A z \in own : z.feature \in Places(d, x.span)
        BY <1>1, <4>1 DEF AnnotationsInv, PlacesInv
      <4> HIDE DEF own
      <4> QED
        BY <4>6, <4>7
    <3> QED
      BY <3>1, <3>3, <3>4 DEF Annotated
  <2>8. ASSUME \A file \in Files : ~Known(file, TextOf[d])
        PROVE  Unannotated(c, d, load)
    <3>1. ~Recognized(d, r)
      BY <2>6, <2>8
    <3>2. Shown(c, d) = {}
      BY <1>1, <2>5, <3>1 DEF AnnotationsInv, RowsInv
    <3> QED
      BY <3>1, <3>2 DEF Unannotated
  <2> QED
    BY <2>7, <2>8
<1> QED
  BY <1>1, AlwaysAnnotations, PTL

-----------------------------------------------------------------------------
(***************************************************************************)
(* The two halves of a tag.                                                *)
(***************************************************************************)

ContextsTyped == contexts \in [Projects \X Tags -> ContextRow]

\* What a step does to the rows of the tags.
ContextKinds ==
  \/ UNCHANGED contexts
  \/ \E k : /\ ~contexts[k].exists
            /\ contexts' = [contexts EXCEPT ![k] = FreshContext]
  \/ \E p \in Projects : DeleteProject(p)
  \/ \E c \in Clients : /\ stage[c] \in {"recognizing", "resolving"}
                        /\ WriteContext(c) /\ ~Fail(c)

LEMMA InsertContextKind ==
  ASSUME NEW c \in Clients, NEW step, NEW tag, NEW next, InsertContext(c, step, tag, next)
  PROVE  ContextKinds
<1>1. CASE Fail(c)
  BY <1>1 DEF Fail, dbVars, ContextKinds
<1>2. CASE ~Fail(c)
  <2> DEFINE k == <<call[c].project, tag>>
  <2>1. ~contexts[k].exists /\ contexts' = [contexts EXCEPT ![k] = FreshContext]
    BY <1>2 DEF InsertContext, ContextExists
  <2> HIDE DEF k
  <2> QED
    BY <2>1 DEF ContextKinds
<1> QED
  BY <1>1, <1>2

LEMMA StepContexts ==
  ASSUME ControlInv, AnnotationsNext \/ UNCHANGED allVars
  PROVE  ContextKinds
<1>0. ASSUME UNCHANGED contexts
      PROVE  ContextKinds
  BY <1>0 DEF ContextKinds
<1>1. CASE UNCHANGED allVars
  BY <1>0, <1>1 DEF allVars, vars, dbVars
<1>2. ASSUME NEW c \in Clients, NEW s \in Scripts[c], Start(c, s)
      PROVE  ContextKinds
  BY <1>0, <1>2 DEF Start, vars, dbVars
<1>3. ASSUME NEW c \in Clients, LookUp(c)
      PROVE  ContextKinds
  BY <1>0, <1>3 DEF LookUp, vars, dbVars
<1>4. ASSUME NEW c \in Clients, InsertProject(c)
      PROVE  ContextKinds
  BY <1>0, <1>4 DEF InsertProject, CreateProject
<1>5. ASSUME NEW c \in Clients, AddTexts(c)
      PROVE  ContextKinds
  BY <1>0, <1>5 DEF AddTexts, CreateDocuments
<1>6. ASSUME NEW c \in Clients, NEW args, Begin(c, args)
      PROVE  ContextKinds
  BY <1>0, <1>6 DEF Begin, dbVars
<1>7. ASSUME NEW c \in Clients, Fail(c)
      PROVE  ContextKinds
  BY <1>0, <1>7 DEF Fail, dbVars
<1>8. ASSUME NEW c \in Clients, RunModule(c)
      PROVE  ContextKinds
  <2>1. StoreStep(c) /\ stage[c] \in {"recognizing", "resolving"}
    BY <1>8 DEF RunModule
  <2>2. CASE CommitGivenSpans(c) \/ CommitGivenPlaces(c) \/ CommitRecognition(c)
             \/ CommitResolution(c)
    BY <1>0, <1>7, <2>2 DEF CommitGivenSpans, CommitGivenPlaces, CommitRecognition,
       CommitResolution, InsertRecognitions, InsertResolutions
  <2>3. CASE \/ OpenContext(c) \/ TagContext(c) \/ LoadDocuments(c) \/ EnsureModule(c)
             \/ RegisterModule(c) \/ Filter(c) \/ LoadContext(c)
    BY <1>0, <1>7, <2>3 DEF OpenContext, TagContext, ReadContext, LoadDocuments, EnsureModule,
       RegisterModule, Filter, LoadContext, dbVars
  <2>4. CASE OpenInsert(c) \/ TagInsert(c)
    BY <2>4, InsertContextKind DEF OpenInsert, TagInsert
  <2>5. CASE WriteContext(c)
    BY <1>7, <2>1, <2>5 DEF ContextKinds
  <2> QED
    BY <2>1, <2>2, <2>3, <2>4, <2>5 DEF StoreStep, ClientStep
<1>9. ASSUME NEW c \in Clients, View(c)
      PROVE  ContextKinds
  <2>1. CASE StartView(c) \/ ViewOpen(c) \/ ViewRecognizer(c) \/ ViewResolver(c) \/ ViewDocuments(c)
    BY <1>0, <1>7, <2>1 DEF StartView, ViewOpen, ViewRecognizer, ViewResolver, ViewColumn,
       ViewDocuments, ReadContext, dbVars
  <2>2. CASE ViewInsert(c)
    BY <2>2, InsertContextKind DEF ViewInsert
  <2> QED
    BY <1>9, <2>1, <2>2 DEF View
<1>10. ASSUME NEW c \in Clients, Quit(c)
       PROVE  ContextKinds
  BY <1>0, <1>7, <1>10 DEF Quit, Stop, Interrupt, vars, dbVars
<1>11. ASSUME NEW p \in Projects, Delete(p)
       PROVE  ContextKinds
  BY <1>11 DEF Delete, ContextKinds
<1> QED
  BY <1>1, <1>2, <1>3, <1>4, <1>5, <1>6, <1>8, <1>9, <1>10, <1>11
     DEF AnnotationsNext, StartSpans, StartPlaces, RunRecognizer, RunResolver

\* A write of a column, by a run of its kind.
LEMMA ColumnWritten ==
  ASSUME ControlInv, ContextsTyped, NEW c \in Clients, WriteContext(c), ~Fail(c),
         stage[c] \in {"recognizing", "resolving"}
  PROVE  /\ pc[c] = "tag_write"
         /\ \E k : /\ contexts' = [contexts EXCEPT ![k] = WithModule(contexts[k], c)]
                   /\ k \in Projects \X Tags
         /\ \/ call[c].op = "recognize" /\ call[c].module \in Recognizers
            \/ call[c].op = "resolve" /\ call[c].module \in Resolvers
<1>1. ControlOf(c)
  BY DEF ControlInv
<1>2. script[c] \in Script /\ stage[c] # "ready" /\ home[c] \in Projects
  BY <1>1, ScriptKnown DEF ControlOf
<1>3. CASE stage[c] = "recognizing"
  <2>1. /\ script[c].kind \in {"load", "run"}
        /\ call[c] = [op |-> "recognize", project |-> home[c],
                      module |-> ModuleOf(script[c]), tag |-> script[c].tag]
    BY <1>1, <1>3 DEF ControlOf
  <2>2. ModuleOf(script[c]) \in Recognizers /\ script[c].tag \in Tags
    BY <1>2, <2>1, LabelAssumption DEF ModuleOf, Script
  <2>3. call[c].project \in Projects /\ call[c].tag \in Tags
    BY <1>2, <2>1, <2>2
  <2> DEFINE k == <<call[c].project, call[c].tag>>
  <2>4. k \in Projects \X Tags
    BY <2>3
  <2>5. pc[c] = "tag_write" /\ contexts' = [contexts EXCEPT ![k] = WithModule(contexts[k], c)]
    BY DEF WriteContext
  <2>6. \E j : /\ contexts' = [contexts EXCEPT ![j] = WithModule(contexts[j], c)]
              /\ j \in Projects \X Tags
    <3> HIDE DEF k
    <3> QED
      BY <2>4, <2>5
  <2>7. call[c].op = "recognize" /\ call[c].module \in Recognizers
    BY <2>1, <2>2
  <2> QED
    BY <2>5, <2>6, <2>7
<1>4. CASE stage[c] = "resolving"
  <2>1. /\ script[c].kind = "load"
        /\ call[c] = [op |-> "resolve", project |-> home[c],
                      module |-> ResolverOf[script[c].tag], tag |-> script[c].tag]
    BY <1>1, <1>4 DEF ControlOf
  <2>2. ResolverOf[script[c].tag] \in Resolvers /\ script[c].tag \in Tags
    BY <1>2, <2>1, LabelAssumption DEF Script
  <2>3. call[c].project \in Projects /\ call[c].tag \in Tags
    BY <1>2, <2>1, <2>2
  <2> DEFINE k == <<call[c].project, call[c].tag>>
  <2>4. k \in Projects \X Tags
    BY <2>3
  <2>5. pc[c] = "tag_write" /\ contexts' = [contexts EXCEPT ![k] = WithModule(contexts[k], c)]
    BY DEF WriteContext
  <2>6. \E j : /\ contexts' = [contexts EXCEPT ![j] = WithModule(contexts[j], c)]
              /\ j \in Projects \X Tags
    <3> HIDE DEF k
    <3> QED
      BY <2>4, <2>5
  <2>7. call[c].op = "resolve" /\ call[c].module \in Resolvers
    BY <2>1, <2>2
  <2> QED
    BY <2>5, <2>6, <2>7
<1> QED
  BY <1>3, <1>4

LEMMA ContextsStep ==
  ASSUME ControlInv, ContextsTyped, ContextKinds
  PROVE  ContextsTyped'
<1>1. CASE UNCHANGED contexts
  BY <1>1 DEF ContextsTyped
<1>2. ASSUME NEW k, contexts' = [contexts EXCEPT ![k] = FreshContext]
      PROVE  ContextsTyped'
  BY <1>2 DEF ContextsTyped, FreshContext, ContextRow
<1>3. ASSUME NEW p \in Projects, DeleteProject(p)
      PROVE  ContextsTyped'
  <2>1. \A k \in Projects \X Tags : (IF k[1] = p THEN NoContext ELSE contexts[k]) \in ContextRow
    BY DEF ContextsTyped, NoContext, ContextRow
  <2>2. contexts' = [k \in Projects \X Tags |-> IF k[1] = p THEN NoContext ELSE contexts[k]]
    BY <1>3 DEF DeleteProject
  <2> QED
    BY <2>1, <2>2 DEF ContextsTyped
<1>4. ASSUME NEW c \in Clients, stage[c] \in {"recognizing", "resolving"},
             WriteContext(c), ~Fail(c)
      PROVE  ContextsTyped'
  <2>1. PICK k : /\ contexts' = [contexts EXCEPT ![k] = WithModule(contexts[k], c)]
                 /\ k \in Projects \X Tags
    BY <1>4, ColumnWritten
  <2>2. \/ call[c].op = "recognize" /\ call[c].module \in Recognizers
        \/ call[c].op = "resolve" /\ call[c].module \in Resolvers
    BY <1>4, ColumnWritten
  <2>3. contexts[k] \in ContextRow
    BY <2>1 DEF ContextsTyped
  <2>4. WithModule(contexts[k], c) \in ContextRow
    BY <2>2, <2>3 DEF WithModule, ContextRow
  <2> QED
    BY <2>1, <2>4 DEF ContextsTyped
<1> QED
  BY <1>1, <1>2, <1>3, <1>4 DEF ContextKinds

\* A column of a tag changes only to the module of a run of its kind that is
\* writing it: loads, other scripts' runs and views of one tag do not undo each
\* other (ContextStore.update_recognizer_context and update_resolver_context).
THEOREM ColumnsAlwaysIndependent == AnnotationsSpec => ColumnsIndependent
<1> DEFINE Written(k) ==
      contexts[k].exists /\ contexts'[k].exists =>
        /\ contexts'[k].recognizer # contexts[k].recognizer =>
             \E c \in Clients : /\ pc[c] = "tag_write"
                                /\ call[c].op = "recognize"
                                /\ call[c].module = contexts'[k].recognizer
        /\ contexts'[k].resolver # contexts[k].resolver =>
             \E c \in Clients : /\ pc[c] = "tag_write"
                                /\ call[c].op = "resolve"
                                /\ call[c].module = contexts'[k].resolver
           Independent == \A p \in Projects, t \in Tags : Written(<<p, t>>)
<1>1. AnnotationsInit => ContextsTyped
  BY DEF AnnotationsInit, Init, ContextsTyped, NoContext, ContextRow
<1>2. ControlInv /\ ContextsTyped /\ [AnnotationsNext]_allVars => ContextsTyped'
  BY StepContexts, ContextsStep
<1>3. ASSUME ControlInv, ContextsTyped, [AnnotationsNext]_allVars
      PROVE  [Independent]_vars
  <2>1. CASE UNCHANGED contexts
    BY <2>1
  <2>2. ASSUME NEW k, ~contexts[k].exists, contexts' = [contexts EXCEPT ![k] = FreshContext]
        PROVE  Independent
    BY <2>2 DEF ContextsTyped
  <2>3. ASSUME NEW p \in Projects, DeleteProject(p)
        PROVE  Independent
    BY <2>3 DEF DeleteProject, NoContext
  <2>4. ASSUME NEW c \in Clients, stage[c] \in {"recognizing", "resolving"},
               WriteContext(c), ~Fail(c)
        PROVE  Independent
    <3>1. PICK k : /\ contexts' = [contexts EXCEPT ![k] = WithModule(contexts[k], c)]
                   /\ k \in Projects \X Tags
      BY <1>3, <2>4, ColumnWritten
    <3>2. /\ pc[c] = "tag_write"
          /\ \/ call[c].op = "recognize" /\ call[c].module \in Recognizers
             \/ call[c].op = "resolve" /\ call[c].module \in Resolvers
      BY <1>3, <2>4, ColumnWritten
    <3>3. contexts[k] \in ContextRow /\ contexts'[k] = WithModule(contexts[k], c)
      BY <1>3, <3>1 DEF ContextsTyped
    <3>4. Written(k)
      <4>1. CASE call[c].op = "recognize"
        BY <3>2, <3>3, <4>1 DEF WithModule, ContextRow
      <4>2. CASE call[c].op = "resolve"
        BY <3>2, <3>3, <4>2 DEF WithModule, ContextRow
      <4> QED
        BY <3>2, <4>1, <4>2
    <3>5. \A j \in (Projects \X Tags) \ {k} : contexts'[j] = contexts[j]
      BY <1>3, <3>1 DEF ContextsTyped
    <3>6. \A j \in Projects \X Tags : Written(j)
      BY <3>4, <3>5
    <3> HIDE DEF Written
    <3> QED
      BY <3>6
  <2> HIDE DEF Independent
  <2> QED
    BY <1>3, <2>1, <2>2, <2>3, <2>4, StepContexts DEF ContextKinds
<1>4. AnnotationsInv => ControlInv
  BY DEF AnnotationsInv
<1> QED
  BY <1>1, <1>2, <1>3, <1>4, AlwaysAnnotations, PTL DEF AnnotationsSpec, ColumnsIndependent
=============================================================================
