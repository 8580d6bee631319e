---------------------------- MODULE ProjectStore ----------------------------
(***************************************************************************)
(* The project database of the geoparser and the calls that fill it:       *)
(* Project.run_recognizer and Project.run_resolver, issued by any number   *)
(* of clients (threads or processes that share the SQLite file), together  *)
(* with project creation, document creation and project deletion.          *)
(*                                                                         *)
(* The code opens one session per query and commits explicitly.  Python's  *)
(* sqlite3 begins a transaction at the first write only, so every read is  *)
(* a step of its own on the last committed state, and every commit is one  *)
(* step.  Between two steps of a call any other client may move, and the   *)
(* call may end with an exception or with the process (Interrupt).         *)
(*                                                                         *)
(* A row's uuid4 identifier is modelled by the run that inserted it, so    *)
(* two runs never insert the same row.                                     *)
(***************************************************************************)
EXTENDS Naturals

CONSTANTS
  Clients,       \* threads or processes working on the database
  Projects,      \* project identifiers
  Docs,          \* document identifiers
  HomeOf,        \* the project a document is created in
  Recognizers,   \* recognizer identifiers (hash of name and configuration)
  Resolvers,     \* resolver identifiers
  Spans,         \* (start, end) positions a recognizer may report
  Features,      \* (gazetteer, identifier) pairs a resolver may report
  Installed,     \* those that Gazetteer.find knows
  Tags,          \* context tags
  Latest,        \* the tag "latest" that run_* reads its documents with
  Unavailable,   \* the prediction None, or a prediction list that is too short
  Spotted,       \* Spotted[r][d]: the predictions r may make for document d
  Located,       \* Located[s]: the predictions s may make for a reference
  None,          \* an unset recognizer or resolver column
  MaxRuns        \* bound on the runs of one client

Modules == Recognizers \cup Resolvers

ASSUME ModulesAssumption ==
  /\ Recognizers \cap Resolvers = {}
  /\ None \notin Modules

ASSUME HomeAssumption == HomeOf \in [Docs -> Projects]

ASSUME TagAssumption == Latest \in Tags

ASSUME PredictionAssumption ==
  /\ \A S \in SUBSET Spans : S # Unavailable
  /\ Unavailable \notin Features
  /\ Installed \subseteq Features
  /\ Spotted \in [Recognizers -> [Docs -> SUBSET ((SUBSET Spans) \cup {Unavailable})]]
  /\ Located \in [Resolvers -> SUBSET (Features \cup {Unavailable})]

ASSUME BoundAssumption == MaxRuns \in Nat

VARIABLES
  projects,      \* life of each project row
  documents,     \* document rows
  modules,       \* recognizer and resolver rows
  references,    \* reference rows
  recognitions,  \* markers: this recognizer has processed this document
  referents,     \* referent rows
  resolutions,   \* markers: this resolver has processed this reference
  contexts,      \* context rows: the modules a tag stands for in a project
  pc,            \* the next step of each client's call
  call,          \* the arguments of that call
  items,         \* what the call loaded: documents, or their references
  batch,         \* those of them found unprocessed
  seen,          \* the context row the call loaded before writing its column
  outcome,       \* how the client's last call ended
  runs,          \* calls each client has begun
  contended      \* history: pairs two runs held in their batches at once

dbVars == <<projects, documents, modules, references, recognitions,
            referents, resolutions, contexts>>
resultVars == <<references, recognitions, referents, resolutions>>
callVars == <<call, items, batch, seen, outcome, runs, contended>>
vars == <<dbVars, pc, callVars>>

RunId == Clients \X Nat
Reference == [document : Docs, recognizer : Recognizers, span : Spans, run : RunId]
Recognition == [document : Docs, recognizer : Recognizers, run : RunId]
Referent == [reference : Reference, resolver : Resolvers,
             feature : Features, run : RunId]
Resolution == [reference : Reference, resolver : Resolvers, run : RunId]
ContextRow == [exists : BOOLEAN, recognizer : Recognizers \cup {None},
               resolver : Resolvers \cup {None}]
Call == [op : {"recognize"}, project : Projects, module : Recognizers, tag : Tags]
        \cup
        [op : {"resolve"}, project : Projects, module : Resolvers, tag : Tags]

Steps == {"open", "open_insert", "load", "ensure", "register", "filter",
          "commit", "tag", "tag_insert", "tag_load", "tag_write"}

NoContext == [exists |-> FALSE, recognizer |-> None, resolver |-> None]
FreshContext == [exists |-> TRUE, recognizer |-> None, resolver |-> None]

Init ==
  /\ projects = [p \in Projects |-> "new"]
  /\ documents = {}
  /\ modules = {}
  /\ references = {}
  /\ recognitions = {}
  /\ referents = {}
  /\ resolutions = {}
  /\ contexts = [k \in Projects \X Tags |-> NoContext]
  /\ pc = [c \in Clients |-> "idle"]
  /\ call = [c \in Clients |-> None]
  /\ items = [c \in Clients |-> {}]
  /\ batch = [c \in Clients |-> {}]
  /\ seen = [c \in Clients |-> NoContext]
  /\ outcome = [c \in Clients |-> "none"]
  /\ runs = [c \in Clients |-> 0]
  /\ contended = {}

-----------------------------------------------------------------------------
(***************************************************************************)
(* How a call moves on and how it ends.                                    *)
(***************************************************************************)

Goto(c, step) == pc' = [pc EXCEPT ![c] = step]

Return(c, result) ==
  /\ pc' = [pc EXCEPT ![c] = "idle"]
  /\ call' = [call EXCEPT ![c] = None]
  /\ items' = [items EXCEPT ![c] = {}]
  /\ batch' = [batch EXCEPT ![c] = {}]
  /\ seen' = [seen EXCEPT ![c] = NoContext]
  /\ outcome' = [outcome EXCEPT ![c] = result]
  /\ UNCHANGED <<runs, contended>>

\* An exception leaves get_session, which rolls the session back: whatever
\* earlier sessions of the call committed stays.
Fail(c) == Return(c, "failed") /\ UNCHANGED dbVars

\* A lock timeout, an exception of the module, Ctrl-C or the end of the process.
Interrupt(c) == pc[c] # "idle" /\ Fail(c)

-----------------------------------------------------------------------------
(***************************************************************************)
(* Calls of a single transaction.                                          *)
(***************************************************************************)

CreateProject(p) ==
  /\ projects[p] = "new"
  /\ projects' = [projects EXCEPT ![p] = "live"]
  /\ UNCHANGED <<documents, modules, resultVars, contexts, pc, callVars>>

\* The whole batch of texts is inserted and committed at once.
CreateDocuments(p, D) ==
  /\ projects[p] = "live"
  /\ documents' = documents \cup D
  /\ UNCHANGED <<projects, modules, resultVars, contexts, pc, callVars>>

Uncreated(p) == {d \in Docs : HomeOf[d] = p} \ documents

\* Mutant: the cascade follows the recognizer of a marker, not its document.
DeleteProjectMarkers(p) ==
  LET kept == {d \in documents : HomeOf[d] # p}
      gone == {x \in recognitions : x.document \notin kept}
  IN
  /\ projects[p] = "live"
  /\ projects' = [projects EXCEPT ![p] = "deleted"]
  /\ documents' = kept
  /\ references' = {x \in references : x.document \in kept}
  /\ recognitions' = {x \in recognitions :
                        \A m \in gone : m.recognizer # x.recognizer}
  /\ referents' = {x \in referents : x.reference.document \in kept}
  /\ resolutions' = {x \in resolutions : x.reference.document \in kept}
  /\ contexts' = [k \in Projects \X Tags |->
                    IF k[1] = p THEN NoContext ELSE contexts[k]]
  /\ UNCHANGED <<modules, pc, callVars>>

\* Foreign keys with ON DELETE CASCADE take every dependent row along.
DeleteProject(p) ==
  LET kept == {d \in documents : HomeOf[d] # p} IN
  /\ projects[p] = "live"
  /\ projects' = [projects EXCEPT ![p] = "deleted"]
  /\ documents' = kept
  /\ references' = {x \in references : x.document \in kept}
  /\ recognitions' = {x \in recognitions : x.document \in kept}
  /\ referents' = {x \in referents : x.reference.document \in kept}
  /\ resolutions' = {x \in resolutions : x.reference.document \in kept}
  /\ contexts' = [k \in Projects \X Tags |->
                    IF k[1] = p THEN NoContext ELSE contexts[k]]
  /\ UNCHANGED <<modules, pc, callVars>>

-----------------------------------------------------------------------------
(***************************************************************************)
(* run_recognizer and run_resolver, step by step.                          *)
(***************************************************************************)

Begin(c, args) ==
  /\ pc[c] = "idle"
  /\ runs[c] < MaxRuns
  /\ projects[args.project] # "new"
  /\ call' = [call EXCEPT ![c] = args]
  /\ runs' = [runs EXCEPT ![c] = @ + 1]
  /\ Goto(c, "open")
  /\ UNCHANGED <<dbVars, items, batch, seen, outcome, contended>>

RunRecognizer(c, p, r, t) ==
  Begin(c, [op |-> "recognize", project |-> p, module |-> r, tag |-> t])

RunResolver(c, p, s, t) ==
  Begin(c, [op |-> "resolve", project |-> p, module |-> s, tag |-> t])

ContextExists(p, t) == contexts[<<p, t>>].exists

\* _ensure_context_record, first session half: does the tag have a row?
ReadContext(c, step, tag, present, missing) ==
  /\ pc[c] = step
  /\ Goto(c, IF ContextExists(call[c].project, tag) THEN present ELSE missing)
  /\ UNCHANGED <<dbVars, callVars>>

\* Second half: insert it.  The unique (project, tag) constraint or the foreign
\* key to a deleted project raises IntegrityError.
InsertContext(c, step, tag, next) ==
  LET p == call[c].project IN
  /\ pc[c] = step
  /\ IF projects[p] = "live" /\ ~ContextExists(p, tag)
       THEN /\ contexts' = [contexts EXCEPT ![<<p, tag>>] = FreshContext]
            /\ Goto(c, next)
            /\ UNCHANGED <<projects, documents, modules, resultVars, callVars>>
       ELSE Fail(c)

OpenContext(c) == ReadContext(c, "open", Latest, "load", "open_insert")
OpenInsert(c) == InsertContext(c, "open_insert", Latest, "load")

DocumentsOf(p) == {d \in documents : HomeOf[d] = p}
ReferencesOf(p) == {x \in references : HomeOf[x.document] = p}

\* get_documents: the documents of the project with all their references,
\* whichever recognizer made them.
LoadDocuments(c) ==
  /\ pc[c] = "load"
  /\ items' = [items EXCEPT ![c] = IF call[c].op = "recognize"
                                     THEN DocumentsOf(call[c].project)
                                     ELSE ReferencesOf(call[c].project)]
  /\ Goto(c, "ensure")
  /\ UNCHANGED <<dbVars, call, batch, seen, outcome, runs, contended>>

\* ensure_module_record: look the module's row up by its id ...
EnsureModule(c) ==
  /\ pc[c] = "ensure"
  /\ Goto(c, IF call[c].module \in modules THEN "filter" ELSE "register")
  /\ UNCHANGED <<dbVars, callVars>>

\* ... and create it; the loser of a race violates the primary key.
RegisterModule(c) ==
  /\ pc[c] = "register"
  /\ IF call[c].module \notin modules
       THEN /\ modules' = modules \cup {call[c].module}
            /\ Goto(c, "filter")
            /\ UNCHANGED <<projects, documents, resultVars, contexts, callVars>>
       ELSE Fail(c)

Recognized(d, r) == \E m \in recognitions : m.document = d /\ m.recognizer = r
Resolved(x, s) == \E m \in resolutions : m.reference = x /\ m.resolver = s

\* Mutants of Unprocessed: everything loaded; nothing once any item has a
\* marker.
UnprocessedAll(c) == items[c]

UnprocessedUnlessAny(c) ==
  IF call[c].op = "recognize"
    THEN {d \in items[c] : \A e \in items[c] : ~Recognized(e, call[c].module)}
    ELSE {x \in items[c] : \A y \in items[c] : ~Resolved(y, call[c].module)}

\* The loaded items without a marker of this module.
Unprocessed(c) ==
  IF call[c].op = "recognize"
    THEN {d \in items[c] : ~Recognized(d, call[c].module)}
    ELSE {x \in items[c] : ~Resolved(x, call[c].module)}

\* The runs of other clients that wait to commit results of the same module.
Rivals(c) == {b \in Clients \ {c} : /\ pc[b] = "commit"
                                    /\ call[b].module = call[c].module}

\* Nothing to do, or no document at all: predict returns without a commit.
Filter(c) ==
  /\ pc[c] = "filter"
  /\ batch' = [batch EXCEPT ![c] = Unprocessed(c)]
  /\ Goto(c, IF Unprocessed(c) = {} THEN "tag" ELSE "commit")
  /\ contended' = contended \cup
       {<<i, call[c].module>> : i \in {j \in Unprocessed(c) :
                                         \E b \in Rivals(c) : j \in batch[b]}}
  /\ UNCHANGED <<dbVars, call, items, seen, outcome, runs>>

ThisRun(c) == <<c, runs[c]>>

\* Mutant: the markers are left to a later transaction.
InsertReferencesOnly(c, predicted, found) ==
  /\ references' = references \cup
       {x \in [document : predicted, recognizer : {call[c].module}, span : Spans,
               run : {ThisRun(c)}] : x.span \in found[x.document]}
  /\ Goto(c, "tag")
  /\ UNCHANGED <<projects, documents, modules, recognitions, referents,
                 resolutions, contexts, callVars>>

\* insert_rows for the references and the markers of the documents that have a
\* prediction, an empty one included.
InsertRecognitions(c, predicted, found) ==
  LET r == call[c].module IN
  /\ references' = references \cup
       {x \in [document : predicted, recognizer : {r}, span : Spans,
               run : {ThisRun(c)}] : x.span \in found[x.document]}
  /\ recognitions' = recognitions \cup
       [document : predicted, recognizer : {r}, run : {ThisRun(c)}]
  /\ Goto(c, "tag")
  /\ UNCHANGED <<projects, documents, modules, referents, resolutions,
                 contexts, callVars>>

\* Mutant: foreign keys are not enforced.
CommitUnchecked(c) ==
  /\ pc[c] = "commit" /\ call[c].op = "recognize"
  /\ \E found \in [batch[c] -> (SUBSET Spans) \cup {Unavailable}] :
       /\ \A d \in batch[c] : found[d] \in Spotted[call[c].module][d]
       /\ InsertRecognitions(c, {d \in batch[c] : found[d] # Unavailable}, found)

\* One transaction holds them all; a document deleted meanwhile fails its
\* foreign key and takes the whole batch with it.
CommitRecognition(c) ==
  /\ pc[c] = "commit" /\ call[c].op = "recognize"
  /\ \E found \in [batch[c] -> (SUBSET Spans) \cup {Unavailable}] :
       LET predicted == {d \in batch[c] : found[d] # Unavailable} IN
       /\ \A d \in batch[c] : found[d] \in Spotted[call[c].module][d]
       /\ IF predicted \subseteq documents
            THEN InsertRecognitions(c, predicted, found)
            ELSE Fail(c)

\* Mutant: every reference of the batch is marked, those without an answer too.
InsertEveryResolution(c, predicted, place) ==
  LET s == call[c].module IN
  /\ referents' = referents \cup
       {[reference |-> x, resolver |-> s, feature |-> place[x],
         run |-> ThisRun(c)] : x \in predicted}
  /\ resolutions' = resolutions \cup
       [reference : batch[c] \cap references, resolver : {s}, run : {ThisRun(c)}]
  /\ Goto(c, "tag")
  /\ UNCHANGED <<projects, documents, modules, references, recognitions,
                 contexts, callVars>>

InsertResolutions(c, predicted, place) ==
  LET s == call[c].module IN
  /\ referents' = referents \cup
       {[reference |-> x, resolver |-> s, feature |-> place[x],
         run |-> ThisRun(c)] : x \in predicted}
  /\ resolutions' = resolutions \cup
       [reference : predicted, resolver : {s}, run : {ThisRun(c)}]
  /\ Goto(c, "tag")
  /\ UNCHANGED <<projects, documents, modules, references, recognitions,
                 contexts, callVars>>

\* The same for referents.  A predicted feature that the installed gazetteer
\* does not have raises ValueError before anything is inserted.
CommitResolution(c) ==
  /\ pc[c] = "commit" /\ call[c].op = "resolve"
  /\ \E place \in [batch[c] -> Located[call[c].module]] :
       LET predicted == {x \in batch[c] : place[x] # Unavailable} IN
       IF predicted \subseteq references /\ \A x \in predicted : place[x] \in Installed
         THEN InsertResolutions(c, predicted, place)
         ELSE Fail(c)

\* update_recognizer_context / update_resolver_context on the call's own tag.
TagContext(c) == ReadContext(c, "tag", call[c].tag, "tag_load", "tag_insert")
TagInsert(c) == InsertContext(c, "tag_insert", call[c].tag, "tag_load")

\* The row is loaded by its id: a deleted project has none (RuntimeError).
LoadContext(c) ==
  /\ pc[c] = "tag_load"
  /\ IF ContextExists(call[c].project, call[c].tag)
       THEN /\ seen' = [seen EXCEPT ![c] = contexts[<<call[c].project, call[c].tag>>]]
            /\ Goto(c, "tag_write")
            /\ UNCHANGED <<dbVars, call, items, batch, outcome, runs, contended>>
       ELSE Fail(c)

\* Mutants: the row is written back whole, as it was loaded; the recognizer
\* column is written whatever the module.
WholeRow(row, c) ==
  IF call[c].op = "recognize"
    THEN [seen[c] EXCEPT !.recognizer = call[c].module]
    ELSE [seen[c] EXCEPT !.resolver = call[c].module]

WrongColumn(row, c) == [row EXCEPT !.recognizer = call[c].module]

\* The update names only the column that differs from the loaded row, and is
\* not issued at all when none does; a vanished row fails it.
WithModule(row, c) ==
  IF call[c].op = "recognize"
    THEN IF seen[c].recognizer = call[c].module THEN row
         ELSE [row EXCEPT !.recognizer = call[c].module]
    ELSE IF seen[c].resolver = call[c].module THEN row
         ELSE [row EXCEPT !.resolver = call[c].module]

WriteContext(c) ==
  LET p == call[c].project
      t == call[c].tag
  IN
  /\ pc[c] = "tag_write"
  /\ IF ContextExists(p, t)
       THEN /\ contexts' = [contexts EXCEPT ![<<p, t>>] = WithModule(contexts[<<p, t>>], c)]
            /\ Return(c, "ok")
            /\ UNCHANGED <<projects, documents, modules, resultVars>>
       ELSE Fail(c)

-----------------------------------------------------------------------------
(***************************************************************************)
(* What a document shows under the two columns of a tag's row.             *)
(***************************************************************************)

\* Document.toponyms: the references of the tag's recognizer.
Toponyms(d, row) ==
  {x \in references : x.document = d /\ x.recognizer = row.recognizer}

\* Reference.location: a referent of the tag's resolver, or nothing.
Locations(x, row) ==
  LET own == {y \in referents : y.reference = x /\ y.resolver = row.resolver} IN
  IF own = {} THEN {None} ELSE {y.feature : y \in own}

-----------------------------------------------------------------------------
ClientStep(c) ==
  \/ OpenContext(c)
  \/ OpenInsert(c)
  \/ LoadDocuments(c)
  \/ EnsureModule(c)
  \/ RegisterModule(c)
  \/ Filter(c)
  \/ CommitRecognition(c)
  \/ CommitResolution(c)
  \/ TagContext(c)
  \/ TagInsert(c)
  \/ LoadContext(c)
  \/ WriteContext(c)

Next ==
  \/ \E p \in Projects : CreateProject(p)
  \/ \E p \in Projects : \E D \in (SUBSET Uncreated(p)) \ {{}} : CreateDocuments(p, D)
  \/ \E p \in Projects : DeleteProject(p)
  \/ \E c \in Clients, p \in Projects, r \in Recognizers, t \in Tags :
       RunRecognizer(c, p, r, t)
  \/ \E c \in Clients, p \in Projects, s \in Resolvers, t \in Tags :
       RunResolver(c, p, s, t)
  \/ \E c \in Clients : ClientStep(c)
  \/ \E c \in Clients : Interrupt(c)

Spec == Init /\ [][Next]_vars

-----------------------------------------------------------------------------
(***************************************************************************)
(* Properties.                                                             *)
(***************************************************************************)

RowsTypeOK ==
  /\ projects \in [Projects -> {"new", "live", "deleted"}]
  /\ documents \subseteq Docs
  /\ modules \subseteq Modules
  /\ references \subseteq Reference
  /\ recognitions \subseteq Recognition
  /\ referents \subseteq Referent
  /\ resolutions \subseteq Resolution
  /\ contexts \in [Projects \X Tags -> ContextRow]

CallsTypeOK ==
  /\ pc \in [Clients -> Steps \cup {"idle"}]
  /\ call \in [Clients -> Call \cup {None}]
  /\ \A c \in Clients : pc[c] # "idle" => call[c] \in Call
  /\ items \in [Clients -> (SUBSET Docs) \cup (SUBSET Reference)]
  /\ batch \in [Clients -> (SUBSET Docs) \cup (SUBSET Reference)]
  /\ seen \in [Clients -> ContextRow]
  /\ outcome \in [Clients -> {"none", "ok", "failed"}]
  /\ runs \in [Clients -> Nat]
  /\ contended \subseteq (Docs \cup Reference) \X Modules

\* Every variable holds rows and steps of its kind; a client that is inside a
\* call has that call's arguments.
TypeOK == RowsTypeOK /\ CallsTypeOK

\* No row outlives what it belongs to, even when a project is deleted while a
\* recognizer or a resolver is still working on its documents.
DocumentsAnchored == \A d \in documents : projects[HomeOf[d]] = "live"
RecognitionsAnchored ==
  \A x \in references \cup recognitions :
    x.document \in documents /\ x.recognizer \in modules
ResolutionsAnchored ==
  \A x \in referents \cup resolutions :
    x.reference \in references /\ x.resolver \in modules
ContextsAnchored ==
  \A p \in Projects, t \in Tags :
    /\ contexts[<<p, t>>].exists => projects[p] = "live"
    /\ contexts[<<p, t>>].recognizer \in modules \cup {None}
    /\ contexts[<<p, t>>].resolver \in modules \cup {None}

RowsAnchored ==
  /\ DocumentsAnchored
  /\ RecognitionsAnchored
  /\ ResolutionsAnchored
  /\ ContextsAnchored

\* A stored reference comes with the marker of the run that stored it: the next
\* run never predicts again for a document that already has results.
ReferencesMarked ==
  \A x \in references :
    [document |-> x.document, recognizer |-> x.recognizer, run |-> x.run]
      \in recognitions

\* Referents and resolution markers are written together or not at all.
ReferentsMarked ==
  /\ \A x \in referents :
       [reference |-> x.reference, resolver |-> x.resolver, run |-> x.run]
         \in resolutions
  /\ \A m \in resolutions :
       \E x \in referents : /\ x.reference = m.reference
                            /\ x.resolver = m.resolver
                            /\ x.run = m.run

\* A document is processed twice by one recognizer, or a reference by one
\* resolver, only if two runs had it in their batches at the same time.
ProcessedOnce ==
  /\ \A m, n \in recognitions :
       m.document = n.document /\ m.recognizer = n.recognizer /\ m # n
         => <<m.document, m.recognizer>> \in contended
  /\ \A m, n \in resolutions :
       m.reference = n.reference /\ m.resolver = n.resolver /\ m # n
         => <<m.reference, m.resolver>> \in contended

\* "You can safely call these methods many times" (docs/guides/projects.md:102):
\* one client that repeats and interrupts its runs at will, so long as no other
\* client runs the same module beside it, never processes anything twice.
NeverProcessedTwice ==
  /\ \A m, n \in recognitions :
       m.document = n.document /\ m.recognizer = n.recognizer => m = n
  /\ \A m, n \in resolutions :
       m.reference = n.reference /\ m.resolver = n.resolver => m = n

\* When a run goes on to move its tag, every item it loaded that is still
\* stored, and that its module cannot leave unanswered, carries its marker.
Answered(c, i) ==
  IF call[c].op = "recognize"
    THEN i \in documents /\ Unavailable \notin Spotted[call[c].module][i]
           => Recognized(i, call[c].module)
    ELSE i \in references /\ Unavailable \notin Located[call[c].module]
           => Resolved(i, call[c].module)

ProcessedBeforeTagging ==
  \A c \in Clients :
    pc[c] \in {"tag", "tag_insert", "tag_load", "tag_write"}
      => \A i \in items[c] : Answered(c, i)

\* A tag's recognizer changes only by a recognizer run that writes its own
\* module, its resolver only by a resolver run: two clients that update the two
\* halves of one tag never undo each other.
ColumnsIndependent ==
  [][\A p \in Projects, t \in Tags :
       contexts[<<p, t>>].exists /\ contexts'[<<p, t>>].exists =>
         /\ contexts'[<<p, t>>].recognizer # contexts[<<p, t>>].recognizer =>
              \E c \in Clients : /\ pc[c] = "tag_write"
                                 /\ call[c].op = "recognize"
                                 /\ call[c].module = contexts'[<<p, t>>].recognizer
         /\ contexts'[<<p, t>>].resolver # contexts[<<p, t>>].resolver =>
              \E c \in Clients : /\ pc[c] = "tag_write"
                                 /\ call[c].op = "resolve"
                                 /\ call[c].module = contexts'[<<p, t>>].resolver]_vars

\* Results are never lost: a row goes only with the deletion of its project.
Gone(d) == projects[HomeOf[d]] = "live" /\ projects'[HomeOf[d]] = "deleted"

ResultsPersist ==
  [][/\ \A d \in documents : d \in documents' \/ Gone(d)
     /\ \A x \in references : x \in references' \/ Gone(x.document)
     /\ \A x \in recognitions : x \in recognitions' \/ Gone(x.document)
     /\ \A x \in referents : x \in referents' \/ Gone(x.reference.document)
     /\ \A x \in resolutions : x \in resolutions' \/ Gone(x.reference.document)]_vars

\* The Resolution model's docstring: a reference a resolver has processed is
\* tracked "even if no locations were found".
EveryAttemptMarked ==
  [][\A c \in Clients :
       pc[c] = "commit" /\ pc'[c] = "tag" /\ call[c].op = "resolve" =>
         \A x \in batch[c] \cap references :
           \E m \in resolutions' : m.reference = x /\ m.resolver = call[c].module]_vars
=============================================================================
