------------------------- MODULE ProjectAnnotations -------------------------
(***************************************************************************)
(* Scripts that work on one named project: each opens it by its name and   *)
(* then loads an annotation file (Project.load_annotations), runs a        *)
(* recognizer, or reads the results of a tag (Project.get_documents).      *)
(*                                                                         *)
(* A load is a chain of calls on the project store (ProjectStore) without  *)
(* a transaction around it: create the texts, run the manual recognizer,   *)
(* run the manual resolver.  Other scripts move between any two steps, and *)
(* a script may stop at each of them and be started again.                 *)
(***************************************************************************)
EXTENDS ProjectStore, Sequences, FiniteSets

CONSTANTS
  Texts,         \* texts, as files have them and as documents do
  Normalized,    \* a text with its line ends normalised, as documents store it
  TextOf,        \* the text stored for each document
  Files,         \* annotation files
  Entries,       \* the entries of each: a text and its toponyms, in order
  Labels,        \* the tags annotations are loaded under
  RecognizerOf,  \* the manual recognizer of a label
  ResolverOf,    \* the manual resolver of a label
  Scripts        \* the scripts each client runs

ASSUME LabelAssumption ==
  /\ Labels \subseteq Tags
  /\ RecognizerOf \in [Labels -> Recognizers]
  /\ ResolverOf \in [Labels -> Resolvers]

\* normalize_newlines leaves nothing to normalise, and every document goes through it.
ASSUME TextAssumption ==
  /\ Normalized \in [Texts -> Texts]
  /\ TextOf \in [Docs -> Texts]
  /\ \A t \in Texts : Normalized[Normalized[t]] = Normalized[t]
  /\ \A d \in Docs : Normalized[TextOf[d]] = TextOf[d]

ASSUME EntriesAssumption ==
  \A file \in Files : Entries[file] \in
    Seq([text : Texts,
         toponyms : Seq([span : Spans, place : Features \cup {Unavailable}])])

VARIABLES
  script,     \* what each client is doing in the project, or None
  stage,      \* how far it has come
  home,       \* the project it has opened
  handed,     \* the documents a load's recognizer was given
  loads,      \* history: the loads that ended well
  raced       \* history: two clients were creating the project at once

scriptVars == <<script, stage, home, handed>>
historyVars == <<loads, raced>>
allVars == <<vars, scriptVars, historyVars>>

Script == [kind : {"load"}, file : Files, tag : Labels, create : BOOLEAN]
          \cup [kind : {"run"}, module : Recognizers, tag : Labels]
          \cup [kind : {"view"}, tag : Labels]

\* The manual recognizer of a label is run by its loads only.
ASSUME ScriptAssumption ==
  /\ Scripts \in [Clients -> SUBSET Script]
  /\ \A c \in Clients : \A s \in Scripts[c] :
       s.kind = "run" => \A label \in Labels : s.module # RecognizerOf[label]

AnnotationsInit ==
  /\ Init
  /\ script = [c \in Clients |-> None]
  /\ stage = [c \in Clients |-> "ready"]
  /\ home = [c \in Clients |-> None]
  /\ handed = [c \in Clients |-> {}]
  /\ loads = {}
  /\ raced = FALSE

Advance(c, next) == stage' = [stage EXCEPT ![c] = next]

Leave(c) ==
  /\ script' = [script EXCEPT ![c] = None]
  /\ stage' = [stage EXCEPT ![c] = "ready"]
  /\ home' = [home EXCEPT ![c] = None]
  /\ handed' = [handed EXCEPT ![c] = {}]

-----------------------------------------------------------------------------
(***************************************************************************)
(* The manual modules: what a file says of a text.  They look a document   *)
(* up by the text it has stored, among the texts as the file has them.     *)
(***************************************************************************)

Known(file, text) == \E i \in DOMAIN Entries[file] : Entries[file][i].text = text

\* The first of several.
First(S) == CHOOSE i \in S : \A j \in S : i <= j

EntryOf(file, text) ==
  Entries[file][First({i \in DOMAIN Entries[file] : Entries[file][i].text = text})]

\* Mutant: a text that is not in the file reads like one without toponyms.
UnknownIsEmpty(file, text) ==
  IF Known(file, text)
    THEN {t.span : t \in {EntryOf(file, text).toponyms[i] :
                            i \in DOMAIN EntryOf(file, text).toponyms}}
    ELSE {}

\* ManualRecognizer.predict
GivenSpans(file, text) ==
  IF Known(file, text)
    THEN {t.span : t \in {EntryOf(file, text).toponyms[i] :
                            i \in DOMAIN EntryOf(file, text).toponyms}}
    ELSE Unavailable

\* ManualResolver.predict
GivenPlace(file, text, span) ==
  LET toponyms == EntryOf(file, text).toponyms
      matches == {i \in DOMAIN toponyms : toponyms[i].span = span}
  IN  IF ~Known(file, text) THEN Unavailable
      ELSE IF matches = {} THEN Unavailable
      ELSE toponyms[First(matches)].place

-----------------------------------------------------------------------------
(***************************************************************************)
(* Opening the project.                                                    *)
(***************************************************************************)

\* The calls a script makes; none is begun without runs to spare.
Runs(s) == CASE s.kind = "load" -> 2 [] s.kind = "run" -> 1 [] OTHER -> 0

Start(c, s) ==
  /\ stage[c] = "ready"
  /\ runs[c] + Runs(s) <= MaxRuns
  /\ script' = [script EXCEPT ![c] = s]
  /\ Advance(c, "lookup")
  /\ UNCHANGED <<vars, home, handed, loads, raced>>

Live == {p \in Projects : projects[p] = "live"}

AfterOpening(s) ==
  CASE s.kind = "view" -> "view"
    [] s.kind = "run" -> "spans"
    [] s.kind = "load" /\ s.create -> "texts"
    [] OTHER -> "spans"

\* Mutant: the name is not looked up.
CreateAlways(c) ==
  /\ stage[c] = "lookup"
  /\ Advance(c, "insert")
  /\ UNCHANGED <<vars, script, home, handed, loads, raced>>

\* get_by_name takes the first row it finds; nothing makes the name unique.
LookUp(c) ==
  /\ stage[c] = "lookup"
  /\ IF Live = {}
       THEN /\ Advance(c, "insert")
            /\ raced' = (raced \/ \E b \in Clients \ {c} : stage[b] = "insert")
            /\ UNCHANGED home
       ELSE /\ Advance(c, AfterOpening(script[c]))
            /\ home' \in {[home EXCEPT ![c] = p] : p \in Live}
            /\ UNCHANGED raced
  /\ UNCHANGED <<vars, script, handed, loads>>

\* The insert is a statement of its own, after the lookup.
InsertProject(c) ==
  /\ stage[c] = "insert"
  /\ \E p \in Projects :
       /\ CreateProject(p)
       /\ home' = [home EXCEPT ![c] = p]
  /\ Advance(c, AfterOpening(script[c]))
  /\ UNCHANGED <<script, handed, loads, raced>>

-----------------------------------------------------------------------------
(***************************************************************************)
(* load_annotations.                                                       *)
(***************************************************************************)

\* A new document for every entry of the file, as often as it is loaded, with the
\* entry's text normalised.
NewDocuments(p, file) ==
  {D \in SUBSET Uncreated(p) :
     /\ Cardinality(D) = Len(Entries[file])
     /\ \A t \in Texts :
          Cardinality({d \in D : TextOf[d] = t}) =
            Cardinality({i \in DOMAIN Entries[file] : Normalized[Entries[file][i].text] = t})}

Stop(c) == IF pc[c] = "idle" THEN UNCHANGED vars ELSE Interrupt(c)

\* An exception in the script, or its end.
Quit(c) ==
  /\ stage[c] # "ready"
  /\ Stop(c)
  /\ Leave(c)
  /\ UNCHANGED historyVars

AddTexts(c) ==
  /\ stage[c] = "texts"
  /\ \E D \in NewDocuments(home[c], script[c].file) : CreateDocuments(home[c], D)
  /\ Advance(c, "spans")
  /\ UNCHANGED <<script, home, handed, historyVars>>

ModuleOf(s) == IF s.kind = "run" THEN s.module ELSE RecognizerOf[s.tag]

\* create_references
StartSpans(c) ==
  /\ stage[c] = "spans"
  /\ RunRecognizer(c, home[c], ModuleOf(script[c]), script[c].tag)
  /\ Advance(c, "recognizing")
  /\ UNCHANGED <<script, home, handed, historyVars>>

\* create_referents
StartPlaces(c) ==
  /\ stage[c] = "places"
  /\ RunResolver(c, home[c], ResolverOf[script[c].tag], script[c].tag)
  /\ Advance(c, "resolving")
  /\ UNCHANGED <<script, home, handed, historyVars>>

\* The services commit what the manual modules answer.
CommitGivenSpans(c) ==
  LET file == script[c].file
      found == [d \in batch[c] |-> GivenSpans(file, TextOf[d])]
      predicted == {d \in batch[c] : found[d] # Unavailable}
  IN
  /\ pc[c] = "commit" /\ call[c].op = "recognize"
  /\ IF predicted \subseteq documents
       THEN InsertRecognitions(c, predicted, found)
       ELSE Fail(c)

CommitGivenPlaces(c) ==
  LET file == script[c].file
      place == [x \in batch[c] |-> GivenPlace(file, TextOf[x.document], x.span)]
      predicted == {x \in batch[c] : place[x] # Unavailable}
  IN
  /\ pc[c] = "commit" /\ call[c].op = "resolve"
  /\ IF predicted \subseteq references /\ \A x \in predicted : place[x] \in Installed
       THEN InsertResolutions(c, predicted, place)
       ELSE Fail(c)

StoreStep(c) ==
  IF script[c].kind = "load" /\ pc[c] = "commit"
    THEN CommitGivenSpans(c) \/ CommitGivenPlaces(c)
    ELSE ClientStep(c)

Loaded(c) == [file |-> script[c].file, tag |-> script[c].tag,
              project |-> home[c], docs |-> handed[c]]

\* A step of the call, and what follows when it returns.
RunModule(c) ==
  LET load == script[c].kind = "load" IN
  /\ stage[c] \in {"recognizing", "resolving"}
  /\ StoreStep(c)
  /\ IF pc'[c] # "idle"
       THEN UNCHANGED <<scriptVars, loads>>
       ELSE IF outcome'[c] = "ok" /\ load /\ stage[c] = "recognizing"
         THEN /\ Advance(c, "places")
              /\ handed' = [handed EXCEPT ![c] = items[c]]
              /\ UNCHANGED <<script, home, loads>>
         ELSE /\ Leave(c)
              /\ loads' = loads \cup (IF outcome'[c] = "ok" /\ load THEN {Loaded(c)} ELSE {})
  /\ UNCHANGED raced

-----------------------------------------------------------------------------
(***************************************************************************)
(* get_documents: the tag's recognizer, its resolver and the documents are *)
(* read in sessions of their own.                                          *)
(***************************************************************************)

StartView(c) ==
  /\ stage[c] = "view"
  /\ pc[c] = "idle"
  /\ call' = [call EXCEPT ![c] = [op |-> "view", project |-> home[c],
                                  tag |-> script[c].tag]]
  /\ Goto(c, "view_open")
  /\ UNCHANGED <<dbVars, items, batch, seen, outcome, runs, contended>>

ViewOpen(c) ==
  ReadContext(c, "view_open", script[c].tag, "view_recognizer", "view_insert")
ViewInsert(c) == InsertContext(c, "view_insert", script[c].tag, "view_recognizer")

\* get_recognizer_context, then get_resolver_context; a row that is gone with its
\* project raises.
ViewColumn(c, step, column, next) ==
  /\ pc[c] = step
  /\ IF ContextExists(home[c], script[c].tag)
       THEN /\ seen' = [seen EXCEPT ![c] =
                 [@ EXCEPT ![column] = contexts[<<home[c], script[c].tag>>][column]]]
            /\ Goto(c, next)
            /\ UNCHANGED <<dbVars, call, items, batch, outcome, runs, contended>>
       ELSE Fail(c)

ViewRecognizer(c) == ViewColumn(c, "view_recognizer", "recognizer", "view_resolver")
ViewResolver(c) == ViewColumn(c, "view_resolver", "resolver", "view_documents")

\* What the view shows of a document, given the columns it has read.
Shown(c, d) == Toponyms(d, seen[c])
ShownPlaces(c, x) == Locations(x, seen[c])

ViewDocuments(c) ==
  /\ pc[c] = "view_documents"
  /\ Return(c, "ok")
  /\ UNCHANGED dbVars

View(c) ==
  /\ stage[c] = "view"
  /\ \/ StartView(c)
     \/ ViewOpen(c)
     \/ ViewInsert(c)
     \/ ViewRecognizer(c)
     \/ ViewResolver(c)
     \/ ViewDocuments(c)
  /\ IF pc'[c] = "idle" THEN Leave(c) ELSE UNCHANGED scriptVars
  /\ UNCHANGED historyVars

-----------------------------------------------------------------------------
Delete(p) == DeleteProject(p) /\ UNCHANGED <<scriptVars, historyVars>>

AnnotationsNext ==
  \/ \E c \in Clients :
       \/ \E s \in Scripts[c] : Start(c, s)
       \/ LookUp(c)
       \/ InsertProject(c)
       \/ AddTexts(c)
       \/ StartSpans(c)
       \/ StartPlaces(c)
       \/ RunModule(c)
       \/ View(c)
       \/ Quit(c)
  \/ \E p \in Projects : Delete(p)

AnnotationsSpec == AnnotationsInit /\ [][AnnotationsNext]_allVars
-----------------------------------------------------------------------------
(***************************************************************************)
(* Properties.                                                             *)
(***************************************************************************)

Places(d, span) ==
  {GivenPlace(file, TextOf[d], span) : file \in Files} \cap Features

\* What a document shows under a label, given the load whose annotations it should
\* have: the spans of one file whole, and every span that the load's file links with a
\* place that a file gave it.
Annotated(c, d, load) ==
  /\ \E file \in Files :
       /\ Known(file, TextOf[d])
       /\ {x.span : x \in Shown(c, d)} = GivenSpans(file, TextOf[d])
  /\ seen[c].resolver = ResolverOf[load.tag] =>
       \A x \in Shown(c, d) :
         GivenPlace(load.file, TextOf[d], x.span) # Unavailable =>
           ShownPlaces(c, x) \subseteq Places(d, x.span)

\* No file has the text as it is stored: nothing is shown of the document, and it
\* still awaits an annotation.
Unannotated(c, d, load) ==
  Shown(c, d) = {} /\ ~Recognized(d, RecognizerOf[load.tag])

\* A load that ends well leaves every document annotated whose stored text its file
\* has, also when it repeats loads that were interrupted, comes after another file of
\* the same label, or overlaps with other scripts.  An entry with carriage returns in
\* its text annotates nothing, the document made from it included, and the load ends
\* well all the same (project.py:423-433, manual.py:72): whoever reads the label's
\* results sees the whole of an entry or nothing.  Only two loads that process one
\* document at once may show a span twice or unlinked.
ShownAsLoaded(c, load) ==
  \A d \in load.docs \cap DocumentsOf(home[c]) :
    /\ seen[c].recognizer = RecognizerOf[load.tag]
    /\ <<d, RecognizerOf[load.tag]>> \notin contended
    => /\ Known(load.file, TextOf[d]) => Annotated(c, d, load)
       /\ (\A file \in Files : ~Known(file, TextOf[d])) => Unannotated(c, d, load)

LoadsShown ==
  \A c \in Clients :
    pc[c] = "view_documents" =>
      \A load \in loads : load.tag = script[c].tag => ShownAsLoaded(c, load)

\* Whoever opens the project by its name finds what was loaded under it, unless
\* two scripts were creating it at the same time.
LoadsFound ==
  \A c \in Clients :
    home[c] # None /\ projects[home[c]] = "live" /\ ~raced =>
      \A load \in loads : projects[load.project] = "live" => load.project = home[c]
=============================================================================
