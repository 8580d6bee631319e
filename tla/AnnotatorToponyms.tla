------------------------- MODULE AnnotatorToponyms --------------------------
(***************************************************************************)
(* The toponyms of one annotator document.  The page asks the server to    *)
(* parse a document that has not been parsed, whichever document it shows, *)
(* and lets the user edit the one it shows once that is done.  It waits    *)
(* for none of its requests, and one it sent goes on after the page is     *)
(* left: a document may have several on their way, of one page or of many, *)
(* and any of them may fail half way.                                      *)
(*                                                                         *)
(* Each SELECT reads what has been committed, each commit is one step, and *)
(* an UPDATE opens its transaction: what a request reads after it, up to   *)
(* the commit, belongs to the same step.  An UPDATE writes the columns     *)
(* that differ from the row as it was loaded, and fails when the row is    *)
(* gone.  A loaded row is read again only after a commit of the request.   *)
(***************************************************************************)
EXTENDS Naturals, FiniteSets

CONSTANTS
  Senders,   \* each has one request on its way: a page's user, its background
             \* parses, the page that was there before it, another tab
  Mentions,  \* spans that users select and the recognizer finds
  TextOf,    \* the text of each
  Scenes,    \* how many senders there are, which mentions and loc_ids users select,
             \* and which mentions are found
  Places,    \* identifiers of the gazetteer
  Unlinked,  \* the empty loc_id of a mention that is not annotated
  NoSuitable,  \* the null loc_id: annotated as "No suitable location"
  OneSense,  \* the session's one_sense_per_discourse
  Failures,  \* whether requests may fail half way
  None

LocIds == Places \cup {Unlinked, NoSuitable}

Meet(m, n) == m.start < n.end /\ m.end > n.start

\* A named entity of spaCy never overlaps another.  A scene's rows is a bound on
\* the rows created.
ASSUME SendersAssumption == IsFiniteSet(Senders)
ASSUME MentionsAssumption ==
  \A m \in Mentions : m.start \in Nat /\ m.end \in Nat /\ m.start < m.end
ASSUME ScenesAssumption ==
  \A s \in Scenes : /\ s.senders \in 1 .. Cardinality(Senders) /\ s.rows \in Nat
                    /\ s.mentions \subseteq Mentions /\ s.spotted \subseteq Mentions
                    /\ s.choices \subseteq LocIds
                    /\ \A m, n \in s.spotted : Meet(m, n) => m = n
ASSUME SwitchesAssumption == OneSense \in BOOLEAN /\ Failures \in BOOLEAN
ASSUME PlacesAssumption ==
  Unlinked \notin Places /\ NoSuitable \notin Places /\ Unlinked # NoSuitable

VARIABLES
  scene,     \* the scene played
  active,    \* the senders there are
  document,  \* "live" or "gone"
  applied,   \* its spacy_applied
  rows,      \* its toponyms
  created,   \* number of rows created so far
  pc,        \* the step each sender's request is at
  request,   \* what was asked for, with the row it names as loaded
  queue,     \* mentions still to be stored
  selected,  \* the row an annotation is copied from, as loaded
  repeats,   \* rows still to be looked at for the copy
  outcome,   \* whether the last request ended well
  removed,   \* history: spans that users removed altogether, that no parse still on
             \* its way was to store, and that no user put back
  written,   \* history: rows written by others since the request read them
  crossed    \* history: rows written by others since the request began

requestVars == <<pc, request, queue, selected, repeats, outcome>>
historyVars == <<removed, written, crossed>>
vars == <<scene, active, document, applied, rows, created, requestVars, historyVars>>

Spotted == scene.spotted
MaxRows == scene.rows

Span(r) == <<r.start, r.end>>

Row == [id : 1 .. MaxRows, start : Nat, end : Nat,
        text : {TextOf[m] : m \in Mentions}, place : LocIds]

TypeOK ==
  /\ scene \in Scenes /\ active \subseteq Senders
  /\ document \in {"live", "gone"} /\ applied \in BOOLEAN
  /\ rows \subseteq Row
  /\ \A r, s \in rows : r.id = s.id => r = s
  /\ pc \in [Senders -> {"idle", "predict", "validate", "insert", "apply", "link", "reread",
                      "repeats", "visit", "copy", "check", "move", "delete"}]
  /\ \A t \in Senders : queue[t] \subseteq Mentions
  /\ outcome \in [Senders -> {"ok", "error"}]

\* Mutant: spacy_applied, a nullable column, has no default.
InitWithoutDefault ==
  /\ scene \in Scenes
  /\ active \in {s \in SUBSET Senders : Cardinality(s) = scene.senders}
  /\ document = "live"
  /\ applied = None
  /\ rows = {}
  /\ created = 0
  /\ pc = [t \in Senders |-> "idle"]
  /\ request = [t \in Senders |-> None]
  /\ queue = [t \in Senders |-> {}]
  /\ selected = [t \in Senders |-> None]
  /\ repeats = [t \in Senders |-> {}]
  /\ outcome = [t \in Senders |-> "ok"]
  /\ removed = {}
  /\ written = [t \in Senders |-> {}]
  /\ crossed = [t \in Senders |-> {}]

Init ==
  /\ scene \in Scenes
  /\ active \in {s \in SUBSET Senders : Cardinality(s) = scene.senders}
  /\ document = "live"
  /\ applied = FALSE
  /\ rows = {}
  /\ created = 0
  /\ pc = [t \in Senders |-> "idle"]
  /\ request = [t \in Senders |-> None]
  /\ queue = [t \in Senders |-> {}]
  /\ selected = [t \in Senders |-> None]
  /\ repeats = [t \in Senders |-> {}]
  /\ outcome = [t \in Senders |-> "ok"]
  /\ removed = {}
  /\ written = [t \in Senders |-> {}]
  /\ crossed = [t \in Senders |-> {}]

Goto(t, step) == pc' = [pc EXCEPT ![t] = step]

\* The request is over, and with it what it had loaded.
Finish(t, how) ==
  /\ Goto(t, "idle")
  /\ outcome' = [outcome EXCEPT ![t] = how]
  /\ request' = [request EXCEPT ![t] = None]
  /\ queue' = [queue EXCEPT ![t] = {}]
  /\ selected' = [selected EXCEPT ![t] = None]
  /\ repeats' = [repeats EXCEPT ![t] = {}]

Begin(t, step, what) ==
  /\ pc[t] = "idle"
  /\ Goto(t, step)
  /\ request' = [request EXCEPT ![t] = what]
  /\ outcome' = [outcome EXCEPT ![t] = "ok"]
  /\ written' = [written EXCEPT ![t] = {}]
  /\ crossed' = [crossed EXCEPT ![t] = {}]

\* A commit that writes row id, behind the backs of the other requests.
Writes(t, id) ==
  LET others == {b \in Senders \ {t} : pc[b] # "idle"} IN
  /\ written' = [b \in Senders |-> IF b \in others THEN written[b] \cup {id} ELSE written[b]]
  /\ crossed' = [b \in Senders |-> IF b \in others THEN crossed[b] \cup {id} ELSE crossed[b]]

Reads(t) == written' = [written EXCEPT ![t] = {}] /\ UNCHANGED crossed

Stored(id) == {r \in rows : r.id = id}

\* Mutant: only a row inside the new span is in the way.
WithinOthers(m, id) == {r \in rows : r.id # id /\ m.start <= r.start /\ r.end <= m.end}

\* validate_overlap; id is the row's own, or 0 for a row not stored yet.
Overlapping(m, id) == {r \in rows : r.id # id /\ Meet(r, m)}

First(some) == {m \in some : \A n \in some : m.start <= n.start}

-----------------------------------------------------------------------------
(***************************************************************************)
(* Storing toponyms: one from the user, or all that the recognizer found.  *)
(***************************************************************************)

\* The page shows a document's text only after it has been parsed.
CreateAnnotation(t, m) ==
  /\ document = "live" /\ applied
  /\ created < MaxRows
  /\ Begin(t, "validate", [op |-> "create"])
  /\ queue' = [queue EXCEPT ![t] = {m}]
  /\ UNCHANGED <<document, applied, rows, created, selected, repeats, removed>>

\* Mutant: a document is parsed whether or not it was parsed before.
ParseAgain(t) ==
  /\ document = "live"
  /\ Begin(t, "predict", [op |-> "parse"])
  /\ UNCHANGED <<document, applied, rows, created, queue, selected, repeats, removed>>

ParseDocument(t) ==
  /\ document = "live" /\ ~applied
  /\ Begin(t, "predict", [op |-> "parse"])
  /\ UNCHANGED <<document, applied, rows, created, queue, selected, repeats, removed>>

\* Mutant: a name found before is not stored again.
RemainingNames == {m \in Spotted : \A r \in rows : r.text # TextOf[m]}

\* _remove_duplicates, on the toponyms read after the prediction.
Remaining == {m \in Spotted : \A r \in rows : Span(r) # Span(m)}

ReadToponyms(t) ==
  /\ pc[t] = "predict"
  /\ queue' = [queue EXCEPT ![t] = Remaining]
  /\ Goto(t, IF Remaining = {} THEN "apply" ELSE "validate")
  /\ Reads(t)
  /\ UNCHANGED <<document, applied, rows, created, request, selected, repeats,
                 outcome, removed>>

\* An overlap ends the request; what it has stored so far stays.
ValidateNew(t) ==
  /\ pc[t] = "validate"
  /\ \E m \in First(queue[t]) :
       IF Overlapping(m, 0) = {}
         THEN /\ Goto(t, "insert")
              /\ UNCHANGED <<request, queue, selected, repeats, outcome>>
         ELSE Finish(t, "error")
  /\ Reads(t)
  /\ UNCHANGED <<document, applied, rows, created, removed>>

\* The foreign key refuses a toponym of a document that is gone.
InsertToponym(t) ==
  /\ pc[t] = "insert"
  /\ created < MaxRows
  /\ \E m \in First(queue[t]) :
       IF document = "gone"
         THEN /\ Finish(t, "error")
              /\ UNCHANGED <<rows, created, historyVars>>
         ELSE /\ rows' = rows \cup {[id |-> created + 1, start |-> m.start, end |-> m.end,
                                     text |-> TextOf[m], place |-> Unlinked]}
              /\ created' = created + 1
              /\ Writes(t, created + 1)
              /\ removed' = IF request[t].op = "create" THEN removed \ {Span(m)} ELSE removed
              /\ IF queue[t] # {m}
                   THEN /\ queue' = [queue EXCEPT ![t] = @ \ {m}]
                        /\ Goto(t, "validate")
                        /\ UNCHANGED <<request, selected, repeats, outcome>>
                   ELSE IF request[t].op = "parse"
                     THEN /\ queue' = [queue EXCEPT ![t] = {}]
                          /\ Goto(t, "apply")
                          /\ UNCHANGED <<request, selected, repeats, outcome>>
                     ELSE Finish(t, "ok")
  /\ UNCHANGED <<document, applied>>

SetApplied(t) ==
  /\ pc[t] = "apply"
  /\ IF document = "live"
       THEN applied' = TRUE /\ Finish(t, "ok")
       ELSE Finish(t, "error") /\ UNCHANGED applied
  /\ UNCHANGED <<document, rows, created, historyVars>>

-----------------------------------------------------------------------------
(***************************************************************************)
(* Linking a toponym, and copying the link to its repeats.                 *)
(***************************************************************************)

OverwriteAnnotation(t, r, place) ==
  /\ applied
  /\ Begin(t, "link", [op |-> "link", row |-> r, place |-> place])
  /\ UNCHANGED <<document, applied, rows, created, queue, selected, repeats, removed>>

\* update: the UPDATE if the place differs from the loaded one, the overlap
\* check, and the commit, in one transaction; fails leaves everything as it was.
UpdatePlace(t, r, place, succeeds) ==
  IF (place # r.place /\ Stored(r.id) = {}) \/ Overlapping(r, r.id) # {}
    THEN /\ Finish(t, "error")
         /\ UNCHANGED <<rows, written, crossed>>
    ELSE /\ succeeds
         /\ IF place = r.place
              THEN UNCHANGED <<rows, written, crossed>>
              ELSE /\ rows' = {IF s.id = r.id THEN [s EXCEPT !.place = place] ELSE s : s \in rows}
                   /\ Writes(t, r.id)

Link(t) ==
  /\ pc[t] = "link"
  /\ UpdatePlace(t, request[t].row, request[t].place,
       Goto(t, "reread") /\ UNCHANGED <<request, queue, selected, repeats, outcome>>)
  /\ UNCHANGED <<document, applied, created, removed>>

RereadSelected(t) ==
  /\ pc[t] = "reread"
  /\ IF Stored(request[t].row.id) = {}
       THEN Finish(t, "error")
       ELSE \E now \in Stored(request[t].row.id) :
              IF OneSense /\ now.place \in Places
                THEN /\ selected' = [selected EXCEPT ![t] = now]
                     /\ Goto(t, "repeats")
                     /\ UNCHANGED <<request, queue, repeats, outcome>>
                ELSE Finish(t, "ok")
  /\ UNCHANGED <<document, applied, rows, created, historyVars>>

\* Mutant: a mention said to have no suitable location is a repeat as well.
WithoutPlace(r, s) == r.text = s.text /\ r.place \notin Places /\ r.id # s.id

IsUnannotatedRepeat(r, s) == r.text = s.text /\ r.place = Unlinked /\ r.id # s.id

\* The list is loaded in order of start; the first repeat is known from it, and
\* those after it are looked at again, since the copy ends what was loaded.
ReadRepeats(t) ==
  LET found == {r \in rows : IsUnannotatedRepeat(r, selected[t])} IN
  /\ pc[t] = "repeats"
  /\ IF found = {}
       THEN Finish(t, "ok")
       ELSE \E r \in First(found) :
              /\ request' = [request EXCEPT ![t].row = r]
              /\ repeats' = [repeats EXCEPT ![t] = {s \in rows \ {r} : s.start >= r.start}]
              /\ Goto(t, "copy")
              /\ UNCHANGED <<queue, selected, outcome>>
  /\ Reads(t)
  /\ UNCHANGED <<document, applied, rows, created, removed>>

\* Mutant: the loop ends with the first copy.
AfterFirstCopy(t) == Finish(t, "ok")

AfterCopy(t) ==
  IF repeats[t] = {}
    THEN Finish(t, "ok")
    ELSE Goto(t, "visit") /\ UNCHANGED <<request, queue, selected, repeats, outcome>>

Copy(t) ==
  /\ pc[t] = "copy"
  /\ UpdatePlace(t, request[t].row, selected[t].place, AfterCopy(t))
  /\ UNCHANGED <<document, applied, created, removed>>

\* Both the candidate and the selected row are read again after a copy.
Visit(t) ==
  /\ pc[t] = "visit"
  /\ \E r \in First(repeats[t]) :
       IF Stored(r.id) = {} \/ Stored(selected[t].id) = {}
         THEN Finish(t, "error")
         ELSE \E now \in Stored(r.id), s \in Stored(selected[t].id) :
                IF IsUnannotatedRepeat(now, s)
                  THEN /\ request' = [request EXCEPT ![t].row = now]
                       /\ selected' = [selected EXCEPT ![t] = s]
                       /\ repeats' = [repeats EXCEPT ![t] = @ \ {r}]
                       /\ Goto(t, "copy")
                       /\ UNCHANGED <<queue, outcome>>
                  ELSE IF repeats[t] = {r}
                    THEN Finish(t, "ok")
                    ELSE /\ repeats' = [repeats EXCEPT ![t] = @ \ {r}]
                         /\ UNCHANGED <<pc, request, queue, selected, outcome>>
  /\ Reads(t)
  /\ UNCHANGED <<document, applied, rows, created, removed>>

-----------------------------------------------------------------------------
(***************************************************************************)
(* Moving and removing a toponym.                                          *)
(***************************************************************************)

UpdateAnnotation(t, r, m) ==
  /\ applied
  /\ Begin(t, "check", [op |-> "edit", row |-> r, span |-> m])
  /\ UNCHANGED <<document, applied, rows, created, queue, selected, repeats, removed>>

ValidateMove(t) ==
  /\ pc[t] = "check"
  /\ IF Overlapping(request[t].span, request[t].row.id) = {}
       THEN Goto(t, "move") /\ UNCHANGED <<request, queue, selected, repeats, outcome>>
       ELSE Finish(t, "error")
  /\ UNCHANGED <<document, applied, rows, created, historyVars>>

Move(t) ==
  LET old == request[t].row
      new == [start |-> request[t].span.start, end |-> request[t].span.end,
              text |-> TextOf[request[t].span]]
      moved(r) == [r EXCEPT !.start = IF new.start # old.start THEN new.start ELSE @,
                            !.end = IF new.end # old.end THEN new.end ELSE @,
                            !.text = IF new.text # old.text THEN new.text ELSE @]
      changed == Span(new) # Span(old) \/ new.text # old.text IN
  /\ pc[t] = "move"
  /\ IF changed /\ Stored(old.id) = {}
       THEN /\ Finish(t, "error")
            /\ UNCHANGED <<rows, historyVars>>
       ELSE /\ rows' = {IF r.id = old.id THEN moved(r) ELSE r : r \in rows}
            /\ removed' = removed \ {Span(moved(r)) : r \in Stored(old.id)}
            /\ IF changed THEN Writes(t, old.id) ELSE UNCHANGED <<written, crossed>>
            /\ Finish(t, "ok")
  /\ UNCHANGED <<document, applied, created>>

DeleteAnnotation(t, r) ==
  /\ applied
  /\ Begin(t, "delete", [op |-> "delete", row |-> r])
  /\ UNCHANGED <<document, applied, rows, created, queue, selected, repeats, removed>>

\* A parse on its way has yet to read the rows, or to store this span.
AwaitsStoring(b, span) ==
  pc[b] = "predict" \/ \E m \in queue[b] : Span(m) = span /\ request[b].op = "parse"

\* Deleting a row that is gone is no error.
DeleteToponym(t) ==
  LET gone == Stored(request[t].row.id) IN
  /\ pc[t] = "delete"
  /\ rows' = rows \ gone
  /\ removed' = removed \cup
       {span \in {Span(r) : r \in gone} \ {Span(r) : r \in rows \ gone} :
          \A b \in active : ~AwaitsStoring(b, span)}
  /\ Finish(t, "ok")
  /\ UNCHANGED <<document, applied, created, written, crossed>>

\* The document goes, with its toponyms (AnnotatorDocuments).
DeleteDocument(t) ==
  /\ pc[t] = "idle"
  /\ document = "live"
  /\ document' = "gone"
  /\ rows' = {}
  /\ UNCHANGED <<applied, created, requestVars, historyVars>>

\* The server stops, a statement fails, or a row just written is gone when it is
\* read again.
Fail(t) ==
  /\ Failures
  /\ pc[t] # "idle"
  /\ Finish(t, "error")
  /\ UNCHANGED <<document, applied, rows, created, historyVars>>

-----------------------------------------------------------------------------
SenderStep(t) ==
    \/ \E m \in scene.mentions : CreateAnnotation(t, m)
    \/ ParseDocument(t)
    \/ ReadToponyms(t)
    \/ ValidateNew(t)
    \/ InsertToponym(t)
    \/ SetApplied(t)
    \/ \E r \in rows, place \in scene.choices : OverwriteAnnotation(t, r, place)
    \/ Link(t)
    \/ RereadSelected(t)
    \/ ReadRepeats(t)
    \/ Copy(t)
    \/ Visit(t)
    \/ \E r \in rows, m \in scene.mentions : UpdateAnnotation(t, r, m)
    \/ ValidateMove(t)
    \/ Move(t)
    \/ \E r \in rows : DeleteAnnotation(t, r)
    \/ DeleteToponym(t)
    \/ DeleteDocument(t)
    \/ Fail(t)

Next == (\E t \in active : SenderStep(t)) /\ UNCHANGED <<scene, active>>

Spec == Init /\ [][Next]_vars

-----------------------------------------------------------------------------
(***************************************************************************)
(* Properties.                                                             *)
(***************************************************************************)

\* "Spans must not overlap. The annotator rejects an annotation that overlaps an
\* existing toponym" (docs/guides/annotating.md, step 3): two rows come to overlap
\* only if one of them was written by another request since this one last read the
\* rows, so never by requests that come one after the other, wherever they end.
OverlapsOnlyToRaces ==
  [][\A t \in Senders : pc[t] # pc'[t] =>
       \A r, s \in rows' :
         r # s /\ Meet(r, s) /\ ~(\E x, y \in rows : x.id = r.id /\ y.id = s.id /\ Meet(x, y))
           => {r.id, s.id} \cap written[t] # {}]_vars

\* A toponym that a user has removed stays out until a user puts it back.  Only a
\* parse that was on its way as it was removed, and had it still to store, brings it
\* up again: none that begins later does, from whichever page and however often
\* parses were repeated or cut off (routes/documents.py:51).
RemovalsHold == \A r \in rows : Span(r) \notin removed

\* spacy_applied is set only when every mention found is stored, over however many
\* attempts, one after the other or side by side (document.py:282-302).
ParseComplete ==
  [][~applied /\ applied' =>
       \A m \in Spotted : \E r \in rows : Span(r) = Span(m)]_vars

\* Annotations overwritten in a step: a choice replaced in a row that stays.
Overwritten ==
  {r \in rows : r.place # Unlinked /\ \E s \in rows' : s.id = r.id /\ s.place # r.place}

\* A user's choice, a place or that none suits, changes only by a request that names
\* the mention: one sense per discourse fills in the mentions that are not annotated
\* alone (toponym.py:373-397), unless another request wrote the mention between the
\* look at it and the copy.
LinksSurvive ==
  [][\A r \in Overwritten : \E t \in Senders :
       /\ pc[t] \in {"link", "copy"} /\ request[t].row.id = r.id
       /\ pc[t] = "copy" => r.id \in written[t]]_vars

\* A link that succeeds under one sense per discourse leaves no repeat of the name
\* without an annotation, except those that other requests wrote since it began; it
\* claims nothing once they wrote the mention it copies from.
OneSenseCompletes ==
  [][\A t \in Senders :
       /\ selected[t] # None /\ pc'[t] = "idle" /\ outcome'[t] = "ok"
       /\ selected[t].id \notin crossed[t]
       => \A r \in rows' : r.text = selected[t].text /\ r.id \notin crossed[t]
                              => r.place # Unlinked]_vars
=============================================================================
