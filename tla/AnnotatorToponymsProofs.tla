---------------------- MODULE AnnotatorToponymsProofs ----------------------
(***************************************************************************)
(* Safety of AnnotatorToponyms for every number of requests, mentions,     *)
(* places and rows.                                                        *)
(***************************************************************************)
EXTENDS AnnotatorToponyms, FiniteSetTheorems, TLAPS

-----------------------------------------------------------------------------
(***************************************************************************)
(* Type correctness, with what a request holds at each of its steps.       *)
(***************************************************************************)

Storing == {"validate", "insert"}
Copying == {"repeats", "visit", "copy"}
Linking == {"link", "reread"} \cup Copying
Editing == {"check", "move"}
Steps == {"idle", "predict", "apply", "delete"} \cup Storing \cup Linking \cup Editing

StoreRequest == [op : {"create", "parse"}]
LinkRequest == [op : {"link"}, row : Row, place : LocIds]
EditRequest == [op : {"edit"}, row : Row, span : Mentions]
DeleteRequest == [op : {"delete"}, row : Row]
Request == StoreRequest \cup LinkRequest \cup EditRequest \cup DeleteRequest

RowsTyped ==
  /\ scene \in Scenes /\ active \subseteq Senders
  /\ document \in {"live", "gone"} /\ applied \in BOOLEAN
  /\ rows \subseteq Row
  /\ \A r, s \in rows : r.id = s.id => r = s
  /\ created \in Nat
  /\ \A r \in rows : r.id <= created

HistoryTyped ==
  written \in [Senders -> SUBSET Nat] /\ crossed \in [Senders -> SUBSET Nat]

RequestsTyped ==
  /\ pc \in [Senders -> Steps]
  /\ request \in [Senders -> Request \cup {None}]
  /\ queue \in [Senders -> SUBSET Mentions]
  /\ selected \in [Senders -> Row \cup {None}]
  /\ repeats \in [Senders -> SUBSET Row]
  /\ outcome \in [Senders -> {"ok", "error"}]
  /\ HistoryTyped

\* A request has what its step goes on with.
RequestHolds(t) ==
  /\ pc[t] = "predict" => request[t].op = "parse"
  /\ pc[t] \in Storing =>
       \/ request[t].op = "create" /\ \E m \in Mentions : queue[t] = {m}
       \/ request[t].op = "parse" /\ queue[t] \subseteq Spotted
  /\ pc[t] \in Linking => request[t] \in LinkRequest
  /\ pc[t] \in Copying => selected[t] \in Row
  /\ pc[t] \notin Copying => selected[t] = None
  /\ pc[t] \in Editing => request[t] \in EditRequest
  /\ pc[t] = "delete" => request[t] \in DeleteRequest

TypeInv == RowsTyped /\ RequestsTyped /\ \A t \in Senders : RequestHolds(t)

\* A step of one sender leaves the requests of the others where they are.
Frame(t) ==
  /\ UNCHANGED <<scene, active>>
  /\ \A b \in Senders \ {t} :
       /\ pc'[b] = pc[b] /\ request'[b] = request[b] /\ queue'[b] = queue[b]
       /\ selected'[b] = selected[b] /\ repeats'[b] = repeats[b]

\* The types depend on the scene alone, and the scene stays.
LEMMA SameTypes ==
  ASSUME scene' = scene
  PROVE  /\ Row' = Row /\ Request' = Request /\ LinkRequest' = LinkRequest
         /\ EditRequest' = EditRequest /\ DeleteRequest' = DeleteRequest
         /\ Spotted' = Spotted /\ MaxRows' = MaxRows
BY DEF Row, Request, StoreRequest, LinkRequest, EditRequest, DeleteRequest, Spotted, MaxRows

\* A request's steps go with its sender's variables alone.
LEMMA FrameHolds ==
  ASSUME NEW t \in Senders, Frame(t), \A b \in Senders : RequestHolds(b), RequestHolds(t)'
  PROVE  \A b \in Senders : RequestHolds(b)'
<1>1. ASSUME NEW b \in Senders \ {t} PROVE RequestHolds(b)'
  BY SameTypes DEF Frame, RequestHolds
<1>2. QED BY <1>1

LEMMA FinishTyped ==
  ASSUME RequestsTyped, NEW t \in Senders, NEW how \in {"ok", "error"}, Finish(t, how),
         HistoryTyped', UNCHANGED <<scene, active>>
  PROVE  RequestsTyped' /\ Frame(t) /\ RequestHolds(t)' /\ pc'[t] = "idle" /\ outcome'[t] = how
<1>1. Row' = Row /\ Request' = Request BY SameTypes
<1>2. pc'[t] = "idle" /\ selected'[t] = None /\ outcome'[t] = how
  BY DEF Finish, Goto, RequestsTyped
<1>3. RequestsTyped' BY <1>1 DEF Finish, Goto, RequestsTyped, Steps
<1>4. Frame(t) BY DEF Finish, Goto, RequestsTyped, Frame
<1>5. RequestHolds(t)'
  BY <1>2 DEF RequestHolds, Storing, Copying, Linking, Editing
<1>6. QED BY <1>2, <1>3, <1>4, <1>5

\* A request that begins has been asked for something its step can go on with.
LEMMA BeginTyped ==
  ASSUME RequestsTyped, NEW t \in Senders, NEW step \in Steps, NEW what \in Request,
         Begin(t, step, what), RequestHolds(t), step \notin Copying,
         UNCHANGED <<selected, repeats>>, UNCHANGED <<scene, active>>,
         queue' \in [Senders -> SUBSET Mentions],
         \A b \in Senders \ {t} : queue'[b] = queue[b],
         step = "predict" => what.op = "parse",
         step \in Storing => what.op = "create" /\ \E m \in Mentions : queue'[t] = {m},
         step \in Linking => what \in LinkRequest,
         step \in Editing => what \in EditRequest,
         step = "delete" => what \in DeleteRequest
  PROVE  /\ RequestsTyped' /\ Frame(t) /\ RequestHolds(t)'
         /\ pc[t] = "idle" /\ pc'[t] = step /\ request'[t] = what
         /\ selected'[t] = None /\ written'[t] = {} /\ crossed'[t] = {}
         /\ \A b \in Senders \ {t} : written'[b] = written[b] /\ crossed'[b] = crossed[b]
<1>1. /\ Row' = Row /\ Request' = Request /\ LinkRequest' = LinkRequest
      /\ EditRequest' = EditRequest /\ DeleteRequest' = DeleteRequest
  BY SameTypes
<1>2. /\ pc[t] = "idle" /\ pc'[t] = step /\ request'[t] = what
      /\ written'[t] = {} /\ crossed'[t] = {}
      /\ \A b \in Senders \ {t} : written'[b] = written[b] /\ crossed'[b] = crossed[b]
  BY DEF Begin, Goto, RequestsTyped, HistoryTyped
<1>3. selected'[t] = None
  BY <1>2 DEF RequestHolds, Copying
<1>4. RequestsTyped' BY <1>1 DEF Begin, Goto, RequestsTyped, HistoryTyped
<1>5. Frame(t) BY DEF Begin, Goto, RequestsTyped, Frame
<1>6. RequestHolds(t)'
  BY <1>1, <1>2, <1>3 DEF RequestHolds, Storing, Copying, Linking, Editing
<1>7. QED BY <1>2, <1>3, <1>4, <1>5, <1>6

-----------------------------------------------------------------------------
(***************************************************************************)
(* What a step does to the rows: it renames none of them, so that an       *)
(* identifier stands for one row throughout.                               *)
(***************************************************************************)

\* Rows are rewritten one by one and keep their identifiers.
LEMMA RewrittenRows ==
  ASSUME RowsTyped, NEW F, \A r \in rows : F[r] \in Row /\ F[r].id = r.id,
         rows' = {F[r] : r \in rows},
         UNCHANGED <<scene, active, document, applied, created>>
  PROVE  RowsTyped'
<1>1. Row' = Row BY SameTypes
<1>2. rows' \subseteq Row BY DEF RowsTyped
<1>3. ASSUME NEW r \in rows', NEW s \in rows', r.id = s.id PROVE r = s
  <2>1. PICK x \in rows, y \in rows : r = F[x] /\ s = F[y] OBVIOUS
  <2>2. x.id = y.id BY <1>3, <2>1
  <2>3. QED BY <2>1, <2>2 DEF RowsTyped
<1>4. \A r \in rows' : r.id <= created BY DEF RowsTyped
<1>5. QED BY <1>1, <1>2, <1>3, <1>4 DEF RowsTyped

Placed(r, place) == [r EXCEPT !.place = place]

\* The place of row r, as loaded, is set, unless it has that place already.
PlaceSet(t, r, place) ==
  \/ place = r.place /\ UNCHANGED <<rows, written, crossed>>
  \/ /\ place # r.place
     /\ rows' = {IF s.id = r.id THEN Placed(s, place) ELSE s : s \in rows}
     /\ Writes(t, r.id)

LEMMA PlaceSetTyped ==
  ASSUME RowsTyped, HistoryTyped,
         NEW t \in Senders, NEW r \in Row, NEW place \in LocIds,
         PlaceSet(t, r, place), UNCHANGED <<scene, active, document, applied, created>>
  PROVE  RowsTyped' /\ HistoryTyped'
<1>1. CASE UNCHANGED <<rows, written, crossed>>
  BY <1>1, SameTypes DEF RowsTyped, HistoryTyped
<1>2. CASE /\ rows' = {IF s.id = r.id THEN Placed(s, place) ELSE s : s \in rows}
           /\ Writes(t, r.id)
  <2> DEFINE F == [s \in Row |-> IF s.id = r.id THEN Placed(s, place) ELSE s]
  <2>1. \A s \in Row : Placed(s, place) \in Row /\ Placed(s, place).id = s.id
    BY DEF Row, Placed
  <2>2. \A s \in rows : F[s] = IF s.id = r.id THEN Placed(s, place) ELSE s
    BY DEF RowsTyped
  <2>3. \A s \in Row : F[s] \in Row /\ F[s].id = s.id
    <3> TAKE s \in Row
    <3>1. CASE s.id = r.id BY <2>1, <3>1
    <3>2. CASE s.id # r.id BY <3>2
    <3>3. QED BY <3>1, <3>2
  <2> HIDE DEF F
  <2>4. \A s \in rows : F[s] \in Row /\ F[s].id = s.id
    BY <2>3 DEF RowsTyped
  <2>5. rows' = {F[s] : s \in rows} BY <1>2, <2>2
  <2>6. RowsTyped' BY <2>4, <2>5, RewrittenRows
  <2>7. r.id \in Nat BY ScenesAssumption DEF Row, MaxRows, RowsTyped
  <2>8. HistoryTyped' BY <1>2, <2>7 DEF Writes, HistoryTyped
  <2>9. QED BY <2>6, <2>8
<1>3. QED BY <1>1, <1>2 DEF PlaceSet

\* A row moved to a span takes the columns that differ from the row as loaded.
MovedTo(old, m, r) ==
  [r EXCEPT !.start = IF m.start # old.start THEN m.start ELSE @,
            !.end = IF m.end # old.end THEN m.end ELSE @,
            !.text = IF TextOf[m] # old.text THEN TextOf[m] ELSE @]

LEMMA MovedRow ==
  ASSUME NEW old, NEW m \in Mentions, NEW r \in Row
  PROVE  /\ MovedTo(old, m, r) \in Row
         /\ MovedTo(old, m, r).id = r.id
         /\ MovedTo(old, m, r).place = r.place
         /\ MovedTo(old, m, r).start = IF m.start # old.start THEN m.start ELSE r.start
         /\ MovedTo(old, m, r).end = IF m.end # old.end THEN m.end ELSE r.end
         /\ m.start = old.start /\ m.end = old.end /\ TextOf[m] = old.text
              => MovedTo(old, m, r) = r
BY MentionsAssumption DEF MovedTo, Row

\* A move ends with an error, or the row of the request has been moved.
LEMMA Moves ==
  ASSUME NEW t \in Senders, Move(t)
  PROVE  LET old == request[t].row
             m == request[t].span IN
         /\ pc[t] = "move"
         /\ UNCHANGED <<document, applied, created>>
         /\ \/ Finish(t, "error") /\ UNCHANGED <<rows, historyVars>>
            \/ /\ Finish(t, "ok")
               /\ rows' = {IF r.id = old.id THEN MovedTo(old, m, r) ELSE r : r \in rows}
               /\ removed' = removed \ {Span(MovedTo(old, m, r)) : r \in Stored(old.id)}
               /\ \/ Writes(t, old.id)
                  \/ /\ m.start = old.start /\ m.end = old.end /\ TextOf[m] = old.text
                     /\ UNCHANGED <<written, crossed>>
<1> DEFINE old == request[t].row
           m == request[t].span
           new == [start |-> m.start, end |-> m.end, text |-> TextOf[m]]
           moved(r) == [r EXCEPT !.start = IF new.start # old.start THEN new.start ELSE @,
                                 !.end = IF new.end # old.end THEN new.end ELSE @,
                                 !.text = IF new.text # old.text THEN new.text ELSE @]
           changed == Span(new) # Span(old) \/ new.text # old.text
<1>1. /\ pc[t] = "move"
      /\ IF changed /\ Stored(old.id) = {}
           THEN Finish(t, "error") /\ UNCHANGED <<rows, historyVars>>
           ELSE /\ rows' = {IF r.id = old.id THEN moved(r) ELSE r : r \in rows}
                /\ removed' = removed \ {Span(moved(r)) : r \in Stored(old.id)}
                /\ IF changed THEN Writes(t, old.id) ELSE UNCHANGED <<written, crossed>>
                /\ Finish(t, "ok")
      /\ UNCHANGED <<document, applied, created>>
  BY DEF Move
<1>2. \A r : moved(r) = MovedTo(old, m, r) BY DEF MovedTo
<1>3. ~changed => m.start = old.start /\ m.end = old.end /\ TextOf[m] = old.text
  BY DEF Span
<1> HIDE DEF old, m, new, moved, changed
<1>4. CASE changed /\ Stored(old.id) = {} BY <1>1, <1>4 DEF old, m
<1>5. CASE ~(changed /\ Stored(old.id) = {})
  <2>1. rows' = {IF r.id = old.id THEN MovedTo(old, m, r) ELSE r : r \in rows}
    BY <1>1, <1>2, <1>5
  <2>2. removed' = removed \ {Span(MovedTo(old, m, r)) : r \in Stored(old.id)}
    BY <1>1, <1>2, <1>5
  <2>3. QED BY <1>1, <1>3, <1>5, <2>1, <2>2 DEF old, m
<1>6. QED BY <1>4, <1>5

LEMMA MoveTyped ==
  ASSUME TypeInv, NEW t \in Senders, Move(t), UNCHANGED <<scene, active>>
  PROVE  TypeInv' /\ Frame(t)
<1> DEFINE old == request[t].row
           m == request[t].span
<1>a. RowsTyped /\ RequestsTyped /\ \A b \in Senders : RequestHolds(b) BY DEF TypeInv
<1>1. old \in Row /\ m \in Mentions
  BY <1>a, Moves DEF RequestHolds, Editing, EditRequest
<1>2. old.id \in Nat BY <1>a, <1>1, ScenesAssumption DEF Row, MaxRows, RowsTyped
<1>3. UNCHANGED <<document, applied, created>> BY Moves
<1>4. Finish(t, "ok") \/ Finish(t, "error") BY Moves
<1>5. RowsTyped'
  <2>1. CASE UNCHANGED rows BY <1>a, <1>3, <2>1, SameTypes DEF RowsTyped
  <2>2. CASE rows' = {IF r.id = old.id THEN MovedTo(old, m, r) ELSE r : r \in rows}
    <3> DEFINE F == [r \in Row |-> IF r.id = old.id THEN MovedTo(old, m, r) ELSE r]
    <3> HIDE DEF old, m
    <3>1. \A r \in rows : F[r] = IF r.id = old.id THEN MovedTo(old, m, r) ELSE r
      BY <1>a DEF RowsTyped
    <3>2. \A r \in rows : F[r] \in Row /\ F[r].id = r.id
      BY <1>a, <1>1, <3>1, MovedRow DEF RowsTyped
    <3> HIDE DEF F
    <3>3. rows' = {F[r] : r \in rows} BY <2>2, <3>1
    <3>4. QED BY <1>a, <1>3, <3>2, <3>3, RewrittenRows
  <2>3. QED BY <2>1, <2>2, Moves
<1>6. HistoryTyped'
  BY <1>a, <1>2, Moves DEF Writes, historyVars, RequestsTyped, HistoryTyped
<1>7. RequestsTyped' /\ Frame(t) /\ RequestHolds(t)'
  BY <1>a, <1>4, <1>6, FinishTyped
<1>8. QED BY <1>a, <1>5, <1>7, FrameHolds DEF TypeInv

\* What a link or a copy does: an error, or the place is set and it goes on.
LEMMA PlaceUpdates ==
  ASSUME NEW t \in Senders, Link(t) \/ Copy(t)
  PROVE  /\ UNCHANGED <<document, applied, created, removed>>
         /\ \/ Finish(t, "error") /\ UNCHANGED <<rows, written, crossed>>
            \/ /\ pc[t] = "link"
               /\ PlaceSet(t, request[t].row, request[t].place)
               /\ Goto(t, "reread") /\ UNCHANGED <<request, queue, selected, repeats, outcome>>
            \/ /\ pc[t] = "copy"
               /\ PlaceSet(t, request[t].row, selected[t].place)
               /\ AfterCopy(t)
<1>1. CASE Link(t) BY <1>1 DEF Link, UpdatePlace, PlaceSet, Placed
<1>2. CASE Copy(t) BY <1>2 DEF Copy, UpdatePlace, PlaceSet, Placed
<1>3. QED BY <1>1, <1>2

LEMMA PlaceUpdateTyped ==
  ASSUME TypeInv, NEW t \in Senders, Link(t) \/ Copy(t), UNCHANGED <<scene, active>>
  PROVE  TypeInv' /\ Frame(t)
<1>a. RowsTyped /\ RequestsTyped /\ RequestHolds(t) /\ \A b \in Senders : RequestHolds(b)
  BY DEF TypeInv
<1>b. Row' = Row /\ Request' = Request /\ LinkRequest' = LinkRequest BY SameTypes
<1>c. UNCHANGED <<document, applied, created>> BY PlaceUpdates
<1>1. CASE Finish(t, "error") /\ UNCHANGED <<rows, written, crossed>>
  <2>1. RequestsTyped' /\ Frame(t) /\ RequestHolds(t)'
    BY <1>a, <1>1, FinishTyped DEF RequestsTyped, HistoryTyped
  <2>2. RowsTyped' BY <1>a, <1>b, <1>c, <1>1 DEF RowsTyped
  <2>3. QED BY <1>a, <2>1, <2>2, FrameHolds DEF TypeInv
<1>2. CASE /\ pc[t] = "link"
           /\ PlaceSet(t, request[t].row, request[t].place)
           /\ Goto(t, "reread") /\ UNCHANGED <<request, queue, selected, repeats, outcome>>
  <2>1. request[t] \in LinkRequest /\ selected[t] = None
    BY <1>a, <1>2 DEF RequestHolds, Linking, Copying
  <2>2. request[t].row \in Row /\ request[t].place \in LocIds
    BY <2>1 DEF LinkRequest
  <2>3. RowsTyped' /\ HistoryTyped'
    BY <1>a, <1>c, <1>2, <2>2, PlaceSetTyped DEF RequestsTyped
  <2>4. pc'[t] = "reread" BY <1>a, <1>2 DEF Goto, RequestsTyped
  <2>5. RequestsTyped' BY <1>a, <1>b, <1>2, <2>3 DEF Goto, RequestsTyped, Steps, Linking
  <2>6. Frame(t) BY <1>a, <1>2 DEF Goto, RequestsTyped, Frame
  <2>7. RequestHolds(t)'
    BY <1>b, <1>2, <2>1, <2>4 DEF RequestHolds, Storing, Copying, Linking, Editing
  <2>8. QED BY <1>a, <2>3, <2>5, <2>6, <2>7, FrameHolds DEF TypeInv
<1>3. CASE /\ pc[t] = "copy"
           /\ PlaceSet(t, request[t].row, selected[t].place)
           /\ AfterCopy(t)
  <2>1. request[t] \in LinkRequest /\ selected[t] \in Row
    BY <1>a, <1>3 DEF RequestHolds, Linking, Copying
  <2>2. request[t].row \in Row /\ selected[t].place \in LocIds
    BY <2>1 DEF LinkRequest, Row
  <2>3. RowsTyped' /\ HistoryTyped'
    BY <1>a, <1>c, <1>3, <2>2, PlaceSetTyped DEF RequestsTyped
  <2>4. CASE Finish(t, "ok")
    <3>1. RequestsTyped' /\ Frame(t) /\ RequestHolds(t)'
      BY <1>a, <2>3, <2>4, FinishTyped
    <3>2. QED BY <1>a, <2>3, <3>1, FrameHolds DEF TypeInv
  <2>5. CASE Goto(t, "visit") /\ UNCHANGED <<request, queue, selected, repeats, outcome>>
    <3>1. pc'[t] = "visit" BY <1>a, <2>5 DEF Goto, RequestsTyped
    <3>2. RequestsTyped'
      BY <1>a, <1>b, <2>3, <2>5 DEF Goto, RequestsTyped, Steps, Linking, Copying
    <3>3. Frame(t) BY <1>a, <2>5 DEF Goto, RequestsTyped, Frame
    <3>4. RequestHolds(t)'
      BY <1>b, <2>1, <2>5, <3>1 DEF RequestHolds, Storing, Copying, Linking, Editing
    <3>5. QED BY <1>a, <2>3, <3>2, <3>3, <3>4, FrameHolds DEF TypeInv
  <2>6. QED BY <1>3, <2>4, <2>5 DEF AfterCopy
<1>4. QED BY <1>1, <1>2, <1>3, PlaceUpdates

\* The mentions still to be stored are those found that no row stands for.
LEMMA StoringTyped ==
  ASSUME TypeInv, NEW t \in Senders,
         ReadToponyms(t) \/ ValidateNew(t) \/ InsertToponym(t) \/ SetApplied(t),
         UNCHANGED <<scene, active>>
  PROVE  TypeInv' /\ Frame(t)
<1>a. RowsTyped /\ RequestsTyped /\ RequestHolds(t) /\ \A b \in Senders : RequestHolds(b)
  BY DEF TypeInv
<1>b. /\ Row' = Row /\ Request' = Request /\ LinkRequest' = LinkRequest
      /\ Spotted' = Spotted /\ MaxRows' = MaxRows
  BY SameTypes
<1>c. Spotted \subseteq Mentions /\ MaxRows \in Nat
  BY <1>a, ScenesAssumption DEF RowsTyped, Spotted, MaxRows
<1>1. ASSUME RowsTyped', NEW how \in {"ok", "error"}, Finish(t, how),
             HistoryTyped'
      PROVE  TypeInv' /\ Frame(t)
  <2>1. RequestsTyped' /\ Frame(t) /\ RequestHolds(t)' BY <1>a, <1>1, FinishTyped
  <2>2. QED BY <1>a, <1>1, <2>1, FrameHolds DEF TypeInv
<1>2. CASE ReadToponyms(t)
  <2>1. /\ pc[t] = "predict" /\ queue' = [queue EXCEPT ![t] = Remaining]
        /\ Goto(t, IF Remaining = {} THEN "apply" ELSE "validate")
        /\ UNCHANGED <<document, applied, rows, created, request, selected, repeats, outcome>>
        /\ written' = [written EXCEPT ![t] = {}] /\ UNCHANGED crossed
    BY <1>2 DEF ReadToponyms, Reads
  <2>2. Remaining \subseteq Spotted BY DEF Remaining
  <2>3. RowsTyped' BY <1>a, <1>b, <2>1 DEF RowsTyped
  <2>4. pc'[t] \in {"apply", "validate"} /\ queue'[t] = Remaining
    BY <1>a, <2>1 DEF Goto, RequestsTyped
  <2>5. request[t].op = "parse" /\ selected[t] = None
    BY <1>a, <2>1 DEF RequestHolds, Copying
  <2>6. RequestsTyped'
    BY <1>a, <1>b, <1>c, <2>1, <2>2 DEF Goto, RequestsTyped, HistoryTyped, Steps, Storing
  <2>7. Frame(t) BY <1>a, <2>1 DEF Goto, RequestsTyped, Frame
  <2>8. RequestHolds(t)'
    BY <1>b, <2>1, <2>2, <2>4, <2>5 DEF RequestHolds, Storing, Copying, Linking, Editing
  <2>9. QED BY <1>a, <2>3, <2>6, <2>7, <2>8, FrameHolds DEF TypeInv
<1>3. CASE ValidateNew(t)
  <2>1. /\ pc[t] = "validate" /\ UNCHANGED <<document, applied, rows, created>>
        /\ written' = [written EXCEPT ![t] = {}] /\ UNCHANGED crossed
        /\ \/ Finish(t, "error")
           \/ Goto(t, "insert") /\ UNCHANGED <<request, queue, selected, repeats, outcome>>
    BY <1>3 DEF ValidateNew, Reads
  <2>2. RowsTyped' BY <1>a, <1>b, <2>1 DEF RowsTyped
  <2>3. HistoryTyped' BY <1>a, <2>1 DEF RequestsTyped, HistoryTyped
  <2>4. CASE Finish(t, "error") BY <1>1, <2>2, <2>3, <2>4
  <2>5. CASE Goto(t, "insert") /\ UNCHANGED <<request, queue, selected, repeats, outcome>>
    <3>1. pc'[t] = "insert" BY <1>a, <2>5 DEF Goto, RequestsTyped
    <3>2. RequestsTyped' BY <1>a, <1>b, <2>3, <2>5 DEF Goto, RequestsTyped, Steps, Storing
    <3>3. Frame(t) BY <1>a, <2>5 DEF Goto, RequestsTyped, Frame
    <3>4. RequestHolds(t)'
      BY <1>a, <1>b, <2>1, <2>5, <3>1 DEF RequestHolds, Storing, Copying, Linking, Editing
    <3>5. QED BY <1>a, <2>2, <3>2, <3>3, <3>4, FrameHolds DEF TypeInv
  <2>6. QED BY <2>1, <2>4, <2>5
<1>4. CASE InsertToponym(t)
  <2>1. pc[t] = "insert" /\ created < MaxRows /\ UNCHANGED <<document, applied>>
    BY <1>4 DEF InsertToponym
  <2>2. PICK m \in First(queue[t]) :
          IF document = "gone"
            THEN Finish(t, "error") /\ UNCHANGED <<rows, created, historyVars>>
            ELSE /\ rows' = rows \cup {[id |-> created + 1, start |-> m.start, end |-> m.end,
                                        text |-> TextOf[m], place |-> Unlinked]}
                 /\ created' = created + 1
                 /\ Writes(t, created + 1)
                 /\ IF queue[t] # {m}
                      THEN /\ queue' = [queue EXCEPT ![t] = @ \ {m}]
                           /\ Goto(t, "validate")
                           /\ UNCHANGED <<request, selected, repeats, outcome>>
                      ELSE IF request[t].op = "parse"
                        THEN /\ queue' = [queue EXCEPT ![t] = {}]
                             /\ Goto(t, "apply")
                             /\ UNCHANGED <<request, selected, repeats, outcome>>
                        ELSE Finish(t, "ok")
    BY <1>4 DEF InsertToponym
  <2>3. m \in queue[t] /\ m \in Mentions
    BY <1>a, <2>2 DEF First, RequestsTyped
  <2>4. CASE document = "gone"
    <3>1. Finish(t, "error") /\ UNCHANGED <<rows, created, written, crossed>>
      BY <2>2, <2>4 DEF historyVars
    <3>2. RowsTyped' BY <1>a, <1>b, <2>1, <3>1 DEF RowsTyped
    <3>3. QED BY <1>a, <1>1, <3>1, <3>2 DEF RequestsTyped, HistoryTyped
  <2>5. CASE document # "gone"
    <3> DEFINE n == [id |-> created + 1, start |-> m.start, end |-> m.end,
                     text |-> TextOf[m], place |-> Unlinked]
    <3>1. /\ rows' = rows \cup {n} /\ created' = created + 1
          /\ Writes(t, created + 1)
      BY <2>2, <2>5
    <3>2. n \in Row /\ n.id = created + 1
      BY <1>a, <1>c, <2>1, <2>3, MentionsAssumption DEF Row, RowsTyped, LocIds
    <3> HIDE DEF n
    <3>3. RowsTyped'
      <4>1. \A r \in rows : r.id \in Nat /\ r.id <= created BY <1>a, <1>c DEF RowsTyped, Row
      <4>2. created' \in Nat /\ \A r \in rows' : r.id <= created'
        BY <1>a, <3>1, <3>2, <4>1 DEF RowsTyped
      <4>3. \A r \in rows : r.id # n.id BY <1>a, <3>2, <4>1 DEF RowsTyped
      <4>4. \A r, s \in rows' : r.id = s.id => r = s BY <1>a, <3>1, <4>3 DEF RowsTyped
      <4>5. QED BY <1>a, <1>b, <2>1, <3>1, <3>2, <4>2, <4>4 DEF RowsTyped
    <3>4. HistoryTyped' BY <1>a, <3>1 DEF RowsTyped, RequestsTyped, HistoryTyped, Writes
    <3>5. CASE Finish(t, "ok") BY <1>1, <3>3, <3>4, <3>5
    <3>6. ASSUME NEW rest \in SUBSET Mentions, NEW step \in {"apply", "validate"},
                 queue' = [queue EXCEPT ![t] = rest], Goto(t, step),
                 UNCHANGED <<request, selected, repeats, outcome>>,
                 step = "validate" => request[t].op = "parse" /\ rest \subseteq Spotted
          PROVE  TypeInv' /\ Frame(t)
      <4>1. pc'[t] = step /\ queue'[t] = rest BY <1>a, <3>6 DEF Goto, RequestsTyped
      <4>2. selected[t] = None BY <1>a, <2>1 DEF RequestHolds, Copying
      <4>3. RequestsTyped'
        BY <1>a, <1>b, <3>4, <3>6 DEF Goto, RequestsTyped, Steps, Storing
      <4>4. Frame(t) BY <1>a, <3>6 DEF Goto, RequestsTyped, Frame
      <4>5. RequestHolds(t)'
        BY <1>b, <3>6, <4>1, <4>2 DEF RequestHolds, Storing, Copying, Linking, Editing
      <4>6. QED BY <1>a, <3>3, <4>3, <4>4, <4>5, FrameHolds DEF TypeInv
    <3>7. CASE queue[t] # {m}
      <4>1. /\ queue' = [queue EXCEPT ![t] = queue[t] \ {m}]
            /\ Goto(t, "validate") /\ UNCHANGED <<request, selected, repeats, outcome>>
        BY <2>2, <2>5, <3>7
      <4>2. request[t].op = "parse" /\ queue[t] \subseteq Spotted
        BY <1>a, <2>1, <2>3, <3>7 DEF RequestHolds, Storing
      <4>3. QED BY <1>c, <3>6, <4>1, <4>2
    <3>8. CASE queue[t] = {m} /\ request[t].op = "parse"
      <4>1. /\ queue' = [queue EXCEPT ![t] = {}]
            /\ Goto(t, "apply") /\ UNCHANGED <<request, selected, repeats, outcome>>
        BY <2>2, <2>5, <3>8
      <4>2. QED BY <3>6, <4>1
    <3>9. QED BY <2>2, <2>5, <3>5, <3>7, <3>8
  <2>6. QED BY <2>4, <2>5
<1>5. CASE SetApplied(t)
  <2>1. /\ UNCHANGED <<document, rows, created, written, crossed>> /\ applied' \in {applied, TRUE}
        /\ Finish(t, "ok") \/ Finish(t, "error")
    BY <1>5 DEF SetApplied, historyVars
  <2>2. RowsTyped' BY <1>a, <1>b, <2>1 DEF RowsTyped
  <2>3. QED BY <1>a, <1>1, <2>1, <2>2 DEF RequestsTyped, HistoryTyped
<1>6. QED BY <1>2, <1>3, <1>4, <1>5

\* A link request that goes on copying has the row it copies from.
LEMMA CopyingTyped ==
  ASSUME TypeInv, NEW t \in Senders,
         RereadSelected(t) \/ ReadRepeats(t) \/ Visit(t),
         UNCHANGED <<scene, active>>
  PROVE  TypeInv' /\ Frame(t)
<1>a. RowsTyped /\ RequestsTyped /\ RequestHolds(t) /\ \A b \in Senders : RequestHolds(b)
  BY DEF TypeInv
<1>b. Row' = Row /\ Request' = Request /\ LinkRequest' = LinkRequest
  BY SameTypes
<1>c. RowsTyped'
  BY <1>a, <1>b DEF RereadSelected, ReadRepeats, Visit, RowsTyped
<1>d. HistoryTyped'
  BY <1>a DEF RereadSelected, ReadRepeats, Visit, Reads, historyVars, RequestsTyped,
     HistoryTyped
<1>1. ASSUME NEW how \in {"ok", "error"}, Finish(t, how) PROVE TypeInv' /\ Frame(t)
  <2>1. RequestsTyped' /\ Frame(t) /\ RequestHolds(t)' BY <1>a, <1>d, <1>1, FinishTyped
  <2>2. QED BY <1>a, <1>c, <2>1, FrameHolds DEF TypeInv
<1>2. request[t] \in LinkRequest
  BY <1>a DEF RereadSelected, ReadRepeats, Visit, RequestHolds, Linking, Copying
\* The request's row becomes r, the row copied from s.
<1>3. ASSUME NEW step \in Copying, NEW r \in Row, NEW s \in Row, NEW some \in SUBSET Row,
             Goto(t, step), request' \in {request, [request EXCEPT ![t].row = r]},
             selected' = [selected EXCEPT ![t] = s], repeats' = [repeats EXCEPT ![t] = some],
             UNCHANGED <<queue, outcome>>
      PROVE  TypeInv' /\ Frame(t)
  <2>1. [request[t] EXCEPT !.row = r] \in LinkRequest BY <1>2 DEF LinkRequest
  <2>2. request'[t] \in LinkRequest /\ request' \in [Senders -> Request \cup {None}]
        /\ \A b \in Senders \ {t} : request'[b] = request[b]
    BY <1>a, <1>2, <1>3, <2>1 DEF RequestsTyped, Request
  <2>3. pc'[t] = step /\ selected'[t] = s BY <1>a, <1>3 DEF Goto, RequestsTyped
  <2>4. RequestsTyped'
    BY <1>a, <1>b, <1>d, <1>3, <2>2 DEF Goto, RequestsTyped, Steps, Linking
  <2>5. Frame(t) BY <1>a, <1>3, <2>2 DEF Goto, RequestsTyped, Frame
  <2>6. RequestHolds(t)'
    BY <1>b, <1>3, <2>2, <2>3 DEF RequestHolds, Storing, Copying, Linking, Editing
  <2>7. QED BY <1>a, <1>c, <2>4, <2>5, <2>6, FrameHolds DEF TypeInv
<1>4. repeats[t] \in SUBSET Row /\ repeats = [repeats EXCEPT ![t] = repeats[t]]
  BY <1>a DEF RequestsTyped
<1>5. CASE RereadSelected(t)
  <2>1. Finish(t, "error") \/ Finish(t, "ok") \/ \E now \in Stored(request[t].row.id) :
          /\ selected' = [selected EXCEPT ![t] = now]
          /\ Goto(t, "repeats") /\ UNCHANGED <<request, queue, repeats, outcome>>
    BY <1>5 DEF RereadSelected
  <2>2. \A r \in Stored(request[t].row.id) : r \in Row BY <1>a DEF Stored, RowsTyped
  <2>3. QED BY <1>1, <1>3, <1>4, <2>1, <2>2 DEF Copying
<1>6. CASE ReadRepeats(t)
  <2>1. pc[t] = "repeats" BY <1>6 DEF ReadRepeats
  <2>2. selected[t] \in Row BY <1>a, <2>1 DEF RequestHolds, Copying
  <2>3. selected = [selected EXCEPT ![t] = selected[t]] BY <1>a DEF RequestsTyped
  <2>4. CASE Finish(t, "ok") BY <1>1, <2>4
  <2>5. CASE ~Finish(t, "ok")
    <3>1. PICK r \in First({r \in rows : IsUnannotatedRepeat(r, selected[t])}) :
            /\ request' = [request EXCEPT ![t].row = r]
            /\ repeats' = [repeats EXCEPT ![t] = {s \in rows \ {r} : s.start >= r.start}]
            /\ Goto(t, "copy") /\ UNCHANGED <<queue, selected, outcome>>
      BY <1>6, <2>5 DEF ReadRepeats
    <3>2. r \in Row /\ {s \in rows \ {r} : s.start >= r.start} \in SUBSET Row
      BY <1>a DEF First, RowsTyped
    <3>3. QED BY <1>3, <2>2, <2>3, <3>1, <3>2 DEF Copying
  <2>6. QED BY <2>4, <2>5
<1>7. CASE Visit(t)
  <2>1. pc[t] = "visit" BY <1>7 DEF Visit
  <2>2. selected[t] \in Row BY <1>a, <2>1 DEF RequestHolds, Copying
  <2>3. selected = [selected EXCEPT ![t] = selected[t]] BY <1>a DEF RequestsTyped
  <2>4. CASE Finish(t, "ok") \/ Finish(t, "error") BY <1>1, <2>4
  <2>5. CASE ~(Finish(t, "ok") \/ Finish(t, "error"))
    <3>1. PICK r \in First(repeats[t]) :
            \E now \in Stored(r.id), s \in Stored(selected[t].id) :
              /\ repeats' = [repeats EXCEPT ![t] = @ \ {r}]
              /\ \/ /\ request' = [request EXCEPT ![t].row = now]
                    /\ selected' = [selected EXCEPT ![t] = s]
                    /\ Goto(t, "copy") /\ UNCHANGED <<queue, outcome>>
                 \/ UNCHANGED <<pc, request, queue, selected, outcome>>
      BY <1>7, <2>5 DEF Visit
    <3>2. PICK now \in Stored(r.id), s \in Stored(selected[t].id) :
              /\ repeats' = [repeats EXCEPT ![t] = repeats[t] \ {r}]
              /\ \/ /\ request' = [request EXCEPT ![t].row = now]
                    /\ selected' = [selected EXCEPT ![t] = s]
                    /\ Goto(t, "copy") /\ UNCHANGED <<queue, outcome>>
                 \/ UNCHANGED <<pc, request, queue, selected, outcome>>
      BY <3>1
    <3>3. now \in Row /\ s \in Row BY <1>a DEF Stored, RowsTyped
    <3>4. (repeats[t] \ {r}) \in SUBSET Row BY <1>4
    <3>5. CASE UNCHANGED <<pc, request, queue, selected, outcome>>
      <4>1. Goto(t, "visit") BY <1>a, <2>1, <3>5 DEF Goto, RequestsTyped
      <4>2. QED BY <1>3, <2>2, <2>3, <3>2, <3>3, <3>4, <3>5, <4>1 DEF Copying
    <3>6. QED BY <1>3, <3>2, <3>3, <3>4, <3>5 DEF Copying
  <2>6. QED BY <2>4, <2>5
<1>8. QED BY <1>5, <1>6, <1>7

\* The steps that end a request, and the deletion of the document between two.
LEMMA EndingTyped ==
  ASSUME TypeInv, NEW t \in Senders,
         ValidateMove(t) \/ DeleteToponym(t) \/ Fail(t) \/ DeleteDocument(t),
         UNCHANGED <<scene, active>>
  PROVE  TypeInv' /\ Frame(t)
<1>a. RowsTyped /\ RequestsTyped /\ RequestHolds(t) /\ \A b \in Senders : RequestHolds(b)
  BY DEF TypeInv
<1>b. Row' = Row /\ Request' = Request /\ EditRequest' = EditRequest BY SameTypes
<1>1. ASSUME RowsTyped', UNCHANGED <<written, crossed>>, NEW how \in {"ok", "error"}, Finish(t, how)
      PROVE  TypeInv' /\ Frame(t)
  <2>1. RequestsTyped' /\ Frame(t) /\ RequestHolds(t)'
    BY <1>a, <1>1, FinishTyped DEF RequestsTyped, HistoryTyped
  <2>2. QED BY <1>a, <1>1, <2>1, FrameHolds DEF TypeInv
<1>2. CASE ValidateMove(t)
  <2>1. RowsTyped' /\ UNCHANGED <<written, crossed>> /\ pc[t] = "check"
    BY <1>a, <1>b, <1>2 DEF ValidateMove, RowsTyped, historyVars
  <2>2. CASE Finish(t, "error") BY <1>1, <2>1, <2>2
  <2>3. CASE Goto(t, "move") /\ UNCHANGED <<request, queue, selected, repeats, outcome>>
    <3>1. pc'[t] = "move" BY <1>a, <2>3 DEF Goto, RequestsTyped
    <3>2. RequestsTyped'
      BY <1>a, <1>b, <2>1, <2>3 DEF Goto, RequestsTyped, HistoryTyped, Steps, Editing
    <3>3. Frame(t) BY <1>a, <2>3 DEF Goto, RequestsTyped, Frame
    <3>4. RequestHolds(t)'
      BY <1>a, <1>b, <2>1, <2>3, <3>1 DEF RequestHolds, Storing, Copying, Linking, Editing
    <3>5. QED BY <1>a, <2>1, <3>2, <3>3, <3>4, FrameHolds DEF TypeInv
  <2>4. QED BY <1>2, <2>2, <2>3 DEF ValidateMove
<1>3. CASE DeleteToponym(t)
  <2>1. RowsTyped' /\ UNCHANGED <<written, crossed>> /\ Finish(t, "ok")
    BY <1>a, <1>b, <1>3 DEF DeleteToponym, RowsTyped
  <2>2. QED BY <1>1, <2>1
<1>4. CASE Fail(t)
  <2>1. RowsTyped' /\ UNCHANGED <<written, crossed>> /\ Finish(t, "error")
    BY <1>a, <1>b, <1>4 DEF Fail, RowsTyped, historyVars
  <2>2. QED BY <1>1, <2>1
<1>5. CASE DeleteDocument(t)
  <2>1. UNCHANGED <<requestVars, historyVars>> /\ RowsTyped'
    BY <1>a, <1>b, <1>5 DEF DeleteDocument, RowsTyped
  <2>2. RequestsTyped'
    BY <1>a, <1>b, <2>1 DEF RequestsTyped, HistoryTyped, requestVars, historyVars
  <2>3. Frame(t) BY <2>1 DEF Frame, requestVars
  <2>4. RequestHolds(t)' BY <1>a, <2>1, SameTypes DEF RequestHolds, requestVars
  <2>5. QED BY <1>a, <2>1, <2>2, <2>3, <2>4, FrameHolds DEF TypeInv
<1>6. QED BY <1>2, <1>3, <1>4, <1>5

\* What a sender asks for.
Asks(t) ==
  \/ \E m \in scene.mentions : CreateAnnotation(t, m)
  \/ ParseDocument(t)
  \/ \E r \in rows, place \in scene.choices : OverwriteAnnotation(t, r, place)
  \/ \E r \in rows, m \in scene.mentions : UpdateAnnotation(t, r, m)
  \/ \E r \in rows : DeleteAnnotation(t, r)

LEMMA AsksTyped ==
  ASSUME TypeInv, NEW t \in Senders, Asks(t), UNCHANGED <<scene, active>>
  PROVE  /\ TypeInv' /\ Frame(t)
         /\ UNCHANGED <<document, applied, rows, created, removed>>
         /\ pc[t] = "idle" /\ selected'[t] = None
         /\ written'[t] = {} /\ crossed'[t] = {}
         /\ \A b \in Senders \ {t} : written'[b] = written[b] /\ crossed'[b] = crossed[b]
         /\ \/ pc'[t] \in {"validate", "predict", "link"}
            \/ /\ pc'[t] = "check" /\ applied
               /\ request'[t].row \in rows
            \/ pc'[t] = "delete" /\ applied
         /\ pc'[t] = "validate" => request'[t].op = "create"
         /\ pc'[t] = "predict" => ~applied
<1>a. RowsTyped /\ RequestsTyped /\ RequestHolds(t) /\ \A b \in Senders : RequestHolds(b)
  BY DEF TypeInv
<1>b. scene.mentions \subseteq Mentions /\ scene.choices \subseteq LocIds
  BY <1>a, ScenesAssumption DEF RowsTyped
<1>c. UNCHANGED <<document, applied, rows, created, selected, repeats, removed>>
  BY DEF Asks, CreateAnnotation, ParseDocument, OverwriteAnnotation, UpdateAnnotation,
     DeleteAnnotation
<1>d. RowsTyped' BY <1>a, <1>c, SameTypes DEF RowsTyped
<1>e. queue \in [Senders -> SUBSET Mentions] BY <1>a DEF RequestsTyped
<1> DEFINE Begun(step, what) ==
      /\ RequestsTyped' /\ Frame(t) /\ RequestHolds(t)'
      /\ pc[t] = "idle" /\ pc'[t] = step /\ request'[t] = what
      /\ selected'[t] = None /\ written'[t] = {} /\ crossed'[t] = {}
      /\ \A b \in Senders \ {t} : written'[b] = written[b] /\ crossed'[b] = crossed[b]
<1>1. ASSUME NEW m \in scene.mentions, CreateAnnotation(t, m)
      PROVE  Begun("validate", [op |-> "create"])
  <2> DEFINE what == [op |-> "create"]
  <2>1. Begin(t, "validate", what) /\ queue' = [queue EXCEPT ![t] = {m}]
    BY <1>1 DEF CreateAnnotation
  <2>2. what \in Request /\ what.op = "create" BY DEF Request, StoreRequest
  <2>3. /\ queue' \in [Senders -> SUBSET Mentions] /\ queue'[t] = {m} /\ m \in Mentions
        /\ \A b \in Senders \ {t} : queue'[b] = queue[b]
    BY <1>b, <1>e, <2>1
  <2> HIDE DEF what
  <2>4. Begun("validate", what)
    BY <1>a, <1>c, <2>1, <2>2, <2>3, BeginTyped
       DEF Steps, Storing, Copying, Linking, Editing
  <2>5. QED BY <2>4 DEF what
<1>2. CASE ParseDocument(t)
  <2> DEFINE what == [op |-> "parse"]
  <2>1. Begin(t, "predict", what) /\ UNCHANGED queue /\ ~applied BY <1>2 DEF ParseDocument
  <2>2. what \in Request /\ what.op = "parse" BY DEF Request, StoreRequest
  <2> HIDE DEF what
  <2>3. Begun("predict", what)
    BY <1>a, <1>c, <1>e, <2>1, <2>2, BeginTyped
       DEF Steps, Storing, Copying, Linking, Editing
  <2>4. Begun("predict", [op |-> "parse"]) /\ ~applied BY <2>1, <2>3 DEF what
  <2>5. QED BY <1>a, <1>c, <1>d, <2>4, FrameHolds DEF TypeInv
<1>3. ASSUME NEW r \in rows, NEW place \in scene.choices, OverwriteAnnotation(t, r, place)
      PROVE  Begun("link", [op |-> "link", row |-> r, place |-> place])
  <2> DEFINE what == [op |-> "link", row |-> r, place |-> place]
  <2>1. Begin(t, "link", what) /\ UNCHANGED queue BY <1>3 DEF OverwriteAnnotation
  <2>2. what \in Request /\ what \in LinkRequest
    BY <1>a, <1>b DEF Request, LinkRequest, RowsTyped
  <2> HIDE DEF what
  <2>3. Begun("link", what)
    BY <1>a, <1>c, <1>e, <2>1, <2>2, BeginTyped
       DEF Steps, Storing, Copying, Linking, Editing
  <2>4. QED BY <2>3 DEF what
<1>4. ASSUME NEW r \in rows, NEW m \in scene.mentions, UpdateAnnotation(t, r, m)
      PROVE  Begun("check", [op |-> "edit", row |-> r, span |-> m]) /\ applied
  <2> DEFINE what == [op |-> "edit", row |-> r, span |-> m]
  <2>1. Begin(t, "check", what) /\ UNCHANGED queue /\ applied BY <1>4 DEF UpdateAnnotation
  <2>2. what \in Request /\ what \in EditRequest
    BY <1>a, <1>b DEF Request, EditRequest, RowsTyped
  <2> HIDE DEF what
  <2>3. Begun("check", what)
    BY <1>a, <1>c, <1>e, <2>1, <2>2, BeginTyped
       DEF Steps, Storing, Copying, Linking, Editing
  <2>4. QED BY <2>1, <2>3 DEF what
<1>5. ASSUME NEW r \in rows, DeleteAnnotation(t, r)
      PROVE  Begun("delete", [op |-> "delete", row |-> r]) /\ applied
  <2> DEFINE what == [op |-> "delete", row |-> r]
  <2>1. Begin(t, "delete", what) /\ UNCHANGED queue /\ applied BY <1>5 DEF DeleteAnnotation
  <2>2. what \in Request /\ what \in DeleteRequest
    BY <1>a DEF Request, DeleteRequest, RowsTyped
  <2> HIDE DEF what
  <2>3. Begun("delete", what)
    BY <1>a, <1>c, <1>e, <2>1, <2>2, BeginTyped
       DEF Steps, Storing, Copying, Linking, Editing
  <2>4. QED BY <2>1, <2>3 DEF what
<1>6. QED
  <2>1. ASSUME NEW step, NEW what, Begun(step, what) PROVE TypeInv' /\ Frame(t)
    BY <1>a, <1>d, <2>1, FrameHolds DEF TypeInv
  <2>2. ASSUME NEW m \in scene.mentions, CreateAnnotation(t, m)
        PROVE  Begun("validate", [op |-> "create"])
    BY <1>1, <2>2
  <2>3. CASE \E m \in scene.mentions : CreateAnnotation(t, m)
    <3>1. Begun("validate", [op |-> "create"]) BY <1>1, <2>3
    <3>2. QED BY <1>c, <2>1, <3>1
  <2>4. CASE \E r \in rows, place \in scene.choices : OverwriteAnnotation(t, r, place)
    <3>1. PICK r \in rows, place \in scene.choices : OverwriteAnnotation(t, r, place)
      BY <2>4
    <3>2. Begun("link", [op |-> "link", row |-> r, place |-> place]) BY <1>3, <3>1
    <3>3. QED BY <1>c, <2>1, <3>2
  <2>5. CASE \E r \in rows, m \in scene.mentions : UpdateAnnotation(t, r, m)
    <3>1. PICK r \in rows, m \in scene.mentions : UpdateAnnotation(t, r, m) BY <2>5
    <3>2. Begun("check", [op |-> "edit", row |-> r, span |-> m]) /\ applied BY <1>4, <3>1
    <3>3. QED BY <1>c, <2>1, <3>2
  <2>6. CASE \E r \in rows : DeleteAnnotation(t, r)
    <3>1. PICK r \in rows : DeleteAnnotation(t, r) BY <2>6
    <3>2. Begun("delete", [op |-> "delete", row |-> r]) /\ applied BY <1>5, <3>1
    <3>3. QED BY <1>c, <2>1, <3>2
  <2>7. QED BY <1>2, <2>3, <2>4, <2>5, <2>6 DEF Asks

\* Every step keeps the types, and the requests of the other senders.
LEMMA StepTyped ==
  ASSUME TypeInv, NEW t \in Senders, SenderStep(t), UNCHANGED <<scene, active>>
  PROVE  TypeInv' /\ Frame(t)
BY AsksTyped, StoringTyped, PlaceUpdateTyped, CopyingTyped, MoveTyped, EndingTyped
   DEF SenderStep, Asks

LEMMA TypeInvInitial ==
  ASSUME Init
  PROVE  TypeInv
<1>1. applied \in BOOLEAN BY DEF Init
<1>2. RowsTyped BY <1>1 DEF Init, RowsTyped
<1>3. RequestsTyped BY DEF Init, RequestsTyped, HistoryTyped, Steps
<1>4. \A t \in Senders : RequestHolds(t)
  BY DEF Init, RequestHolds, Storing, Copying, Linking, Editing
<1>5. QED BY <1>2, <1>3, <1>4 DEF TypeInv

LEMMA Stutters ==
  ASSUME UNCHANGED vars
  PROVE  UNCHANGED <<scene, active, document, applied, rows, created, pc, request, queue,
                     selected, repeats, outcome, removed, written, crossed>>
BY DEF vars, requestVars, historyVars

\* Every variable holds values of its kind, and an identifier stands for one row,
\* in every reachable state.
THEOREM TypeCorrect == Spec => []TypeOK
<1>1. TypeInv /\ [Next]_vars => TypeInv'
  <2> SUFFICES ASSUME TypeInv, [Next]_vars PROVE TypeInv'
    OBVIOUS
  <2>1. ASSUME NEW t \in active, SenderStep(t), UNCHANGED <<scene, active>> PROVE TypeInv'
    BY <2>1, StepTyped DEF TypeInv, RowsTyped
  <2>2. CASE UNCHANGED vars
    BY <2>2, Stutters, SameTypes DEF TypeInv, RowsTyped, RequestsTyped, HistoryTyped,
       RequestHolds
  <2>3. QED BY <2>1, <2>2 DEF Next
<1>2. TypeInv => TypeOK
  BY DEF TypeInv, RowsTyped, RequestsTyped, TypeOK, Steps, Storing, Copying, Linking, Editing
<1>3. QED BY <1>1, <1>2, TypeInvInitial, PTL DEF Spec

-----------------------------------------------------------------------------
(***************************************************************************)
(* Races between requests.  What one has read of the rows holds until it   *)
(* acts on it, of all rows but those that others have written meanwhile.   *)
(***************************************************************************)

\* The rows of requests that write: a new one, one with a place, one moved.
NewRow(m) == [id |-> created + 1, start |-> m.start, end |-> m.end,
              text |-> TextOf[m], place |-> Unlinked]
PlacedRows(id, place) == {IF s.id = id THEN Placed(s, place) ELSE s : s \in rows}
MovedRows(old, m) == {IF r.id = old.id THEN MovedTo(old, m, r) ELSE r : r \in rows}

Removes(t) ==
  /\ rows' \subseteq rows
  /\ \A b \in Senders \ {t} : written'[b] = written[b] /\ crossed'[b] = crossed[b]

Inserts(t) ==
  /\ pc[t] = "insert"
  /\ \E m \in First(queue[t]) : rows' = rows \cup {NewRow(m)}
  /\ Writes(t, created + 1)

Relinks(t) ==
  /\ \/ pc[t] = "link" /\ rows' = PlacedRows(request[t].row.id, request[t].place)
     \/ pc[t] = "copy" /\ rows' = PlacedRows(request[t].row.id, selected[t].place)
  /\ Writes(t, request[t].row.id)

MovesRow(t) ==
  /\ pc[t] = "move"
  /\ rows' = MovedRows(request[t].row, request[t].span)
  /\ Writes(t, request[t].row.id)

\* Every step removes rows, if it changes them at all, or it writes one of them
\* and the other requests get to know.
LEMMA RowSteps ==
  ASSUME TypeInv, NEW t \in Senders, SenderStep(t), UNCHANGED <<scene, active>>
  PROVE  Removes(t) \/ Inserts(t) \/ Relinks(t) \/ MovesRow(t)
<1>a. RowsTyped /\ RequestsTyped /\ RequestHolds(t) BY DEF TypeInv
<1>1. CASE Asks(t) BY <1>1, AsksTyped DEF Removes
<1>2. CASE ReadToponyms(t) \/ ValidateNew(t) \/ ReadRepeats(t) \/ Visit(t)
  BY <1>a, <1>2 DEF ReadToponyms, ValidateNew, ReadRepeats, Visit, Reads, Removes, RequestsTyped, HistoryTyped
<1>3. CASE SetApplied(t) \/ RereadSelected(t) \/ ValidateMove(t) \/ Fail(t)
  BY <1>3 DEF SetApplied, RereadSelected, ValidateMove, Fail, Removes, historyVars
<1>4. CASE DeleteToponym(t) \/ DeleteDocument(t)
  BY <1>4 DEF DeleteToponym, DeleteDocument, Removes, historyVars
<1>5. CASE InsertToponym(t)
  BY <1>5 DEF InsertToponym, NewRow, Inserts, Removes, historyVars
<1>6. CASE Link(t) \/ Copy(t)
  <2>1. CASE UNCHANGED <<rows, written, crossed>> BY <2>1 DEF Removes
  <2>2. CASE ~UNCHANGED <<rows, written, crossed>>
    BY <1>6, <2>2, PlaceUpdates DEF PlaceSet, PlacedRows, Relinks
  <2>3. QED BY <2>1, <2>2
<1>7. CASE Move(t)
  <2> DEFINE old == request[t].row
             m == request[t].span
  <2>1. old \in Row /\ m \in Mentions
    BY <1>a, <1>7, Moves DEF RequestHolds, Editing, EditRequest
  <2>2. CASE UNCHANGED <<rows, written, crossed>> BY <2>2 DEF Removes
  <2>3. CASE rows' = MovedRows(old, m) /\ Writes(t, old.id)
    BY <1>7, <2>3, Moves DEF MovesRow
  <2>4. CASE /\ rows' = MovedRows(old, m)
             /\ m.start = old.start /\ m.end = old.end /\ TextOf[m] = old.text
             /\ UNCHANGED <<written, crossed>>
    <3> HIDE DEF old, m
    <3>1. \A r \in rows : MovedTo(old, m, r) = r
      BY <1>a, <2>1, <2>4, MovedRow DEF RowsTyped
    <3>2. rows' \subseteq rows BY <2>4, <3>1 DEF MovedRows
    <3>3. QED BY <2>4, <3>2 DEF Removes
  <2>5. QED BY <1>7, <2>2, <2>3, <2>4, Moves DEF MovedRows, historyVars
<1>8. QED BY <1>1, <1>2, <1>3, <1>4, <1>5, <1>6, <1>7 DEF SenderStep, Asks

\* A row with a place, or moved, stands for the row it was.
LEMMA WrittenRows ==
  ASSUME TypeInv, NEW t \in Senders,
         Relinks(t) \/ MovesRow(t),
         NEW s \in rows'
  PROVE  \E r \in rows :
           /\ r.id = s.id
           /\ r.id # request[t].row.id => s = r
           /\ Relinks(t) => Span(s) = Span(r) /\ s.text = r.text
           /\ Relinks(t) /\ r.id = request[t].row.id =>
                s.place = IF pc[t] = "link" THEN request[t].place ELSE selected[t].place
           /\ MovesRow(t) => s.place = r.place
           /\ MovesRow(t) /\ Span(r) = Span(request[t].row) /\ r.id = request[t].row.id =>
                Span(s) = Span(request[t].span)
<1>a. RowsTyped /\ RequestHolds(t) BY DEF TypeInv
<1>b. rows \subseteq Row BY <1>a DEF RowsTyped
<1>c. ~(Relinks(t) /\ MovesRow(t)) BY DEF Relinks, MovesRow
<1>1. CASE Relinks(t)
  <2>1. PICK place : /\ rows' = PlacedRows(request[t].row.id, place)
                     /\ place = IF pc[t] = "link" THEN request[t].place ELSE selected[t].place
    BY <1>1 DEF Relinks
  <2>2. PICK r \in rows : s = IF r.id = request[t].row.id THEN Placed(r, place) ELSE r
    BY <2>1 DEF PlacedRows
  <2>3. /\ Placed(r, place).id = r.id /\ Placed(r, place).place = place
        /\ Span(Placed(r, place)) = Span(r) /\ Placed(r, place).text = r.text
    BY <1>b DEF Placed, Row, Span
  <2>4. QED BY <1>1, <1>c, <2>1, <2>2, <2>3
<1>2. CASE MovesRow(t)
  <2> DEFINE old == request[t].row
             m == request[t].span
  <2>1. pc[t] = "move" /\ rows' = MovedRows(old, m) BY <1>2 DEF MovesRow
  <2>2. old \in Row /\ m \in Mentions
    BY <1>a, <2>1 DEF RequestHolds, Editing, EditRequest
  <2> HIDE DEF old, m
  <2>3. PICK r \in rows : s = IF r.id = old.id THEN MovedTo(old, m, r) ELSE r
    BY <2>1 DEF MovedRows
  <2>4. /\ MovedTo(old, m, r).id = r.id /\ MovedTo(old, m, r).place = r.place
        /\ MovedTo(old, m, r).start = IF m.start # old.start THEN m.start ELSE r.start
        /\ MovedTo(old, m, r).end = IF m.end # old.end THEN m.end ELSE r.end
    BY <1>b, <2>2, MovedRow
  <2>5. ASSUME Span(r) = Span(old) PROVE Span(MovedTo(old, m, r)) = Span(m)
    BY <2>4, <2>5 DEF Span
  <2>6. QED BY <1>2, <1>c, <2>3, <2>4, <2>5 DEF old, m
<1>3. QED BY <1>1, <1>2

\* What a request has read still holds, of rows that nobody else has written.
ReadsHold(t) ==
  /\ pc[t] = "insert" =>
       \A m \in First(queue[t]), s \in rows : Meet(s, m) => s.id \in written[t]
  /\ pc[t] \in Editing =>
       \A r \in Stored(request[t].row.id) : Span(r) = Span(request[t].row) \/ r.id \in written[t]
  /\ pc[t] = "move" =>
       \A s \in rows : s.id # request[t].row.id /\ Meet(s, request[t].span)
                         => s.id \in written[t]
  /\ pc[t] = "copy" =>
       \A r \in Stored(request[t].row.id) : r.place = Unlinked \/ r.id \in written[t]

RaceInv == \A t \in Senders : ReadsHold(t)

LEMMA OthersToldOfWrites ==
  ASSUME TypeInv, NEW t \in Senders, SenderStep(t), UNCHANGED <<scene, active>>,
         NEW b \in Senders \ {t}, pc[b] # "idle"
  PROVE  /\ written[b] \subseteq written'[b] /\ crossed[b] \subseteq crossed'[b]
         /\ \A s \in rows' : s \in rows \/ (s.id \in written'[b] /\ s.id \in crossed'[b])
<1>1. CASE Removes(t) BY <1>1 DEF Removes
<1>2. CASE Inserts(t) BY <1>2 DEF Inserts, Writes, NewRow
<1>3. CASE Relinks(t) \/ MovesRow(t)
  <2>1. /\ written'[b] = written[b] \cup {request[t].row.id}
        /\ crossed'[b] = crossed[b] \cup {request[t].row.id}
    BY <1>3 DEF Relinks, MovesRow, Writes
  <2>2. ASSUME NEW s \in rows' PROVE s \in rows \/ s.id = request[t].row.id
    BY <1>3, WrittenRows
  <2>3. QED BY <2>1, <2>2
<1>4. QED BY <1>1, <1>2, <1>3, RowSteps

LEMMA OthersReadsHold ==
  ASSUME TypeInv, RaceInv, NEW t \in Senders, SenderStep(t), UNCHANGED <<scene, active>>,
         NEW b \in Senders \ {t}
  PROVE  ReadsHold(b)'
<1>1. pc'[b] = pc[b] /\ request'[b] = request[b] /\ queue'[b] = queue[b]
  BY StepTyped DEF Frame
<1>2. ReadsHold(b) BY DEF RaceInv
<1>3. CASE pc[b] = "idle" BY <1>1, <1>3 DEF ReadsHold, Editing
<1>4. CASE pc[b] # "idle"
  <2>1. written[b] \subseteq written'[b] /\ \A s \in rows' : s \in rows \/ s.id \in written'[b]
    BY <1>4, OthersToldOfWrites
  <2>2. QED BY <1>1, <1>2, <2>1 DEF ReadsHold, First, Stored
<1>5. QED BY <1>3, <1>4

\* The first of the mentions to be stored is the only one that starts there.
LEMMA OneFirst ==
  ASSUME TypeInv, NEW t \in Senders, pc[t] \in Storing,
         NEW m \in First(queue[t]), NEW n \in First(queue[t])
  PROVE  m = n
<1>1. m \in queue[t] /\ n \in queue[t] /\ m.start <= n.start /\ n.start <= m.start
  BY DEF First
<1>2. m \in Mentions /\ n \in Mentions BY <1>1 DEF TypeInv, RequestsTyped
<1>3. Meet(m, n) BY <1>1, <1>2, MentionsAssumption DEF Meet
<1>4. CASE queue[t] \subseteq Spotted
  BY <1>1, <1>3, <1>4, ScenesAssumption DEF TypeInv, RowsTyped, Spotted
<1>5. CASE \E x \in Mentions : queue[t] = {x} BY <1>1, <1>5
<1>6. QED BY <1>4, <1>5 DEF TypeInv, RequestHolds

LEMMA OwnReadsHold ==
  ASSUME TypeInv, RaceInv, NEW t \in Senders, SenderStep(t), UNCHANGED <<scene, active>>
  PROVE  ReadsHold(t)'
<1>a. RowsTyped /\ RequestsTyped /\ RequestHolds(t) /\ ReadsHold(t) BY DEF TypeInv, RaceInv
<1>b. TypeInv' BY StepTyped
<1> USE DEF ReadsHold
<1>1. ASSUME pc'[t] \notin Editing \cup {"insert", "copy"} PROVE ReadsHold(t)'
  BY <1>1 DEF Editing
<1>2. ASSUME NEW how, Finish(t, how) PROVE ReadsHold(t)'
  BY <1>1, <1>2, <1>a DEF Finish, Goto, Editing, RequestsTyped
<1>3. CASE Asks(t)
  <2>1. \/ pc'[t] \in {"validate", "predict", "link", "delete"}
        \/ pc'[t] = "check" /\ request'[t].row \in rows
    BY <1>3, AsksTyped
  <2>2. rows' = rows BY <1>3, AsksTyped
  <2>3. CASE pc'[t] = "check" /\ request'[t].row \in rows
    BY <1>a, <2>2, <2>3 DEF Stored, RowsTyped
  <2>4. QED BY <1>1, <2>1, <2>3 DEF Editing
<1>4. CASE ValidateNew(t)
  <2>1. PICK m \in First(queue[t]) :
          IF Overlapping(m, 0) = {}
            THEN Goto(t, "insert") /\ UNCHANGED <<request, queue, selected, repeats, outcome>>
            ELSE Finish(t, "error")
    BY <1>4 DEF ValidateNew
  <2>2. pc[t] \in Storing /\ rows' = rows BY <1>4 DEF ValidateNew, Storing
  <2>3. CASE Overlapping(m, 0) = {}
    <3>1. pc'[t] = "insert" /\ queue' = queue BY <1>a, <2>1, <2>3 DEF Goto, RequestsTyped
    <3>2. ASSUME NEW s \in rows PROVE ~Meet(s, m)
      <4>1. s.id # 0 BY <1>a, ScenesAssumption DEF RowsTyped, Row, MaxRows
      <4>2. QED BY <2>3, <4>1 DEF Overlapping
    <3>3. \A n \in First(queue[t]), s \in rows : ~Meet(s, n)
      BY <2>2, <3>2, OneFirst
    <3>4. First(queue[t])' = First(queue[t]) BY <3>1 DEF First
    <3>5. QED BY <2>2, <3>1, <3>3, <3>4 DEF Editing
  <2>4. QED BY <1>2, <2>1, <2>3
<1>5. CASE ReadToponyms(t)
  BY <1>1, <1>5, <1>a DEF ReadToponyms, Goto, RequestsTyped, Editing
<1>6. CASE InsertToponym(t)
  <2>1. (\E how : Finish(t, how)) \/ Goto(t, "validate") \/ Goto(t, "apply")
    BY <1>6 DEF InsertToponym
  <2>2. QED BY <1>1, <1>2, <1>a, <2>1 DEF Goto, RequestsTyped, Editing
<1>7. CASE SetApplied(t) \/ Move(t) \/ DeleteToponym(t) \/ Fail(t)
  <2>1. \E how : Finish(t, how) BY <1>7, Moves DEF SetApplied, DeleteToponym, Fail
  <2>2. QED BY <1>2, <2>1
<1>8. CASE Link(t) \/ Copy(t)
  <2>1. (\E how : Finish(t, how)) \/ Goto(t, "reread") \/ Goto(t, "visit")
    BY <1>8, PlaceUpdates DEF AfterCopy
  <2>2. QED BY <1>1, <1>2, <1>a, <2>1 DEF Goto, RequestsTyped, Editing
<1>9. CASE RereadSelected(t)
  <2>1. (\E how : Finish(t, how)) \/ Goto(t, "repeats") BY <1>9 DEF RereadSelected
  <2>2. QED BY <1>1, <1>2, <1>a, <2>1 DEF Goto, RequestsTyped, Editing
\* A copy sets out with the row as it is.
<1>10. ASSUME pc'[t] = "copy", request'[t].row \in rows, rows' = rows,
              request'[t].row.place = Unlinked
       PROVE  ReadsHold(t)'
  BY <1>a, <1>10 DEF Stored, RowsTyped, Editing
<1>11. CASE ReadRepeats(t)
  <2>1. rows' = rows BY <1>11 DEF ReadRepeats
  <2>2. CASE Finish(t, "ok") BY <1>2, <2>2
  <2>3. CASE ~Finish(t, "ok")
    <3>1. PICK r \in rows : /\ IsUnannotatedRepeat(r, selected[t])
                            /\ request' = [request EXCEPT ![t].row = r] /\ Goto(t, "copy")
      BY <1>11, <2>3 DEF ReadRepeats, First
    <3>2. request[t] \in LinkRequest
      BY <1>a, <1>11 DEF ReadRepeats, RequestHolds, Linking, Copying
    <3>3. pc'[t] = "copy" /\ request'[t].row = r
      BY <1>a, <3>1, <3>2 DEF Goto, RequestsTyped, LinkRequest
    <3>4. QED BY <1>10, <2>1, <3>1, <3>3 DEF IsUnannotatedRepeat
  <2>4. QED BY <2>2, <2>3
<1>12. CASE Visit(t)
  <2>1. rows' = rows /\ pc[t] = "visit" BY <1>12 DEF Visit
  <2>2. CASE Finish(t, "ok") \/ Finish(t, "error") BY <1>2, <2>2
  <2>3. CASE UNCHANGED pc BY <1>1, <2>1, <2>3 DEF Editing
  <2>4. CASE ~(Finish(t, "ok") \/ Finish(t, "error")) /\ ~UNCHANGED pc
    <3>1. PICK now \in rows : /\ now.place = Unlinked
                              /\ request' = [request EXCEPT ![t].row = now] /\ Goto(t, "copy")
      BY <1>12, <2>4 DEF Visit, Stored, IsUnannotatedRepeat
    <3>2. request[t] \in LinkRequest BY <1>a, <2>1 DEF RequestHolds, Linking, Copying
    <3>3. pc'[t] = "copy" /\ request'[t].row = now
      BY <1>a, <3>1, <3>2 DEF Goto, RequestsTyped, LinkRequest
    <3>4. QED BY <1>10, <2>1, <3>1, <3>3
  <2>5. QED BY <2>2, <2>3, <2>4
<1>13. CASE ValidateMove(t)
  <2>1. rows' = rows /\ written' = written /\ pc[t] = "check"
    BY <1>13 DEF ValidateMove, historyVars
  <2>2. CASE Finish(t, "error") BY <1>2, <2>2
  <2>3. CASE ~Finish(t, "error")
    <3>1. Goto(t, "move") /\ request' = request
          /\ Overlapping(request[t].span, request[t].row.id) = {}
      BY <1>13, <2>3 DEF ValidateMove
    <3>2. pc'[t] = "move" BY <1>a, <3>1 DEF Goto, RequestsTyped
    <3>3. QED BY <1>a, <2>1, <3>1, <3>2 DEF Overlapping, Stored, Editing
  <2>4. QED BY <2>2, <2>3
<1>14. CASE DeleteDocument(t)
  BY <1>1, <1>14 DEF DeleteDocument, requestVars, Editing
<1>15. QED
  BY <1>3, <1>4, <1>5, <1>6, <1>7, <1>8, <1>9, <1>11, <1>12, <1>13, <1>14 DEF SenderStep, Asks

\* What the requests have read holds in every reachable state.
LEMMA RacesBounded == Spec => [](TypeInv /\ RaceInv)
<1>1. Init => TypeInv /\ RaceInv
  BY TypeInvInitial DEF Init, RaceInv, ReadsHold, Editing
<1>2. TypeInv /\ RaceInv /\ [Next]_vars => (TypeInv /\ RaceInv)'
  <2> SUFFICES ASSUME TypeInv, RaceInv, [Next]_vars PROVE (TypeInv /\ RaceInv)'
    OBVIOUS
  <2>1. ASSUME NEW t \in active, SenderStep(t), UNCHANGED <<scene, active>>
        PROVE  (TypeInv /\ RaceInv)'
    <3>1. t \in Senders BY DEF TypeInv, RowsTyped
    <3>2. TypeInv' BY <2>1, <3>1, StepTyped
    <3>3. \A b \in Senders : ReadsHold(b)' BY <2>1, <3>1, OwnReadsHold, OthersReadsHold
    <3>4. QED BY <3>2, <3>3 DEF RaceInv
  <2>2. CASE UNCHANGED vars
    <3>1. TypeInv'
      BY <2>2, Stutters, SameTypes DEF TypeInv, RowsTyped, RequestsTyped, HistoryTyped,
         RequestHolds
    <3>2. RaceInv' BY <2>2, Stutters DEF RaceInv, ReadsHold, Stored, First
    <3>3. QED BY <3>1, <3>2
  <2>3. QED BY <2>1, <2>2 DEF Next
<1>3. QED BY <1>1, <1>2, PTL DEF Spec

\* Two rows come to overlap only by a step of a request one of them was hidden from.
LEMMA StepOverlaps ==
  ASSUME TypeInv, RaceInv, NEW t \in Senders, SenderStep(t), UNCHANGED <<scene, active>>,
         NEW r \in rows', NEW s \in rows', r # s, Meet(r, s),
         ~(\E x, y \in rows : x.id = r.id /\ y.id = s.id /\ Meet(x, y))
  PROVE  {r.id, s.id} \cap written[t] # {}
<1>a. RowsTyped /\ ReadsHold(t) BY DEF TypeInv, RaceInv
<1>b. rows' \subseteq Row
  <2>1. TypeInv' BY StepTyped
  <2>2. Row' = Row BY SameTypes
  <2>3. QED BY <2>1, <2>2 DEF TypeInv, RowsTyped
<1>c. r.id # s.id
  <2>1. TypeInv' BY StepTyped
  <2>2. QED BY <2>1 DEF TypeInv, RowsTyped
<1>d. /\ r.start \in Nat /\ r.end \in Nat /\ s.start \in Nat /\ s.end \in Nat
      /\ Meet(s, r)
  BY <1>b DEF Row, Meet
<1>1. CASE Removes(t) BY <1>1 DEF Removes
<1>2. CASE Inserts(t)
  <2>1. PICK m \in First(queue[t]) : rows' = rows \cup {NewRow(m)} BY <1>2 DEF Inserts
  <2>2. NewRow(m).start = m.start /\ NewRow(m).end = m.end BY DEF NewRow
  <2>3. ASSUME NEW x \in rows, Meet(x, NewRow(m)) PROVE x.id \in written[t]
    <3>1. Meet(x, m) BY <2>2, <2>3 DEF Meet
    <3>2. QED BY <1>a, <1>2, <3>1 DEF ReadsHold, Inserts
  <2>4. QED BY <1>d, <2>1, <2>3
<1>3. CASE Relinks(t)
  <2>1. PICK x \in rows : x.id = r.id /\ Span(x) = Span(r) BY <1>3, WrittenRows
  <2>2. PICK y \in rows : y.id = s.id /\ Span(y) = Span(s) BY <1>3, WrittenRows
  <2>3. Meet(x, y) BY <2>1, <2>2 DEF Span, Meet
  <2>4. QED BY <2>1, <2>2, <2>3
<1>4. CASE MovesRow(t)
  <2> DEFINE old == request[t].row
             m == request[t].span
  <2>a. pc[t] = "move" BY <1>4 DEF MovesRow
  <2> HIDE DEF old, m
  \* One of the two has been moved.
  <2>1. ASSUME NEW x \in rows', NEW y \in rows', x.id = old.id, y.id # old.id, Meet(y, x)
        PROVE  {x.id, y.id} \cap written[t] # {}
    <3>1. PICK r0 \in rows : /\ r0.id = x.id
                             /\ Span(r0) = Span(old) => Span(x) = Span(m)
      BY <1>4, <2>1, WrittenRows DEF old, m
    <3>2. y \in rows BY <1>4, <2>1, WrittenRows DEF old
    <3>3. CASE x.id \in written[t] BY <3>3
    <3>4. CASE x.id \notin written[t]
      <4>1. Span(r0) = Span(old)
        BY <1>a, <2>a, <2>1, <3>1, <3>4 DEF ReadsHold, Editing, Stored, old
      <4>2. Meet(y, m) BY <2>1, <3>1, <4>1 DEF Span, Meet
      <4>3. y.id \in written[t] BY <1>a, <2>a, <2>1, <3>2, <4>2 DEF ReadsHold, old, m
      <4>4. QED BY <4>3
    <3>5. QED BY <3>3, <3>4
  <2>2. CASE r.id = old.id BY <1>c, <1>d, <2>1, <2>2
  <2>3. CASE s.id = old.id
    <3>1. {s.id, r.id} \cap written[t] # {} BY <1>c, <2>1, <2>3
    <3>2. QED BY <3>1
  <2>4. CASE r.id # old.id /\ s.id # old.id
    <3>1. r \in rows /\ s \in rows BY <1>4, <2>4, WrittenRows DEF old
    <3>2. QED BY <3>1
  <2>5. QED BY <2>2, <2>3, <2>4
<1>5. QED BY <1>1, <1>2, <1>3, <1>4, RowSteps

\* Two rows come to overlap only if one of them was written by another request since
\* the request that makes them overlap last read the rows.
THEOREM OverlapsAlwaysRaces == Spec => OverlapsOnlyToRaces
<1> DEFINE Races == \A t \in Senders : pc[t] # pc'[t] =>
       \A r, s \in rows' :
         r # s /\ Meet(r, s) /\ ~(\E x, y \in rows : x.id = r.id /\ y.id = s.id /\ Meet(x, y))
           => {r.id, s.id} \cap written[t] # {}
<1>1. TypeInv /\ RaceInv /\ [Next]_vars => [Races]_vars
  <2> SUFFICES ASSUME TypeInv, RaceInv, Next PROVE Races
    OBVIOUS
  <2>1. PICK b \in active : SenderStep(b) /\ UNCHANGED <<scene, active>> BY DEF Next
  <2>2. b \in Senders BY DEF TypeInv, RowsTyped
  <2>3. \A t \in Senders : pc[t] # pc'[t] => t = b BY <2>1, <2>2, StepTyped DEF Frame
  <2>4. QED BY <2>1, <2>2, <2>3, StepOverlaps
<1> HIDE DEF Races
<1>2. Spec => [][Races]_vars BY <1>1, RacesBounded, PTL DEF Spec
<1>3. QED BY <1>2 DEF Races, OverlapsOnlyToRaces

\* A link changes only by a request for its row; where that is a copy, another
\* has written the row since the copy looked at it.
THEOREM LinksAlwaysSurvive == Spec => LinksSurvive
<1> DEFINE Named(r) == \E t \in Senders :
             /\ pc[t] \in {"link", "copy"} /\ request[t].row.id = r.id
             /\ pc[t] = "copy" => r.id \in written[t]
           Survive == \A r \in Overwritten : Named(r)
<1>1. TypeInv /\ RaceInv /\ [Next]_vars => [Survive]_vars
  <2> SUFFICES ASSUME TypeInv, RaceInv, Next, NEW r \in Overwritten PROVE Named(r)
    OBVIOUS
  <2>1. PICK t \in active : SenderStep(t) /\ UNCHANGED <<scene, active>> BY DEF Next
  <2>2. t \in Senders BY DEF TypeInv, RowsTyped
  <2>3. RowsTyped /\ ReadsHold(t) BY <2>2 DEF TypeInv, RaceInv
  <2>4. PICK s \in rows' : s.id = r.id /\ s.place # r.place BY DEF Overwritten
  <2>5. r \in rows /\ r.place # Unlinked BY DEF Overwritten
  <2>6. \A x \in rows : x.id = r.id => x = r BY <2>3, <2>5 DEF RowsTyped
  <2>7. CASE Removes(t) BY <2>4, <2>6, <2>7 DEF Removes
  <2>8. CASE Inserts(t)
    <3>1. PICK m : rows' = rows \cup {NewRow(m)} BY <2>8 DEF Inserts
    <3>2. NewRow(m).id = created + 1 /\ r.id <= created /\ r.id \in Nat /\ created \in Nat
      BY <2>3, <2>5, ScenesAssumption DEF NewRow, RowsTyped, Row, MaxRows
    <3>3. QED BY <2>4, <2>6, <3>1, <3>2
  <2>9. CASE Relinks(t)
    <3>1. request[t].row.id = r.id BY <2>2, <2>4, <2>6, <2>9, WrittenRows
    <3>2. pc[t] \in {"link", "copy"} BY <2>9 DEF Relinks
    <3>3. pc[t] = "copy" => r.id \in written[t]
      BY <2>3, <2>5, <3>1 DEF ReadsHold, Stored
    <3>4. QED BY <2>2, <3>1, <3>2, <3>3
  <2>10. CASE MovesRow(t) BY <2>2, <2>4, <2>6, <2>10, WrittenRows
  <2>11. QED BY <2>1, <2>2, <2>7, <2>8, <2>9, <2>10, RowSteps
<1> HIDE DEF Survive
<1>2. Spec => [][Survive]_vars BY <1>1, RacesBounded, PTL DEF Spec
<1>3. QED BY <1>2 DEF Survive, LinksSurvive

-----------------------------------------------------------------------------
(***************************************************************************)
(* What a parse has yet to store has not been removed, and what it has     *)
(* stored stays until the document is parsed: only then is it edited.      *)
(***************************************************************************)

StoredSpan(m) == \E r \in rows : Span(r) = Span(m)
ParseStores(t) == pc[t] \in Storing /\ request[t].op = "parse"

RemovedOut ==
  /\ \A r \in rows : Span(r) \notin removed
  /\ removed # {} => applied

ParseSound(t) ==
  /\ pc[t] # "idle" => t \in active
  /\ pc[t] \in Editing \cup {"delete"} => applied
  /\ pc[t] = "predict" => removed = {}
  /\ ParseStores(t) => \A m \in queue[t] : Span(m) \notin removed
  /\ ~applied /\ document = "live" =>
       /\ ParseStores(t) => \A m \in Spotted \ queue[t] : StoredSpan(m)
       /\ pc[t] = "apply" => \A m \in Spotted : StoredSpan(m)

\* Until the document is parsed, or gone, no row loses its span.
LEMMA SpansKept ==
  ASSUME TypeInv, NEW t \in Senders, SenderStep(t), UNCHANGED <<scene, active>>,
         ParseSound(t), ~applied', document' = "live"
  PROVE  ~applied /\ document = "live" /\ \A m : StoredSpan(m) => StoredSpan(m)'
<1>a. RowsTyped /\ RequestsTyped /\ RequestHolds(t) BY DEF TypeInv
<1>b. ASSUME applied' = applied, document' = document,
             \A r \in rows : \E s \in rows' : Span(s) = Span(r)
      PROVE  ~applied /\ document = "live" /\ \A m : StoredSpan(m) => StoredSpan(m)'
  <2>1. ASSUME NEW m, StoredSpan(m) PROVE StoredSpan(m)'
    <3>1. PICK r \in rows : Span(r) = Span(m) BY <2>1 DEF StoredSpan
    <3>2. PICK s \in rows' : Span(s) = Span(r) BY <1>b
    <3>3. Span(m)' = Span(m) /\ Span(s)' = Span(s) BY DEF Span
    <3>4. QED BY <3>1, <3>2, <3>3 DEF StoredSpan
  <2>2. QED BY <1>b, <2>1
<1>1. CASE Asks(t) BY <1>1, <1>b, AsksTyped
<1>2. CASE ReadToponyms(t) \/ ValidateNew(t) \/ ReadRepeats(t) \/ Visit(t)
  BY <1>2, <1>b DEF ReadToponyms, ValidateNew, ReadRepeats, Visit
<1>3. CASE RereadSelected(t) \/ ValidateMove(t) \/ Fail(t)
  BY <1>3, <1>b DEF RereadSelected, ValidateMove, Fail
<1>4. CASE SetApplied(t)
  <2>1. UNCHANGED <<rows, document>> /\ (applied' = applied \/ applied')
    BY <1>4 DEF SetApplied
  <2>2. QED BY <1>b, <2>1
<1>5. CASE InsertToponym(t)
  <2>1. UNCHANGED <<document, applied>> /\ rows \subseteq rows' BY <1>5 DEF InsertToponym
  <2>2. QED BY <1>b, <2>1
<1>6. CASE Link(t) \/ Copy(t)
  <2>1. UNCHANGED <<document, applied>> BY <1>6, PlaceUpdates
  <2>2. rows' = rows \/ Relinks(t) BY <1>6, PlaceUpdates DEF PlaceSet, PlacedRows, Relinks
  <2>3. CASE rows' = rows BY <1>b, <2>1, <2>3
  <2>4. CASE Relinks(t)
    <3>1. PICK id, place : rows' = PlacedRows(id, place) BY <2>4 DEF Relinks
    <3>2. ASSUME NEW r \in rows PROVE \E s \in rows' : Span(s) = Span(r)
      <4>1. Span(Placed(r, place)) = Span(r) BY <1>a DEF Placed, Span, Row, RowsTyped
      <4>2. (IF r.id = id THEN Placed(r, place) ELSE r) \in rows' BY <3>1 DEF PlacedRows
      <4>3. QED BY <4>1, <4>2
    <3>3. QED BY <1>b, <2>1, <3>2
  <2>5. QED BY <2>2, <2>3, <2>4
<1>7. CASE Move(t) \/ DeleteToponym(t)
  <2>1. pc[t] \in Editing \cup {"delete"} /\ applied' = applied
    BY <1>7, Moves DEF DeleteToponym, Editing
  <2>2. QED BY <2>1 DEF ParseSound
<1>8. CASE DeleteDocument(t) BY <1>8 DEF DeleteDocument
<1>9. QED
  BY <1>1, <1>2, <1>3, <1>4, <1>5, <1>6, <1>7, <1>8 DEF SenderStep, Asks

\* A span counts as removed by a deletion that nothing on its way can undo.
LEMMA NewlyRemoved ==
  ASSUME TypeInv, NEW t \in Senders, SenderStep(t), UNCHANGED <<scene, active>>,
         NEW span \in removed'
  PROVE  \/ span \in removed
         \/ /\ pc[t] = "delete" /\ applied' = applied
            /\ \A r \in rows' : Span(r) # span
            /\ \A b \in active : ~AwaitsStoring(b, span)
<1>1. CASE Asks(t) BY <1>1, AsksTyped
<1>2. CASE ReadToponyms(t) \/ ValidateNew(t) \/ ReadRepeats(t) \/ Visit(t)
  BY <1>2 DEF ReadToponyms, ValidateNew, ReadRepeats, Visit
<1>3. CASE SetApplied(t) \/ RereadSelected(t) \/ ValidateMove(t) \/ Fail(t) \/ DeleteDocument(t)
  BY <1>3 DEF SetApplied, RereadSelected, ValidateMove, Fail, DeleteDocument, historyVars
<1>4. CASE DeleteToponym(t)
  <2>1. PICK gone : /\ rows' = rows \ gone /\ pc[t] = "delete" /\ applied' = applied
                    /\ removed' = removed \cup
                         {x \in {Span(r) : r \in gone} \ {Span(r) : r \in rows \ gone} :
                            \A b \in active : ~AwaitsStoring(b, x)}
    BY <1>4 DEF DeleteToponym
  <2>2. QED BY <2>1
<1>5. CASE InsertToponym(t) BY <1>5 DEF InsertToponym, historyVars
<1>6. CASE Link(t) \/ Copy(t) BY <1>6, PlaceUpdates
<1>7. CASE Move(t) BY <1>7, Moves DEF historyVars
<1>8. QED BY <1>1, <1>2, <1>3, <1>4, <1>5, <1>6, <1>7 DEF SenderStep, Asks

\* No step stores a removed span, but for a user's, which puts it back.
LEMMA RemovedStaysOut ==
  ASSUME TypeInv, NEW t \in Senders, SenderStep(t), UNCHANGED <<scene, active>>,
         RemovedOut, ParseSound(t)
  PROVE  RemovedOut'
<1>a. RowsTyped /\ RequestsTyped /\ RequestHolds(t) BY DEF TypeInv
<1>b. applied => applied'
  <2>1. CASE Asks(t) BY <2>1, AsksTyped
  <2>2. CASE Link(t) \/ Copy(t) \/ Move(t) BY <2>2, PlaceUpdates, Moves
  <2>3. CASE ~(Asks(t) \/ Link(t) \/ Copy(t) \/ Move(t))
    BY <2>3 DEF SenderStep, Asks, ReadToponyms, ValidateNew, InsertToponym, SetApplied,
       RereadSelected, ReadRepeats, Visit, ValidateMove, DeleteToponym, DeleteDocument, Fail
  <2>4. QED BY <2>1, <2>2, <2>3
<1>c. removed' # {} => applied'
  <2>1. ASSUME NEW span \in removed' PROVE applied'
    <3>1. span \in removed \/ pc[t] = "delete" BY NewlyRemoved
    <3>2. QED BY <1>b, <3>1 DEF RemovedOut, ParseSound
  <2>2. QED BY <2>1
<1>d. ASSUME NEW s \in rows', NEW r \in rows, Span(s) = Span(r) PROVE Span(s) \notin removed'
  BY <1>d, NewlyRemoved DEF RemovedOut
<1>1. ASSUME NEW s \in rows' PROVE Span(s) \notin removed'
  <2>1. CASE s \in rows BY <1>d, <2>1
  <2>2. CASE InsertToponym(t) /\ s \notin rows
    <3>1. pc[t] = "insert" BY <2>2 DEF InsertToponym
    <3>2. PICK m \in queue[t] :
            /\ rows' = rows \cup {NewRow(m)}
            /\ removed' = IF request[t].op = "create" THEN removed \ {Span(m)} ELSE removed
      BY <2>2 DEF InsertToponym, NewRow, First
    <3>3. Span(s) = Span(m) BY <2>2, <3>2 DEF Span, NewRow
    <3>4. CASE request[t].op = "create" BY <3>2, <3>3, <3>4
    <3>5. CASE request[t].op # "create"
      <4>1. ParseStores(t) BY <1>a, <3>1, <3>5 DEF RequestHolds, Storing, ParseStores
      <4>2. QED BY <3>2, <3>3, <3>5, <4>1 DEF ParseSound
    <3>6. QED BY <3>4, <3>5
  <2>3. CASE Link(t) \/ Copy(t)
    <3>1. rows' = rows \/ Relinks(t) BY <2>3, PlaceUpdates DEF PlaceSet, PlacedRows, Relinks
    <3>2. CASE Relinks(t) BY <1>d, <3>2, WrittenRows
    <3>3. QED BY <2>1, <3>1, <3>2
  <2>4. CASE Move(t) /\ s \notin rows
    <3> DEFINE old == request[t].row
               m == request[t].span
    <3>1. /\ rows' = {IF r.id = old.id THEN MovedTo(old, m, r) ELSE r : r \in rows}
          /\ removed' = removed \ {Span(MovedTo(old, m, r)) : r \in Stored(old.id)}
      BY <2>4, Moves
    <3> HIDE DEF old, m
    <3>2. PICK r \in rows : s = IF r.id = old.id THEN MovedTo(old, m, r) ELSE r BY <3>1
    <3>3. r \in Stored(old.id) /\ s = MovedTo(old, m, r) BY <2>4, <3>2 DEF Stored
    <3>4. QED BY <3>1, <3>3
  <2>5. CASE ~(InsertToponym(t) \/ Link(t) \/ Copy(t) \/ Move(t))
    <3>1. CASE Asks(t) BY <2>1, <3>1, AsksTyped
    <3>2. CASE ~Asks(t)
      <4>1. rows' \subseteq rows
        BY <2>5, <3>2 DEF SenderStep, Asks, ReadToponyms, ValidateNew, SetApplied,
           RereadSelected, ReadRepeats, Visit, ValidateMove, DeleteToponym, DeleteDocument, Fail
      <4>2. QED BY <2>1, <4>1
    <3>3. QED BY <3>1, <3>2
  <2>6. QED BY <2>1, <2>2, <2>3, <2>4, <2>5
<1>2. QED BY <1>c, <1>1 DEF RemovedOut

\* A parse that another request overtakes is as sound as it was.
LEMMA OthersParsesSound ==
  ASSUME TypeInv, NEW t \in Senders, SenderStep(t), UNCHANGED <<scene, active>>,
         ParseSound(t), NEW b \in Senders \ {t}, ParseSound(b)
  PROVE  ParseSound(b)'
<1>1. /\ pc'[b] = pc[b] /\ request'[b] = request[b] /\ queue'[b] = queue[b]
      /\ active' = active /\ Spotted' = Spotted
  BY StepTyped, SameTypes DEF Frame
<1>a. RequestHolds(b) BY DEF TypeInv
<1>2. ParseStores(b)' <=> ParseStores(b) BY <1>1 DEF ParseStores
<1>3. applied => applied'
  <2>1. CASE ~applied' /\ document' = "live" BY <2>1, SpansKept
  <2>2. CASE Asks(t) BY <2>2, AsksTyped
  <2>3. CASE Link(t) \/ Copy(t) \/ Move(t) BY <2>3, PlaceUpdates, Moves
  <2>4. CASE ~(Asks(t) \/ Link(t) \/ Copy(t) \/ Move(t))
    BY <2>4 DEF SenderStep, Asks, ReadToponyms, ValidateNew, InsertToponym, SetApplied,
       RereadSelected, ReadRepeats, Visit, ValidateMove, DeleteToponym, DeleteDocument, Fail
  <2>5. QED BY <2>2, <2>3, <2>4
<1>4. pc[b] = "predict" => removed' = {}
  <2> SUFFICES ASSUME pc[b] = "predict", NEW span \in removed' PROVE FALSE
    OBVIOUS
  <2>1. b \in active /\ removed = {} /\ AwaitsStoring(b, span)
    BY DEF ParseSound, AwaitsStoring
  <2>2. QED BY <2>1, NewlyRemoved
<1>5. ASSUME ParseStores(b), NEW m \in queue[b] PROVE Span(m) \notin removed'
  <2>1. b \in active /\ Span(m) \notin removed
    BY <1>5 DEF ParseSound, ParseStores, Storing
  <2>2. AwaitsStoring(b, Span(m)) BY <1>5 DEF AwaitsStoring, ParseStores
  <2>3. QED BY <2>1, <2>2, NewlyRemoved
<1>6. ASSUME ~applied', document' = "live"
      PROVE  ~applied /\ document = "live" /\ \A m : StoredSpan(m) => StoredSpan(m)'
  BY <1>6, SpansKept
<1>7. /\ pc'[b] # "idle" => b \in active'
      /\ pc'[b] \in Editing \cup {"delete"} => applied'
      /\ pc'[b] = "predict" => removed' = {}
  BY <1>1, <1>3, <1>4 DEF ParseSound
<1>8. ParseStores(b)' => \A m \in queue'[b] : Span(m)' \notin removed'
  BY <1>1, <1>2, <1>5 DEF Span
<1>9. ~applied' /\ document' = "live" =>
       /\ ParseStores(b)' => \A m \in Spotted' \ queue'[b] : StoredSpan(m)'
       /\ pc'[b] = "apply" => \A m \in Spotted' : StoredSpan(m)'
  BY <1>1, <1>2, <1>6 DEF ParseSound
<1>10. QED BY <1>7, <1>8, <1>9 DEF ParseSound

\* A parse stores what it found, name by name, before it ends.
LEMMA OwnParseSound ==
  ASSUME TypeInv, NEW t \in active, SenderStep(t), UNCHANGED <<scene, active>>,
         RemovedOut, ParseSound(t)
  PROVE  ParseSound(t)'
<1>0. t \in Senders BY DEF TypeInv, RowsTyped
<1>a. RowsTyped /\ RequestsTyped /\ RequestHolds(t) BY <1>0 DEF TypeInv
<1>b. Spotted' = Spotted /\ active' = active BY <1>0, SameTypes
<1>c. removed' # {} => applied'
  BY <1>0, RemovedStaysOut DEF RemovedOut
<1>d. ~applied' => removed' = {} BY <1>c
<1>e. \A m \in Mentions : Span(m)' = Span(m) BY DEF Span
<1>1. ASSUME pc'[t] \notin {"predict", "apply", "delete"} \cup Storing \cup Editing
      PROVE  ParseSound(t)'
  BY <1>b, <1>1 DEF ParseSound, ParseStores, Storing
<1>2. ASSUME NEW how, Finish(t, how) PROVE ParseSound(t)'
  BY <1>0, <1>1, <1>2, <1>a DEF Finish, Goto, Storing, Editing, RequestsTyped
<1>3. CASE Asks(t)
  <2>1. /\ applied' = applied
        /\ pc'[t] \in {"validate", "predict", "link", "check", "delete"}
        /\ pc'[t] = "validate" => request'[t].op = "create"
        /\ pc'[t] = "predict" => ~applied
        /\ pc'[t] \in {"check", "delete"} => applied
    BY <1>0, <1>3, AsksTyped
  <2>2. QED BY <1>b, <1>d, <2>1 DEF ParseSound, ParseStores, Storing, Editing
<1>4. CASE ReadToponyms(t)
  <2>1. /\ pc[t] = "predict" /\ queue' = [queue EXCEPT ![t] = Remaining]
        /\ Goto(t, IF Remaining = {} THEN "apply" ELSE "validate")
        /\ UNCHANGED <<document, applied, rows, request, removed>>
    BY <1>4 DEF ReadToponyms
  <2>2. /\ pc'[t] = (IF Remaining = {} THEN "apply" ELSE "validate")
        /\ queue'[t] = Remaining
    BY <1>0, <1>a, <2>1 DEF Goto, RequestsTyped
  <2>3. \A m \in Spotted \ Remaining : StoredSpan(m) BY DEF Remaining, StoredSpan
  <2>4. removed' = {} BY <2>1 DEF ParseSound
  <2>5. \A m \in Spotted' \ queue'[t] : StoredSpan(m)'
    BY <1>b, <2>1, <2>2, <2>3 DEF StoredSpan, Span
  <2>6. pc'[t] = "apply" => Remaining = {} BY <2>2
  <2>7. QED BY <1>b, <2>2, <2>4, <2>5, <2>6 DEF ParseSound, ParseStores, Storing, Editing
<1>5. CASE ValidateNew(t)
  <2>1. pc[t] = "validate" /\ UNCHANGED <<document, applied, rows, removed>>
    BY <1>5 DEF ValidateNew
  <2>2. CASE Finish(t, "error") BY <1>2, <2>2
  <2>3. CASE ~Finish(t, "error")
    <3>1. Goto(t, "insert") /\ UNCHANGED <<request, queue>> BY <1>5, <2>3 DEF ValidateNew
    <3>2. pc'[t] = "insert" BY <1>0, <1>a, <3>1 DEF Goto, RequestsTyped
    <3>3. ParseStores(t)' <=> ParseStores(t)
      BY <2>1, <3>1, <3>2 DEF ParseStores, Storing
    <3>4. ParseStores(t) => \A m \in queue'[t] : Span(m)' \notin removed'
      BY <2>1, <3>1 DEF ParseSound, Span
    <3>5. ~applied' /\ document' = "live" /\ ParseStores(t) =>
            \A m \in Spotted' \ queue'[t] : StoredSpan(m)'
      BY <1>b, <2>1, <3>1 DEF ParseSound, StoredSpan, Span
    <3>6. QED BY <1>b, <3>2, <3>3, <3>4, <3>5 DEF ParseSound, Editing
  <2>4. QED BY <2>2, <2>3
<1>6. CASE InsertToponym(t)
  <2>1. pc[t] = "insert" /\ UNCHANGED <<applied, document>> BY <1>6 DEF InsertToponym
  <2>2. CASE \E how : Finish(t, how) BY <1>2, <2>2
  <2>3. CASE ~(\E how : Finish(t, how))
    <3>1. PICK m \in First(queue[t]) :
            /\ rows' = rows \cup {NewRow(m)} /\ UNCHANGED request
            /\ removed' \subseteq removed
            /\ \/ /\ queue' = [queue EXCEPT ![t] = queue[t] \ {m}] /\ Goto(t, "validate")
                  /\ queue[t] # {m}
               \/ /\ queue' = [queue EXCEPT ![t] = {}] /\ Goto(t, "apply")
                  /\ queue[t] = {m} /\ request[t].op = "parse"
      BY <1>6, <2>3 DEF InsertToponym, NewRow, historyVars
    <3>2. StoredSpan(m)'
      <4>1. NewRow(m) \in rows' BY <3>1
      <4>2. Span(NewRow(m))' = Span(m)' BY DEF NewRow, Span
      <4>3. QED BY <4>1, <4>2 DEF StoredSpan, Span, NewRow
    <3>3. ~applied' /\ document' = "live" => \A n : StoredSpan(n) => StoredSpan(n)'
      BY <1>0, SpansKept
    <3>4. request[t].op = "parse" => ParseStores(t)
      BY <2>1 DEF ParseStores, Storing
    <3>5. CASE queue' = [queue EXCEPT ![t] = queue[t] \ {m}] /\ Goto(t, "validate")
      <4>1. pc'[t] = "validate" /\ queue'[t] = queue[t] \ {m}
        BY <1>0, <1>a, <3>5 DEF Goto, RequestsTyped
      <4>2. ParseStores(t)' => ParseStores(t)
        BY <2>1, <3>1 DEF ParseStores, Storing
      <4>3. ParseStores(t) => \A n \in queue'[t] : Span(n)' \notin removed'
        BY <3>1, <4>1 DEF ParseSound, Span
      <4>4. ~applied' /\ document' = "live" /\ ParseStores(t) =>
              \A n \in Spotted' \ queue'[t] : StoredSpan(n)'
        BY <1>b, <2>1, <3>2, <3>3, <4>1 DEF ParseSound
      <4>5. QED BY <1>b, <4>1, <4>2, <4>3, <4>4 DEF ParseSound, Editing
    <3>6. CASE Goto(t, "apply") /\ queue[t] = {m} /\ request[t].op = "parse"
      <4>1. pc'[t] = "apply" BY <1>0, <1>a, <3>6 DEF Goto, RequestsTyped
      <4>2. ~applied' /\ document' = "live" => \A n \in Spotted' : StoredSpan(n)'
        BY <1>b, <2>1, <3>2, <3>3, <3>4, <3>6 DEF ParseSound
      <4>3. QED BY <1>b, <4>1, <4>2 DEF ParseSound, ParseStores, Storing, Editing
    <3>7. QED BY <3>1, <3>5, <3>6
  <2>4. QED BY <2>2, <2>3
<1>7. CASE SetApplied(t) \/ Move(t) \/ DeleteToponym(t) \/ Fail(t)
  <2>1. \E how : Finish(t, how) BY <1>0, <1>7, Moves DEF SetApplied, DeleteToponym, Fail
  <2>2. QED BY <1>2, <2>1
<1>8. CASE Link(t) \/ Copy(t)
  <2>1. (\E how : Finish(t, how)) \/ Goto(t, "reread") \/ Goto(t, "visit")
    BY <1>0, <1>8, PlaceUpdates DEF AfterCopy
  <2>2. QED BY <1>0, <1>1, <1>2, <1>a, <2>1 DEF Goto, RequestsTyped, Storing, Editing
<1>9. CASE RereadSelected(t) \/ ReadRepeats(t)
  <2>1. (\E how : Finish(t, how)) \/ Goto(t, "repeats") \/ Goto(t, "copy")
    BY <1>9 DEF RereadSelected, ReadRepeats
  <2>2. QED BY <1>0, <1>1, <1>2, <1>a, <2>1 DEF Goto, RequestsTyped, Storing, Editing
<1>10. CASE Visit(t)
  <2>1. pc[t] = "visit" BY <1>10 DEF Visit
  <2>2. (\E how : Finish(t, how)) \/ Goto(t, "copy") \/ UNCHANGED pc BY <1>10 DEF Visit
  <2>3. QED BY <1>0, <1>1, <1>2, <1>a, <2>1, <2>2 DEF Goto, RequestsTyped, Storing, Editing
<1>11. CASE ValidateMove(t)
  <2>1. pc[t] = "check" /\ applied' = applied BY <1>11 DEF ValidateMove
  <2>2. CASE Finish(t, "error") BY <1>2, <2>2
  <2>3. CASE Goto(t, "move")
    <3>1. pc'[t] = "move" BY <1>0, <1>a, <2>3 DEF Goto, RequestsTyped
    <3>2. applied' BY <2>1 DEF ParseSound, Editing
    <3>3. QED BY <1>b, <3>1, <3>2 DEF ParseSound, ParseStores, Storing
  <2>4. QED BY <1>11, <2>2, <2>3 DEF ValidateMove
<1>12. CASE DeleteDocument(t)
  BY <1>1, <1>12 DEF DeleteDocument, requestVars, Storing, Editing
<1>13. QED
  BY <1>3, <1>4, <1>5, <1>6, <1>7, <1>8, <1>9, <1>10, <1>11, <1>12 DEF SenderStep, Asks

ParsesInv == RemovedOut /\ \A t \in Senders : ParseSound(t)

LEMMA ParsesBounded == Spec => [](TypeInv /\ ParsesInv)
<1>1. Init => ParsesInv
  BY DEF Init, ParsesInv, RemovedOut, ParseSound, ParseStores, Storing, Editing
<1>2. TypeInv /\ ParsesInv /\ [Next]_vars => ParsesInv'
  <2> SUFFICES ASSUME TypeInv, ParsesInv, [Next]_vars PROVE ParsesInv'
    OBVIOUS
  <2>1. ASSUME NEW t \in active, SenderStep(t), UNCHANGED <<scene, active>> PROVE ParsesInv'
    <3>1. t \in Senders BY DEF TypeInv, RowsTyped
    <3>2. RemovedOut /\ \A b \in Senders : ParseSound(b) BY DEF ParsesInv
    <3>3. RemovedOut' BY <2>1, <3>1, <3>2, RemovedStaysOut
    <3>4. ParseSound(t)' BY <2>1, <3>1, <3>2, OwnParseSound
    <3>5. \A b \in Senders \ {t} : ParseSound(b)' BY <2>1, <3>1, <3>2, OthersParsesSound
    <3>6. \A b \in Senders : ParseSound(b)' BY <3>4, <3>5
    <3>7. QED BY <3>3, <3>6 DEF ParsesInv
  <2>2. CASE UNCHANGED vars
    <3>1. /\ UNCHANGED <<scene, active, document, applied, rows, pc, request, queue, removed>>
          /\ Spotted' = Spotted
      BY <2>2, Stutters, SameTypes
    <3>2. RemovedOut' BY <3>1 DEF ParsesInv, RemovedOut
    <3>3. \A t \in Senders : ParseSound(t)'
      BY <3>1 DEF ParsesInv, ParseSound, ParseStores, StoredSpan
    <3>4. QED BY <3>2, <3>3 DEF ParsesInv
  <2>3. QED BY <2>1, <2>2 DEF Next
<1>3. Spec => []TypeInv
  <2>1. Spec => [](TypeInv /\ RaceInv) BY RacesBounded
  <2>2. QED BY <2>1, PTL
<1>4. QED BY <1>1, <1>2, <1>3, PTL DEF Spec

\* No row has a span that a user removed, and that neither a user nor a parse then on
\* its way put back.
THEOREM RemovalsAlwaysHold == Spec => []RemovalsHold
<1>1. TypeInv /\ ParsesInv => RemovalsHold BY DEF ParsesInv, RemovedOut, RemovalsHold
<1>2. QED BY <1>1, ParsesBounded, PTL

\* The document counts as parsed only with every mention found in it.
THEOREM ParsesAlwaysComplete == Spec => ParseComplete
<1> DEFINE Complete == ~applied /\ applied' =>
                         \A m \in Spotted : \E r \in rows : Span(r) = Span(m)
<1>1. TypeInv /\ ParsesInv /\ [Next]_vars => [Complete]_vars
  <2> SUFFICES ASSUME TypeInv, ParsesInv, Next, ~applied, applied', NEW m \in Spotted
               PROVE  \E r \in rows : Span(r) = Span(m)
    OBVIOUS
  <2>1. PICK t \in active : SenderStep(t) /\ UNCHANGED <<scene, active>> BY DEF Next
  <2>2. t \in Senders BY DEF TypeInv, RowsTyped
  <2>3. ParseSound(t) BY <2>2 DEF ParsesInv
  <2>4. SetApplied(t)
    <3>1. ~Asks(t) BY <2>1, <2>2, AsksTyped
    <3>2. ~(ReadToponyms(t) \/ ValidateNew(t) \/ InsertToponym(t) \/ RereadSelected(t))
      BY DEF ReadToponyms, ValidateNew, InsertToponym, RereadSelected
    <3>3. ~(ReadRepeats(t) \/ Visit(t) \/ ValidateMove(t) \/ DeleteToponym(t)
             \/ DeleteDocument(t) \/ Fail(t))
      BY DEF ReadRepeats, Visit, ValidateMove, DeleteToponym, DeleteDocument, Fail
    <3>4. ~(Link(t) \/ Copy(t) \/ Move(t)) BY <2>2, PlaceUpdates, Moves
    <3>5. QED BY <2>1, <3>1, <3>2, <3>3, <3>4 DEF SenderStep, Asks
  <2>5. QED BY <2>3, <2>4 DEF SetApplied, ParseSound, StoredSpan
<1> HIDE DEF Complete
<1>2. Spec => [][Complete]_vars BY <1>1, ParsesBounded, PTL DEF Spec
<1>3. QED BY <1>2 DEF Complete, ParseComplete

-----------------------------------------------------------------------------
(***************************************************************************)
(* The repeats that a copy has yet to reach, but for rows that others have *)
(* written since the link began.                                           *)
(***************************************************************************)

Pending(t, r) ==
  \/ pc[t] = "copy" /\ r.id = request[t].row.id
  \/ \E s \in repeats[t] : s.id = r.id

CopiesSound(t) ==
  pc[t] \in Copying /\ selected[t].id \notin crossed[t] =>
    /\ \A s \in rows : s.id = selected[t].id => s = selected[t]
    /\ selected[t].place \in Places
    /\ pc[t] = "copy" => /\ request[t].row.id # selected[t].id
                         /\ request[t].row.place = Unlinked
    /\ pc[t] \in {"copy", "visit"} =>
         \A r \in rows : r.id \notin crossed[t] /\ IsUnannotatedRepeat(r, selected[t])
                           => Pending(t, r)

\* What a request writes itself does not count as written by others.
LEMMA OwnCrossed ==
  ASSUME TypeInv, NEW t \in Senders, SenderStep(t), UNCHANGED <<scene, active>>,
         pc[t] # "idle"
  PROVE  crossed'[t] = crossed[t]
<1>1. ASSUME NEW id, Writes(t, id) PROVE crossed'[t] = crossed[t] BY <1>1 DEF Writes
<1>2. CASE Asks(t) BY <1>2, AsksTyped
<1>3. CASE Link(t) \/ Copy(t) BY <1>1, <1>3, PlaceUpdates DEF PlaceSet
<1>4. CASE Move(t) BY <1>1, <1>4, Moves DEF historyVars
<1>5. CASE InsertToponym(t) BY <1>1, <1>5 DEF InsertToponym, historyVars
<1>6. CASE ~(Asks(t) \/ Link(t) \/ Copy(t) \/ Move(t) \/ InsertToponym(t))
  BY <1>6 DEF SenderStep, Asks, ReadToponyms, ValidateNew, SetApplied, RereadSelected,
     ReadRepeats, Visit, ValidateMove, DeleteToponym, DeleteDocument, Fail, Reads, historyVars
<1>7. QED BY <1>2, <1>3, <1>4, <1>5, <1>6

\* What others write is excused, and the rest of the rows are those there were.
LEMMA OthersCopiesSound ==
  ASSUME TypeInv, NEW t \in Senders, SenderStep(t), UNCHANGED <<scene, active>>,
         NEW b \in Senders \ {t}, CopiesSound(b)
  PROVE  CopiesSound(b)'
<1>1. /\ pc'[b] = pc[b] /\ request'[b] = request[b]
      /\ selected'[b] = selected[b] /\ repeats'[b] = repeats[b]
  BY StepTyped DEF Frame
<1>2. CASE pc[b] \notin Copying BY <1>1, <1>2 DEF CopiesSound
<1>3. CASE pc[b] \in Copying
  <2>1. /\ crossed[b] \subseteq crossed'[b]
        /\ \A s \in rows' : s \in rows \/ s.id \in crossed'[b]
    BY <1>3, OthersToldOfWrites DEF Copying
  <2>2. \A r : Pending(b, r)' <=> Pending(b, r) BY <1>1 DEF Pending
  <2>3. QED BY <1>1, <2>1, <2>2 DEF CopiesSound, IsUnannotatedRepeat
<1>4. QED BY <1>2, <1>3

LEMMA OwnCopiesSound ==
  ASSUME TypeInv, NEW t \in Senders, SenderStep(t), UNCHANGED <<scene, active>>,
         CopiesSound(t)
  PROVE  CopiesSound(t)'
<1>a. RowsTyped /\ RequestsTyped /\ RequestHolds(t) BY DEF TypeInv
<1>b. pc[t] # "idle" => crossed'[t] = crossed[t] BY OwnCrossed
<1>1. ASSUME pc'[t] \notin Copying PROVE CopiesSound(t)' BY <1>1 DEF CopiesSound
<1>2. ASSUME NEW how, Finish(t, how) PROVE CopiesSound(t)'
  BY <1>1, <1>2, <1>a DEF Finish, Goto, Copying, RequestsTyped
<1>3. CASE Asks(t) BY <1>1, <1>3, AsksTyped DEF Copying
<1>4. CASE ReadToponyms(t) \/ ValidateNew(t) \/ InsertToponym(t) \/ ValidateMove(t)
  <2>1. \/ \E how : Finish(t, how)
        \/ \E step \in {"apply", "validate", "insert", "move"} : Goto(t, step)
    BY <1>4 DEF ReadToponyms, ValidateNew, InsertToponym, ValidateMove
  <2>2. QED BY <1>1, <1>2, <1>a, <2>1 DEF Goto, RequestsTyped, Copying
<1>5. CASE SetApplied(t) \/ Move(t) \/ DeleteToponym(t) \/ Fail(t)
  <2>1. \E how : Finish(t, how) BY <1>5, Moves DEF SetApplied, DeleteToponym, Fail
  <2>2. QED BY <1>2, <2>1
<1>6. CASE DeleteDocument(t)
  BY <1>1, <1>6 DEF DeleteDocument, requestVars, Copying
<1>7. CASE Link(t)
  <2>1. pc[t] = "link" BY <1>7 DEF Link
  <2>2. (\E how : Finish(t, how)) \/ Goto(t, "reread") BY <2>1, <1>7, PlaceUpdates
  <2>3. QED BY <1>1, <1>2, <1>a, <2>2 DEF Goto, RequestsTyped, Copying
<1>8. CASE RereadSelected(t)
  <2>1. CASE \E how : Finish(t, how) BY <1>2, <2>1
  <2>2. CASE ~(\E how : Finish(t, how))
    <3>1. PICK now \in rows : /\ now.place \in Places /\ Goto(t, "repeats")
                              /\ selected' = [selected EXCEPT ![t] = now]
      BY <1>8, <2>2 DEF RereadSelected, Stored
    <3>2. pc'[t] = "repeats" /\ selected'[t] = now BY <1>a, <3>1 DEF Goto, RequestsTyped
    <3>3. rows' = rows BY <1>8 DEF RereadSelected
    <3>4. \A s \in rows' : s.id = now.id => s = now BY <1>a, <3>1, <3>3 DEF RowsTyped
    <3>5. QED BY <3>1, <3>2, <3>4 DEF CopiesSound
  <2>3. QED BY <2>1, <2>2
<1>9. CASE ReadRepeats(t)
  <2> DEFINE found == {r \in rows : IsUnannotatedRepeat(r, selected[t])}
  <2>1. rows' = rows /\ pc[t] = "repeats" BY <1>9 DEF ReadRepeats
  <2>2. CASE \E how : Finish(t, how) BY <1>2, <2>2
  <2>3. CASE ~(\E how : Finish(t, how))
    <3>1. PICK r \in First(found) :
            /\ request' = [request EXCEPT ![t].row = r]
            /\ repeats' = [repeats EXCEPT ![t] = {s \in rows \ {r} : s.start >= r.start}]
            /\ Goto(t, "copy") /\ UNCHANGED selected
      BY <1>9, <2>3 DEF ReadRepeats
    <3>2. request[t] \in LinkRequest BY <1>a, <2>1 DEF RequestHolds, Linking, Copying
    <3>3. /\ pc'[t] = "copy" /\ request'[t].row = r
          /\ repeats'[t] = {s \in rows \ {r} : s.start >= r.start}
      BY <1>a, <3>1, <3>2 DEF Goto, RequestsTyped, LinkRequest
    <3>4. r \in found /\ \A s \in found : r.start <= s.start BY DEF First
    <3>5. r.id # selected[t].id /\ r.place = Unlinked BY <3>4 DEF IsUnannotatedRepeat
    <3>6. ASSUME NEW s \in rows, IsUnannotatedRepeat(s, selected[t])
          PROVE  Pending(t, s)'
      <4>1. r.start <= s.start /\ s \in Row /\ r \in Row BY <1>a, <3>4, <3>6 DEF RowsTyped
      <4>2. s.start >= r.start BY <4>1 DEF Row
      <4>3. QED BY <3>3, <4>2 DEF Pending
    <3>7. \A s \in rows' : IsUnannotatedRepeat(s, selected'[t]) => Pending(t, s)'
      BY <2>1, <3>1, <3>6
    <3>8. crossed'[t] = crossed[t] /\ selected'[t] = selected[t] BY <1>b, <2>1, <3>1
    <3>9. QED BY <2>1, <3>3, <3>5, <3>7, <3>8 DEF CopiesSound, IsUnannotatedRepeat, Copying
  <2>4. QED BY <2>2, <2>3
<1>10. CASE Copy(t)
  <2> DEFINE own == request[t].row
             from == selected[t]
  <2>1. pc[t] = "copy" BY <1>10 DEF Copy
  <2>2. CASE \E how : Finish(t, how) BY <1>2, <2>2
  <2>3. CASE ~(\E how : Finish(t, how)) /\ from.id \notin crossed[t]
    <3>1. /\ PlaceSet(t, own, from.place) /\ Goto(t, "visit")
          /\ UNCHANGED <<request, selected, repeats>>
      BY <1>10, <2>1, <2>3, PlaceUpdates DEF AfterCopy
    <3>2. pc'[t] = "visit" BY <1>a, <3>1 DEF Goto, RequestsTyped
    <3>3. /\ from.place \in Places /\ own.id # from.id /\ own.place = Unlinked
          /\ \A s \in rows : s.id = from.id => s = from
      BY <2>1, <2>3 DEF CopiesSound, Copying
    <3>4. crossed'[t] = crossed[t] BY <1>b, <2>1
    <3> HIDE DEF own, from
    <3>5. Relinks(t)
      BY <2>1, <3>1, <3>3, PlacesAssumption DEF PlaceSet, PlacedRows, Relinks, own, from
    <3>6. ASSUME NEW s \in rows' PROVE s.id = from.id => s = from
      BY <2>1, <3>3, <3>5, WrittenRows DEF own, from
    <3>7. ASSUME NEW s \in rows', s.id \notin crossed[t], IsUnannotatedRepeat(s, from)
          PROVE  \E x \in repeats[t] : x.id = s.id
      <4>1. PICK r \in rows : /\ r.id = s.id
                              /\ r.id # own.id => s = r
                              /\ r.id = own.id => s.place = from.place
        BY <2>1, <3>5, WrittenRows DEF own, from
      <4>2. s = r /\ r.id # own.id
        BY <3>3, <3>7, <4>1, PlacesAssumption DEF IsUnannotatedRepeat
      <4>3. Pending(t, s) BY <2>1, <2>3, <3>7, <4>2 DEF CopiesSound, Copying, from
      <4>4. QED BY <4>2, <4>3 DEF Pending, own
    <3>8. \A s \in rows' : s.id \notin crossed[t] /\ IsUnannotatedRepeat(s, from)
                             => Pending(t, s)'
      BY <3>1, <3>7 DEF Pending
    <3>9. QED
      BY <3>1, <3>2, <3>3, <3>4, <3>6, <3>8 DEF CopiesSound, IsUnannotatedRepeat, from
  <2>4. CASE ~(\E how : Finish(t, how)) /\ from.id \in crossed[t]
    <3>1. UNCHANGED selected BY <1>10, <2>1, <2>4, PlaceUpdates DEF AfterCopy
    <3>2. QED BY <1>b, <2>1, <2>4, <3>1 DEF CopiesSound
  <2>5. QED BY <2>2, <2>3, <2>4
<1>11. CASE Visit(t)
  <2>1. rows' = rows /\ pc[t] = "visit" BY <1>11 DEF Visit
  <2>2. CASE \E how : Finish(t, how) BY <1>2, <2>2
  <2>3. CASE ~(\E how : Finish(t, how))
    <3>1. PICK r \in First(repeats[t]) : \E now \in Stored(r.id), s \in Stored(selected[t].id) :
              /\ repeats' = [repeats EXCEPT ![t] = repeats[t] \ {r}]
              /\ \/ /\ IsUnannotatedRepeat(now, s)
                    /\ request' = [request EXCEPT ![t].row = now]
                    /\ selected' = [selected EXCEPT ![t] = s]
                    /\ Goto(t, "copy")
                 \/ /\ ~IsUnannotatedRepeat(now, s)
                    /\ UNCHANGED <<pc, request, selected>>
      BY <1>11, <2>3 DEF Visit
    <3>2. PICK now \in Stored(r.id), s \in Stored(selected[t].id) :
              /\ repeats' = [repeats EXCEPT ![t] = repeats[t] \ {r}]
              /\ \/ /\ IsUnannotatedRepeat(now, s)
                    /\ request' = [request EXCEPT ![t].row = now]
                    /\ selected' = [selected EXCEPT ![t] = s]
                    /\ Goto(t, "copy")
                 \/ /\ ~IsUnannotatedRepeat(now, s)
                    /\ UNCHANGED <<pc, request, selected>>
      BY <3>1
    <3>3. /\ now \in rows /\ now.id = r.id /\ s \in rows /\ s.id = selected[t].id
      BY DEF Stored
    <3>4. \A x \in rows : x.id = now.id => x = now BY <1>a, <3>3 DEF RowsTyped
    <3>5. repeats'[t] = repeats[t] \ {r} /\ crossed'[t] = crossed[t]
      BY <1>a, <1>b, <2>1, <3>2 DEF RequestsTyped
    <3>6. selected'[t].id = selected[t].id BY <1>a, <3>2, <3>3 DEF RequestsTyped
    <3>7. CASE selected[t].id \in crossed[t] BY <3>5, <3>6, <3>7 DEF CopiesSound
    <3>8. CASE selected[t].id \notin crossed[t]
      <4>1. /\ s = selected[t] /\ selected[t].place \in Places
            /\ \A x \in rows : x.id = selected[t].id => x = selected[t]
        BY <2>1, <3>3, <3>8 DEF CopiesSound, Copying
      <4>2. ASSUME NEW x \in rows, x.id \notin crossed[t],
                   IsUnannotatedRepeat(x, selected[t])
            PROVE  x = now \/ \E y \in repeats'[t] : y.id = x.id
        <5>1. Pending(t, x) BY <2>1, <3>8, <4>2 DEF CopiesSound, Copying
        <5>2. PICK y \in repeats[t] : y.id = x.id BY <2>1, <5>1 DEF Pending
        <5>3. QED BY <3>3, <3>4, <3>5, <5>2
      <4>3. CASE /\ IsUnannotatedRepeat(now, s)
                 /\ request' = [request EXCEPT ![t].row = now]
                 /\ selected' = [selected EXCEPT ![t] = s]
                 /\ Goto(t, "copy")
        <5>1. request[t] \in LinkRequest BY <1>a, <2>1 DEF RequestHolds, Linking, Copying
        <5>2. pc'[t] = "copy" /\ request'[t].row = now /\ selected'[t] = selected[t]
          BY <1>a, <4>1, <4>3, <5>1 DEF Goto, RequestsTyped, LinkRequest
        <5>3. now.id # selected[t].id /\ now.place = Unlinked
          BY <4>1, <4>3 DEF IsUnannotatedRepeat
        <5>4. \A x \in rows : x.id \notin crossed[t] /\ IsUnannotatedRepeat(x, selected[t])
                                => Pending(t, x)'
          BY <4>2, <5>2 DEF Pending
        <5>5. QED BY <2>1, <3>5, <4>1, <5>2, <5>3, <5>4 DEF CopiesSound, IsUnannotatedRepeat
      <4>4. CASE ~IsUnannotatedRepeat(now, s) /\ UNCHANGED <<pc, request, selected>>
        <5>1. \A x \in rows : x.id \notin crossed[t] /\ IsUnannotatedRepeat(x, selected[t])
                                => Pending(t, x)'
          BY <4>1, <4>2, <4>4 DEF Pending
        <5>2. QED BY <2>1, <3>5, <4>1, <4>4, <5>1 DEF CopiesSound, IsUnannotatedRepeat
      <4>5. QED BY <3>2, <4>3, <4>4
    <3>9. QED BY <3>7, <3>8
  <2>4. QED BY <2>2, <2>3
<1>12. QED
  BY <1>3, <1>4, <1>5, <1>6, <1>7, <1>8, <1>9, <1>10, <1>11 DEF SenderStep, Asks

CopiesInv == \A t \in Senders : CopiesSound(t)

LEMMA CopiesBounded == Spec => [](TypeInv /\ CopiesInv)
<1>1. Init => CopiesInv BY DEF Init, CopiesInv, CopiesSound, Copying
<1>2. TypeInv /\ CopiesInv /\ [Next]_vars => CopiesInv'
  <2> SUFFICES ASSUME TypeInv, CopiesInv, [Next]_vars PROVE CopiesInv'
    OBVIOUS
  <2>1. ASSUME NEW t \in active, SenderStep(t), UNCHANGED <<scene, active>> PROVE CopiesInv'
    <3>1. t \in Senders BY DEF TypeInv, RowsTyped
    <3>2. CopiesSound(t)' BY <2>1, <3>1, OwnCopiesSound DEF CopiesInv
    <3>3. \A b \in Senders \ {t} : CopiesSound(b)'
      BY <2>1, <3>1, OthersCopiesSound DEF CopiesInv
    <3>4. \A b \in Senders : CopiesSound(b)' BY <3>2, <3>3
    <3>5. QED BY <3>4 DEF CopiesInv
  <2>2. CASE UNCHANGED vars
    <3>1. UNCHANGED <<rows, pc, request, selected, repeats, crossed>> BY <2>2, Stutters
    <3>2. QED BY <3>1 DEF CopiesInv, CopiesSound, Pending
  <2>3. QED BY <2>1, <2>2 DEF Next
<1>3. Spec => []TypeInv
  <2>1. Spec => [](TypeInv /\ RaceInv) BY RacesBounded
  <2>2. QED BY <2>1, PTL
<1>4. QED BY <1>1, <1>2, <1>3, PTL DEF Spec

\* A link that succeeds reaches every repeat of the name that no other request wrote:
\* whatever order the list is read in, a repeat is in it or is written before the end.
THEOREM OneSenseAlwaysCompletes == Spec => OneSenseCompletes
<1> DEFINE Completes == \A t \in Senders :
             /\ selected[t] # None /\ pc'[t] = "idle" /\ outcome'[t] = "ok"
             /\ selected[t].id \notin crossed[t]
             => \A r \in rows' : r.text = selected[t].text /\ r.id \notin crossed[t]
                                    => r.place # Unlinked
<1>1. TypeInv /\ CopiesInv /\ [Next]_vars => [Completes]_vars
  <2> SUFFICES ASSUME TypeInv, CopiesInv, Next, NEW t \in Senders,
                      selected[t] # None, pc'[t] = "idle", outcome'[t] = "ok",
                      selected[t].id \notin crossed[t],
                      NEW r \in rows', r.text = selected[t].text, r.id \notin crossed[t],
                      r.place = Unlinked
               PROVE  FALSE
    OBVIOUS
  <2>1. PICK b \in active : SenderStep(b) /\ UNCHANGED <<scene, active>> BY DEF Next
  <2>2. b \in Senders BY DEF TypeInv, RowsTyped
  <2>3. pc[t] \in Copying BY DEF TypeInv, RequestHolds
  <2>4. t = b BY <2>1, <2>2, <2>3, StepTyped DEF Frame, Copying
  <2>5. SenderStep(t) /\ CopiesSound(t) BY <2>1, <2>4 DEF CopiesInv
  <2>6. RowsTyped /\ RequestsTyped BY DEF TypeInv
  <2>7. /\ selected[t].place \in Places
        /\ \A s \in rows : s.id = selected[t].id => s = selected[t]
    BY <2>3, <2>5 DEF CopiesSound
  <2>8. ReadRepeats(t) \/ Copy(t) \/ Visit(t)
    <3>1. ~Fail(t) BY <2>6 DEF Fail, Finish, RequestsTyped
    <3>2. ~Asks(t) BY <2>3, AsksTyped, <2>1, <2>4 DEF Copying
    <3>3. ~(ReadToponyms(t) \/ ValidateNew(t) \/ InsertToponym(t) \/ SetApplied(t)
             \/ RereadSelected(t))
      BY <2>3 DEF Copying, ReadToponyms, ValidateNew, InsertToponym, SetApplied, RereadSelected
    <3>4. ~(Link(t) \/ ValidateMove(t) \/ Move(t) \/ DeleteToponym(t) \/ DeleteDocument(t))
      BY <2>3 DEF Copying, Link, ValidateMove, Move, DeleteToponym, DeleteDocument
    <3>5. QED BY <2>5, <3>1, <3>2, <3>3, <3>4 DEF SenderStep, Asks
  <2>9. CASE ReadRepeats(t)
    <3>1. rows' = rows /\ pc[t] = "repeats" BY <2>9 DEF ReadRepeats
    <3>2. ~Goto(t, "copy") BY <2>6 DEF Goto, RequestsTyped
    <3>3. ~IsUnannotatedRepeat(r, selected[t]) BY <2>9, <3>1, <3>2 DEF ReadRepeats
    <3>4. r.id # selected[t].id BY <2>7, <3>1, PlacesAssumption
    <3>5. QED BY <3>3, <3>4 DEF IsUnannotatedRepeat
  <2>10. CASE Copy(t)
    <3> DEFINE own == request[t].row
               from == selected[t]
    <3>1. pc[t] = "copy" BY <2>10 DEF Copy
    <3>2. ~Finish(t, "error") BY <2>6 DEF Finish, RequestsTyped
    <3>3. PlaceSet(t, own, from.place) /\ AfterCopy(t) BY <2>10, <3>1, <3>2, PlaceUpdates
    <3>4. repeats[t] = {}
      <4>1. ~Goto(t, "visit") BY <2>6 DEF Goto, RequestsTyped
      <4>2. QED BY <3>3, <4>1 DEF AfterCopy
    <3>5. own.id # from.id /\ own.place = Unlinked BY <2>3, <2>5, <3>1 DEF CopiesSound
    <3> HIDE DEF own, from
    <3>6. Relinks(t)
      BY <2>7, <3>1, <3>3, <3>5, PlacesAssumption
         DEF PlaceSet, PlacedRows, Relinks, own, from
    <3>7. PICK s \in rows : /\ s.id = r.id
                            /\ s.id # own.id => r = s
                            /\ s.id = own.id => r.place = from.place
      BY <3>1, <3>6, WrittenRows DEF own, from
    <3>8. r = s /\ s.id # own.id BY <2>7, <3>7, PlacesAssumption DEF from
    <3>9. r.id # from.id BY <2>7, <3>7, <3>8, PlacesAssumption DEF from
    <3>10. IsUnannotatedRepeat(s, from) BY <3>8, <3>9 DEF IsUnannotatedRepeat, from
    <3>11. Pending(t, s) BY <2>3, <2>5, <3>1, <3>8, <3>10 DEF CopiesSound, from
    <3>12. QED BY <3>4, <3>8, <3>11 DEF Pending, own
  <2>11. CASE Visit(t)
    <3>1. rows' = rows /\ pc[t] = "visit" BY <2>11 DEF Visit
    <3>2. ~Finish(t, "error") /\ ~Goto(t, "copy") /\ ~UNCHANGED pc
      BY <2>6, <3>1 DEF Finish, Goto, RequestsTyped
    <3>3. PICK x \in First(repeats[t]) :
            \E now \in Stored(x.id), s \in Stored(selected[t].id) :
              ~IsUnannotatedRepeat(now, s) /\ repeats[t] = {x}
      BY <2>11, <3>2 DEF Visit
    <3>4. PICK now \in Stored(x.id), s \in Stored(selected[t].id) :
            ~IsUnannotatedRepeat(now, s) /\ repeats[t] = {x}
      BY <3>3
    <3>5. now \in rows /\ now.id = x.id /\ s = selected[t] BY <2>7 DEF Stored
    <3>6. r.id # selected[t].id BY <2>7, <3>1, PlacesAssumption
    <3>7. IsUnannotatedRepeat(r, selected[t]) BY <3>6 DEF IsUnannotatedRepeat
    <3>8. Pending(t, r) BY <2>3, <2>5, <3>1, <3>7 DEF CopiesSound
    <3>9. r.id = x.id BY <3>1, <3>4, <3>8 DEF Pending
    <3>10. r = now BY <2>6, <3>1, <3>5, <3>9 DEF RowsTyped
    <3>11. QED BY <3>4, <3>5, <3>7, <3>10
  <2>12. QED BY <2>8, <2>9, <2>10, <2>11
<1> HIDE DEF Completes
<1>2. Spec => [][Completes]_vars BY <1>1, CopiesBounded, PTL DEF Spec
<1>3. QED BY <1>2 DEF Completes, OneSenseCompletes
=============================================================================
