------------------------- MODULE AnnotatorDocuments -------------------------
(***************************************************************************)
(* The documents of one annotator session.  Each row stores its place in   *)
(* the session, doc_index.  An upload reads the highest index before it    *)
(* inserts above it; a removal deletes its row in one transaction and      *)
(* renumbers the rows that are left in another, from a list read between   *)
(* the two.  Requests run in a pool of threads with a database session     *)
(* each, so the steps of two requests interleave, and a request may fail   *)
(* between any two of its steps (the server stops, the database is         *)
(* locked).                                                                *)
(*                                                                         *)
(* A request names a document by its position in the sorted list.  The     *)
(* page it comes from shows stored indices, as of when it was loaded.      *)
(*                                                                         *)
(* A session may also come whole from a JSON file: one that the user sends *)
(* gets a new identifier, one that an older version left on the server     *)
(* keeps its own and is removed once it is stored.  The page that lists    *)
(* the sessions asks for that import whenever it is loaded.  The session,  *)
(* its settings, each document and its toponyms are one commit each.       *)
(***************************************************************************)
EXTENDS Naturals, Integers, FiniteSets, Sequences

CONSTANTS
  Tabs,      \* browser tabs, each with one request at a time
  Docs,      \* documents that may be uploaded
  Uploads,   \* what is uploaded: sequences of documents
  Imports,   \* the rows that one import after the other makes of a JSON file
  Scenes,    \* which of them there are in a run of the system
  Failures,  \* whether requests may fail half way
  None

ASSUME UploadsAssumption ==
  /\ Uploads \cup Imports \subseteq Seq(Docs) \ {<<>>}
  /\ \A u, v \in Uploads \cup Imports : \A i \in DOMAIN u, j \in DOMAIN v :
       u[i] = v[j] => u = v /\ i = j
ASSUME ImportsAssumption ==
  /\ Imports \cap Uploads = {}
  /\ \A u, v \in Imports : DOMAIN u = DOMAIN v
ASSUME ScenesAssumption == Scenes \subseteq SUBSET (Uploads \cup Imports)
ASSUME FailuresAssumption == Failures \in BOOLEAN

VARIABLES
  session,    \* "absent", "live" or "gone"
  index,      \* doc_index of every stored document
  annotated,  \* imported documents whose toponyms are stored
  legacy,     \* the JSON file on the server: "none", "kept" or "removed"
  unsent,     \* uploads still to come
  seen,       \* the document a tab shows, and the index it shows for it
  pc,         \* the step each tab's request is at
  kind,       \* what the documents a request stores come from
  files,      \* the files an upload has still to store
  highest,    \* the highest index an upload has read
  target,     \* the document a removal deletes
  plan,       \* the new indices a removal is about to write
  overtaken,  \* history: requests whose reading is out of date
  disorder,   \* history: an overtaken or failed request has left its mark
  raced,      \* history: an overtaken request has ever written
  dropped,    \* history: imported documents that the user deleted
  severed     \* history: the session was deleted during an import

requestVars == <<pc, kind, files, highest, target, plan>>
legacyVars == <<annotated, legacy, dropped, severed>>
historyVars == <<overtaken, disorder, raced>>
vars == <<session, index, unsent, seen, requestVars, historyVars, legacyVars>>

Rows == DOMAIN index

TypeOK ==
  /\ session \in {"absent", "live", "gone"}
  /\ Rows \subseteq Docs /\ \A d \in Rows : index[d] \in Nat
  /\ annotated \subseteq Docs
  /\ legacy \in {"none", "kept", "removed"}
  /\ unsent \subseteq Uploads \cup Imports
  /\ kind \in [Tabs -> {"text", "json", "legacy"}]
  /\ \A t \in Tabs : seen[t] = None \/ seen[t] \in [document : Docs, index : Nat]
  /\ pc \in [Tabs -> {"idle", "session", "settings", "highest", "insert", "refresh",
                      "toponyms", "stored", "unlink", "delete", "reindex", "renumber"}]
  /\ highest \in [Tabs -> Nat \cup {-1}]
  /\ overtaken \subseteq Tabs
  /\ severed \in BOOLEAN

Init ==
  /\ session = "absent"
  /\ index = [d \in {} |-> 0]
  /\ annotated = {}
  /\ unsent \in Scenes
  /\ legacy \in IF unsent \cap Imports = {} THEN {"none"} ELSE {"none", "kept"}
  /\ seen = [t \in Tabs |-> None]
  /\ pc = [t \in Tabs |-> "idle"]
  /\ kind = [t \in Tabs |-> "text"]
  /\ files = [t \in Tabs |-> <<>>]
  /\ highest = [t \in Tabs |-> -1]
  /\ target = [t \in Tabs |-> None]
  /\ plan = [t \in Tabs |-> [d \in {} |-> 0]]
  /\ overtaken = {}
  /\ disorder = FALSE
  /\ raced = FALSE
  /\ dropped = {}
  /\ severed = FALSE

Goto(t, step) == pc' = [pc EXCEPT ![t] = step]

\* The request is over, and its database session with it.
Finish(t) ==
  /\ Goto(t, "idle")
  /\ kind' = [kind EXCEPT ![t] = "text"]
  /\ files' = [files EXCEPT ![t] = <<>>]
  /\ highest' = [highest EXCEPT ![t] = -1]
  /\ target' = [target EXCEPT ![t] = None]
  /\ plan' = [plan EXCEPT ![t] = [d \in {} |-> 0]]

\* A commit that changes a row puts the reading of the others out of date.
Overtakes(t) ==
  overtaken' = (overtaken \cup {b \in Tabs \ {t} : pc[b] \in {"insert", "renumber"}}) \ {t}

\* ORDER BY doc_index leaves the order of equal indices open.
Orders ==
  {rank \in [Rows -> 0 .. Cardinality(Rows) - 1] :
     \A d, e \in Rows : d # e =>
       rank[d] # rank[e] /\ (index[d] < index[e] => rank[d] < rank[e])}

-----------------------------------------------------------------------------
(***************************************************************************)
(* Uploads.                                                                *)
(***************************************************************************)

\* A new session is created with its first files.
CreateSession(t, u) ==
  /\ pc[t] = "idle"
  /\ session = "absent"
  /\ legacy = "none"
  /\ u \in unsent
  /\ session' = "live"
  /\ unsent' = unsent \ {u}
  /\ files' = [files EXCEPT ![t] = u]
  /\ Goto(t, "highest")
  /\ UNCHANGED <<index, seen, kind, highest, target, plan, historyVars, legacyVars>>

\* The page is left for the upload and loaded again after it.
AddDocuments(t, u) ==
  /\ pc[t] = "idle"
  /\ session = "live"
  /\ u \in unsent
  /\ unsent' = unsent \ {u}
  /\ files' = [files EXCEPT ![t] = u]
  /\ seen' = [seen EXCEPT ![t] = None]
  /\ Goto(t, "highest")
  /\ UNCHANGED <<session, index, kind, highest, target, plan, historyVars, legacyVars>>

\* Mutant: an empty session is taken to have a document already.
HighestOrZero ==
  IF Rows = {} THEN 0
  ELSE CHOOSE h \in {index[d] : d \in Rows} : \A d \in Rows : index[d] <= h

\* Mutant: the number of documents stands for the highest index.
LastPosition == Cardinality(Rows) - 1

\* Mutant: an empty session has no highest index.
HighestOrNone ==
  IF Rows = {} THEN None
  ELSE CHOOSE h \in {index[d] : d \in Rows} : \A d \in Rows : index[d] <= h

Highest ==
  IF Rows = {} THEN -1
  ELSE CHOOSE h \in {index[d] : d \in Rows} : \A d \in Rows : index[d] <= h

\* An import reads its session again before each document (session.py:58).
ReadHighest(t) ==
  /\ pc[t] = "highest"
  /\ IF kind[t] # "text" /\ session # "live"
       THEN Finish(t)
       ELSE /\ highest' = [highest EXCEPT ![t] = Highest]
            /\ Goto(t, "insert")
            /\ UNCHANGED <<kind, files, target, plan>>
  /\ UNCHANGED <<session, index, unsent, seen, historyVars, legacyVars>>

\* The foreign key refuses a document of a session that is gone.
InsertDocument(t) ==
  /\ pc[t] = "insert"
  /\ IF session = "live"
       THEN /\ index' = [d \in Rows \cup {Head(files[t])} |->
                          IF d = Head(files[t]) THEN highest[t] + 1 ELSE index[d]]
            /\ Overtakes(t)
            /\ disorder' = (disorder \/ t \in overtaken)
            /\ raced' = (raced \/ t \in overtaken)
            /\ highest' = [highest EXCEPT ![t] = -1]
            /\ Goto(t, "refresh")
            /\ UNCHANGED <<kind, files, target, plan>>
       ELSE /\ Finish(t)
            /\ overtaken' = overtaken \ {t}
            /\ UNCHANGED <<index, disorder, raced>>
  /\ UNCHANGED <<session, unsent, seen, legacyVars>>

\* After a document the next file is stored, or an import looks for its session.
NextFile(t) ==
  /\ files' = [files EXCEPT ![t] = Tail(@)]
  /\ Goto(t, IF Tail(files[t]) # <<>> THEN "highest" ELSE "stored")
  /\ UNCHANGED <<kind, highest, target, plan>>

\* The inserted row is read again; if it is gone, the files left are not stored.
RefreshDocument(t) ==
  /\ pc[t] = "refresh"
  /\ IF Head(files[t]) \notin Rows THEN Finish(t)
     ELSE IF kind[t] # "text"
       THEN Goto(t, "toponyms") /\ UNCHANGED <<kind, files, highest, target, plan>>
     ELSE IF Tail(files[t]) = <<>> THEN Finish(t)
     ELSE NextFile(t)
  /\ UNCHANGED <<session, index, unsent, seen, historyVars, legacyVars>>

-----------------------------------------------------------------------------
(***************************************************************************)
(* Imports.                                                                *)
(***************************************************************************)

\* Mutant: a session that is there already is filled up.
AcceptsAny(t) == TRUE

\* The primary key refuses a second session of the identifier a file keeps.  A file
\* that a user sends makes a session of its own: this one if it is the first.
Accepts(t) == IF kind[t] = "legacy" THEN session # "live" ELSE session = "absent"

\* The page of sessions is loaded, or a file is sent to it.
StartImport(t, u) ==
  /\ pc[t] = "idle"
  /\ u \in unsent
  /\ \/ legacy = "kept" /\ kind' = [kind EXCEPT ![t] = "legacy"]
     \/ legacy = "none" /\ session = "absent" /\ kind' = [kind EXCEPT ![t] = "json"]
  /\ unsent' = unsent \ {u}
  /\ files' = [files EXCEPT ![t] = u]
  /\ seen' = [seen EXCEPT ![t] = None]
  /\ Goto(t, "session")
  /\ UNCHANGED <<session, index, highest, target, plan, historyVars, legacyVars>>

InsertSession(t) ==
  /\ pc[t] = "session"
  /\ IF Accepts(t)
       THEN /\ session' = "live"
            /\ Goto(t, "settings")
            /\ UNCHANGED <<kind, files, highest, target, plan>>
       ELSE Finish(t) /\ UNCHANGED session
  /\ UNCHANGED <<index, unsent, seen, historyVars, legacyVars>>

\* The foreign key refuses settings of a session that is gone.
InsertSettings(t) ==
  /\ pc[t] = "settings"
  /\ IF session = "live"
       THEN Goto(t, "highest") /\ UNCHANGED <<kind, files, highest, target, plan>>
       ELSE Finish(t)
  /\ UNCHANGED <<session, index, unsent, seen, historyVars, legacyVars>>

InsertToponyms(t) ==
  /\ pc[t] = "toponyms"
  /\ IF Head(files[t]) \in Rows
       THEN annotated' = annotated \cup {Head(files[t])} /\ NextFile(t)
       ELSE Finish(t) /\ UNCHANGED annotated
  /\ UNCHANGED <<session, index, unsent, seen, historyVars, legacy, dropped, severed>>

\* The session is read a last time; the file a user sent is no more needed.
RefreshSession(t) ==
  /\ pc[t] = "stored"
  /\ IF session = "live" /\ kind[t] = "legacy"
       THEN Goto(t, "unlink") /\ UNCHANGED <<kind, files, highest, target, plan>>
       ELSE Finish(t)
  /\ UNCHANGED <<session, index, unsent, seen, historyVars, legacyVars>>

\* Removing a file that is gone fails, with nothing left to do.
Unlink(t) ==
  /\ pc[t] = "unlink"
  /\ legacy' = "removed"
  /\ Finish(t)
  /\ UNCHANGED <<session, index, unsent, seen, historyVars, annotated, dropped, severed>>

-----------------------------------------------------------------------------
(***************************************************************************)
(* Removals.                                                               *)
(***************************************************************************)

\* The page is loaded, and the user looks at one of its documents.
LoadPage(t) ==
  /\ pc[t] = "idle"
  /\ \E d \in Rows :
       seen' = [seen EXCEPT ![t] = [document |-> d, index |-> index[d]]]
  /\ UNCHANGED <<session, index, unsent, requestVars, historyVars, legacyVars>>

\* The remove button sends the index shown; get_document takes it as a position.
RemoveDocument(t) ==
  /\ pc[t] = "idle"
  /\ seen[t] # None
  /\ \E rank \in Orders : \E d \in Rows :
       /\ rank[d] = seen[t].index
       /\ target' = [target EXCEPT ![t] = d]
  /\ Goto(t, "delete")
  /\ UNCHANGED <<session, index, unsent, seen, kind, files, highest, plan, historyVars, legacyVars>>

Imported == UNION {{u[i] : i \in DOMAIN u} : u \in Imports}

\* Deleting a row that is gone is no error.
DeleteRow(t) ==
  /\ pc[t] = "delete"
  /\ index' = [d \in Rows \ {target[t]} |-> index[d]]
  /\ IF target[t] \in Rows THEN Overtakes(t) ELSE UNCHANGED overtaken
  /\ dropped' = dropped \cup ({target[t]} \cap Rows \cap Imported)
  /\ annotated' = annotated \ {target[t]}
  /\ Goto(t, "reindex")
  /\ UNCHANGED <<session, unsent, seen, kind, files, highest, target, plan, disorder, raced,
                 legacy, severed>>

\* Only the indices that change are written.
Changes(rank) == [d \in {e \in Rows : rank[e] # index[e]} |-> rank[d]]

ReadIndices(t) ==
  /\ pc[t] = "reindex"
  /\ \E rank \in Orders : plan' = [plan EXCEPT ![t] = Changes(rank)]
  /\ Goto(t, "renumber")
  /\ UNCHANGED <<session, index, unsent, seen, kind, files, highest, target, historyVars,
                 legacyVars>>

\* One transaction; it fails as a whole when a row to update is gone.
Renumber(t) ==
  LET changed == DOMAIN plan[t] IN
  /\ pc[t] = "renumber"
  /\ IF changed \subseteq Rows
       THEN /\ index' = [d \in Rows |-> IF d \in changed THEN plan[t][d] ELSE index[d]]
            /\ seen' = [seen EXCEPT ![t] = None]
            /\ IF changed # {} THEN Overtakes(t) ELSE overtaken' = overtaken \ {t}
            /\ disorder' = (t \in overtaken)
            /\ raced' = (raced \/ t \in overtaken)
       ELSE /\ overtaken' = overtaken \ {t}
            /\ disorder' = TRUE
            /\ UNCHANGED <<index, seen, raced>>
  /\ Finish(t)
  /\ UNCHANGED <<session, unsent, legacyVars>>

\* The database deletes the documents with their session.
DeleteSession(t) ==
  /\ pc[t] = "idle"
  /\ session = "live"
  /\ session' = "gone"
  /\ index' = [d \in {} |-> 0]
  /\ Overtakes(t)
  /\ dropped' = dropped \cup (Rows \cap Imported)
  /\ annotated' = {}
  /\ severed' = (severed \/ \E b \in Tabs : kind[b] = "legacy")
  /\ UNCHANGED <<unsent, seen, requestVars, disorder, raced, legacy>>

\* The request ends here: the server stops, or a statement fails.
Fail(t) ==
  /\ Failures
  /\ pc[t] # "idle"
  /\ Finish(t)
  /\ overtaken' = overtaken \ {t}
  /\ disorder' = (disorder \/ pc[t] \in {"reindex", "renumber"})
  /\ UNCHANGED <<session, index, unsent, seen, raced, legacyVars>>

-----------------------------------------------------------------------------
Next ==
  \E t \in Tabs :
    \/ \E u \in Uploads : CreateSession(t, u)
    \/ \E u \in Uploads : AddDocuments(t, u)
    \/ ReadHighest(t)
    \/ InsertDocument(t)
    \/ RefreshDocument(t)
    \/ \E u \in Imports : StartImport(t, u)
    \/ InsertSession(t)
    \/ InsertSettings(t)
    \/ InsertToponyms(t)
    \/ RefreshSession(t)
    \/ Unlink(t)
    \/ LoadPage(t)
    \/ RemoveDocument(t)
    \/ DeleteRow(t)
    \/ ReadIndices(t)
    \/ Renumber(t)
    \/ DeleteSession(t)
    \/ Fail(t)

Spec == Init /\ [][Next]_vars

-----------------------------------------------------------------------------
(***************************************************************************)
(* Properties.                                                             *)
(***************************************************************************)

Dense == {index[d] : d \in Rows} = 0 .. Cardinality(Rows) - 1

Renumbering == \E t \in Tabs : pc[t] \in {"reindex", "renumber"}

\* The stored indices are the positions whenever no removal is under way,
\* unless a request was overtaken between its read and its write or cut off
\* before the renumbering; and the next removal that nothing overtakes repairs
\* them (_reindex_documents).
OrderlyIndices == ~disorder /\ ~Renumbering => Dense

Whole(d) == d \in Rows /\ d \in annotated

\* A session that an older version left on the server comes in once and whole,
\* however often the import is cut off, repeated or run twice at a time
\* (sessions.py:50-60).  When its file is removed, each of its documents is
\* stored with its toponyms unless the user has deleted it since; and no document
\* is stored twice, unless the session was deleted during an import.
LegacyImportedOnce ==
  /\ legacy = "removed" =>
       \A i \in UNION {DOMAIN u : u \in Imports} :
         \E u \in Imports : u[i] \in dropped \/ Whole(u[i])
  /\ ~severed =>
       \A u, v \in Imports : \A i \in DOMAIN u : u # v => ~({u[i], v[i]} \subseteq Rows)

\* The document removed is the one whose button was pressed
\* (annotate.js:1179-1183).
RemovesIntended ==
  \A t \in Tabs :
    pc[t] = "delete" /\ target[t] \in Rows => target[t] = seen[t].document

\* As long as no request was overtaken, whether or not some have failed, the
\* indices keep the documents in the order of their uploads: a new document comes
\* after those there are, and no renumbering swaps two.
OrderKept ==
  [][~raced' =>
       /\ \A d, e \in Rows \cap Rows' : index[d] < index[e] => index'[d] < index'[e]
       /\ \A d \in Rows \cap Rows', e \in Rows' \ Rows : index'[d] < index'[e]]_vars
=============================================================================
