----------------------------- MODULE Gazetteers -----------------------------
(***************************************************************************)
(* One gazetteer: the processes that build and install it, and a process   *)
(* whose threads read it.                                                  *)
(*                                                                         *)
(* A builder writes its artifact in the build directory of the gazetteer   *)
(* and moves it into place at the end.  Two builders share that directory, *)
(* and each removes it when it begins and when it ends; nothing locks it.  *)
(* A file that is removed or replaced lives on for those who hold it open. *)
(*                                                                         *)
(* Readers go through get_gazetteer, which keeps one Gazetteer per stamp   *)
(* of the installed file.  A Gazetteer holds a connection per thread, each *)
(* opened by path when that thread first needs it.                         *)
(*                                                                         *)
(* A file is named by the build that created it, and so is its stamp: an   *)
(* inode and a time in nanoseconds are not met twice.                      *)
(***************************************************************************)
EXTENDS Naturals, FiniteSets, Sequences

CONSTANTS
  Builders,    \* processes that install the gazetteer
  Threads,     \* threads of the reading process
  MaxBuilds,   \* bound: artifact files created
  MaxOpened,   \* bound: Gazetteer objects created
  None

ASSUME BoundsAssumption == MaxBuilds \in Nat /\ MaxOpened \in Nat /\ None \notin Nat

Artifacts == 1 .. MaxBuilds

VARIABLES
  installed,   \* the artifact at the installed path
  whole,       \* the artifacts that are finished
  buildDir,    \* whether the build directory exists
  temp,        \* the artifact in the build directory
  step,        \* the step of each builder
  own,         \* the artifact each builder has open
  built,       \* artifacts created
  open,        \* the cache _OPEN: a stamp and an object
  opened,      \* the connections of every object: thread -> artifact
  pc,          \* the step of each thread
  stamp,       \* the stamp a call has read
  using,       \* the object a call goes on with
  answer,      \* the artifacts that answered the two queries of a call
  window,      \* history: artifacts installed at some time during a call
  overlapped   \* history: two builders have been at work at once

fileVars == <<installed, whole, buildDir, temp>>
builderVars == <<step, own, built, overlapped>>
readerVars == <<open, opened, pc, stamp, using, answer>>
vars == <<fileVars, builderVars, readerVars, window>>

Init ==
  /\ installed = None
  /\ whole = {}
  /\ buildDir = FALSE
  /\ temp = None
  /\ step = [b \in Builders |-> "idle"]
  /\ own = [b \in Builders |-> None]
  /\ built = 0
  /\ overlapped = FALSE
  /\ open = None
  /\ opened = <<>>
  /\ pc = [t \in Threads |-> "idle"]
  /\ stamp = [t \in Threads |-> None]
  /\ using = [t \in Threads |-> None]
  /\ answer = [t \in Threads |-> <<>>]
  /\ window = [t \in Threads |-> {}]

-----------------------------------------------------------------------------
(***************************************************************************)
(* Builders.                                                               *)
(***************************************************************************)

GoOn(b, next) == step' = [step EXCEPT ![b] = next]

\* What is installed now is installed during every call that goes on.
Witness == window' = [t \in Threads |->
  IF pc[t] \in {"idle", "return"} THEN window[t] ELSE window[t] \cup {installed'}]

\* install does nothing when the gazetteer is there, unless it is forced.
StartBuild(b, force) ==
  /\ step[b] = "idle"
  /\ built < MaxBuilds
  /\ force \/ installed = None
  /\ overlapped' = (overlapped \/ \E a \in Builders : step[a] # "idle")
  /\ GoOn(b, "clear")
  /\ UNCHANGED <<fileVars, own, built, readerVars, window>>

\* rmtree of what an earlier build has left.
ClearBuildDir(b) ==
  /\ step[b] = "clear"
  /\ buildDir' = FALSE
  /\ temp' = None
  /\ GoOn(b, "mkdir")
  /\ UNCHANGED <<installed, whole, own, built, overlapped, readerVars, window>>

\* If the directory is there again, mkdir raises outside of the try block.
MakeBuildDir(b) ==
  /\ step[b] = "mkdir"
  /\ buildDir' = TRUE
  /\ GoOn(b, IF buildDir THEN "idle" ELSE "create")
  /\ UNCHANGED <<installed, whole, temp, own, built, overlapped, readerVars, window>>

\* The sources are loaded and compiled before this step, in files of the
\* builder's own.  The file it creates replaces one that is there.
CreateArtifact(b) ==
  /\ step[b] = "create"
  /\ built < MaxBuilds
  /\ built' = built + 1
  /\ own' = [own EXCEPT ![b] = built + 1]
  /\ temp' = built + 1
  /\ buildDir' = TRUE
  /\ GoOn(b, "emit")
  /\ UNCHANGED <<installed, whole, overlapped, readerVars, window>>

\* Rows, indexes and metadata are written, counted and compacted.
Finalize(b) ==
  /\ step[b] = "emit"
  /\ whole' = whole \cup {own[b]}
  /\ GoOn(b, "replace")
  /\ UNCHANGED <<installed, buildDir, temp, own, built, overlapped, readerVars, window>>

\* Mutant: the file is moved into place before it is written.
InstallEarly(b) ==
  /\ step[b] \in {"emit", "replace"}
  /\ temp # None
  /\ installed' = temp
  /\ temp' = None
  /\ Witness
  /\ GoOn(b, IF step[b] = "emit" THEN "emit" ELSE "leave")
  /\ UNCHANGED <<whole, buildDir, own, built, overlapped, readerVars>>

\* Whatever file has the temporary name is moved; if there is none, it raises.
Install(b) ==
  /\ step[b] = "replace"
  /\ temp # None
  /\ installed' = temp
  /\ temp' = None
  /\ Witness
  /\ GoOn(b, "leave")
  /\ UNCHANGED <<whole, buildDir, own, built, overlapped, readerVars>>

\* An exception in the try block.
Raise(b) ==
  /\ step[b] \in {"create", "emit", "replace"}
  /\ GoOn(b, "leave")
  /\ UNCHANGED <<fileVars, own, built, overlapped, readerVars, window>>

\* The finally block removes the build directory.
Leave(b) ==
  /\ step[b] = "leave"
  /\ buildDir' = FALSE
  /\ temp' = None
  /\ own' = [own EXCEPT ![b] = None]
  /\ GoOn(b, "idle")
  /\ UNCHANGED <<installed, whole, built, overlapped, readerVars, window>>

\* The building process is killed, or raises outside of the try block, perhaps
\* while it removes the directory.
Kill(b) ==
  /\ step[b] # "idle"
  /\ temp' \in IF step[b] \in {"clear", "leave"} THEN {temp, None} ELSE {temp}
  /\ own' = [own EXCEPT ![b] = None]
  /\ GoOn(b, "idle")
  /\ UNCHANGED <<installed, whole, buildDir, built, overlapped, readerVars, window>>

Uninstall ==
  /\ installed # None
  /\ installed' = None
  /\ Witness
  /\ UNCHANGED <<whole, buildDir, temp, builderVars, readerVars>>

-----------------------------------------------------------------------------
(***************************************************************************)
(* Readers: a call looks the gazetteer up and makes two queries, as        *)
(* get_candidate_descriptions does; other callers make one.                *)
(***************************************************************************)

Goto(t, next) == pc' = [pc EXCEPT ![t] = next]

EndCall(t) ==
  /\ Goto(t, "return")
  /\ stamp' = [stamp EXCEPT ![t] = None]
  /\ using' = [using EXCEPT ![t] = None]

\* A file that is not there leads past the cache.
StatArtifact(t) ==
  /\ pc[t] = "idle"
  /\ stamp' = [stamp EXCEPT ![t] = installed]
  /\ window' = [window EXCEPT ![t] = {installed}]
  /\ Goto(t, IF installed = None THEN "construct" ELSE "look")
  /\ UNCHANGED <<fileVars, builderVars, open, opened, using, answer>>

\* Mutant: any open Gazetteer of that name will do.
AnyOpen(t) == open # None

IsCurrent(t) == open # None /\ open.stamp = stamp[t]

LookInCache(t) ==
  /\ pc[t] = "look"
  /\ IF IsCurrent(t)
       THEN using' = [using EXCEPT ![t] = open.object] /\ Goto(t, "query")
       ELSE UNCHANGED using /\ Goto(t, "construct")
  /\ UNCHANGED <<fileVars, builderVars, open, opened, stamp, answer, window>>

\* The thread's connection, opened by path when it is needed.
Connect(t, connections) ==
  IF connections[t] = None THEN [connections EXCEPT ![t] = installed] ELSE connections

\* Mutant: an object is stored even if the file was not there to be stamped.
StoreAlways(t) == "store"

AfterConstruct(t) == IF stamp[t] = None THEN "query" ELSE "store"

\* Opening reads the metadata, which a file has shortly before it is finished.
Construct(t) ==
  /\ pc[t] = "construct"
  /\ \/ /\ installed # None
        /\ Len(opened) < MaxOpened
        /\ opened' = Append(opened, Connect(t, [u \in Threads |-> None]))
        /\ using' = [using EXCEPT ![t] = Len(opened) + 1]
        /\ Goto(t, AfterConstruct(t))
        /\ UNCHANGED stamp
     \/ installed \notin whole /\ EndCall(t) /\ UNCHANGED opened
  /\ UNCHANGED <<fileVars, builderVars, open, answer, window>>

StoreInCache(t) ==
  /\ pc[t] = "store"
  /\ open' = [stamp |-> stamp[t], object |-> using[t]]
  /\ Goto(t, "query")
  /\ UNCHANGED <<fileVars, builderVars, opened, stamp, using, answer, window>>

\* Mutant: every query opens the file anew.
Reconnect(t) == installed

Connection(t) == Connect(t, opened[using[t]])[t]

\* One query; the call ends after the second, or when there is no file to open.
Query(t) ==
  /\ pc[t] = "query"
  /\ IF Connection(t) = None
       THEN EndCall(t) /\ UNCHANGED <<opened, answer>>
       ELSE /\ opened' = [opened EXCEPT ![using[t]] = Connect(t, @)]
            /\ answer' = [answer EXCEPT ![t] = Append(@, Connection(t))]
            /\ IF Len(answer[t]) = 0 THEN UNCHANGED <<pc, stamp, using>> ELSE EndCall(t)
  /\ UNCHANGED <<fileVars, builderVars, open, window>>

\* The caller has its answers, or an exception.
Return(t) ==
  /\ pc[t] = "return"
  /\ Goto(t, "idle")
  /\ answer' = [answer EXCEPT ![t] = <<>>]
  /\ window' = [window EXCEPT ![t] = {}]
  /\ UNCHANGED <<fileVars, builderVars, open, opened, stamp, using>>

-----------------------------------------------------------------------------
Next ==
  \/ \E b \in Builders :
       \/ \E force \in BOOLEAN : StartBuild(b, force)
       \/ ClearBuildDir(b)
       \/ MakeBuildDir(b)
       \/ CreateArtifact(b)
       \/ Finalize(b)
       \/ Install(b)
       \/ Raise(b)
       \/ Leave(b)
       \/ Kill(b)
  \/ Uninstall
  \/ \E t \in Threads :
       \/ StatArtifact(t)
       \/ LookInCache(t)
       \/ Construct(t)
       \/ StoreInCache(t)
       \/ Query(t)
       \/ Return(t)

Spec == Init /\ [][Next]_vars

-----------------------------------------------------------------------------
(***************************************************************************)
(* Properties.                                                             *)
(***************************************************************************)

Objects == 1 .. MaxOpened

TypeOK ==
  /\ installed \in Artifacts \cup {None}
  /\ whole \subseteq Artifacts
  /\ buildDir \in BOOLEAN
  /\ temp \in Artifacts \cup {None}
  /\ step \in [Builders -> {"idle", "clear", "mkdir", "create", "emit", "replace", "leave"}]
  /\ own \in [Builders -> Artifacts \cup {None}]
  /\ built \in 0 .. MaxBuilds
  /\ open \in [stamp : Artifacts, object : Objects] \cup {None}
  /\ opened \in Seq([Threads -> Artifacts \cup {None}]) /\ Len(opened) <= MaxOpened
  /\ pc \in [Threads -> {"idle", "look", "construct", "store", "query", "return"}]
  /\ stamp \in [Threads -> Artifacts \cup {None}]
  /\ using \in [Threads -> Objects \cup {None}]
  /\ answer \in [Threads -> Seq(Artifacts)]
  /\ window \in [Threads -> SUBSET (Artifacts \cup {None})]
  /\ overlapped \in BOOLEAN

\* What is installed is a finished artifact, wherever builds stop, as long as no two
\* builds of the gazetteer overlap (builder.py:1004).
InstalledWhole == ~overlapped => installed \in whole \cup {None}

\* A call is answered by an artifact that was installed at some time during the
\* call, never by one that was replaced before (gazetteer.py:125-127), whichever
\* thread opened what when.
AnswersCurrent == \A t \in Threads : \A i \in DOMAIN answer[t] :
  answer[t][i] \in window[t]

\* The two queries of a call see one artifact, even if it is replaced in between.
OneArtifactPerCall == \A t \in Threads : \A i, j \in DOMAIN answer[t] :
  answer[t][i] = answer[t][j]
=============================================================================
