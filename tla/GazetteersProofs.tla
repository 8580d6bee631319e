-------------------------- MODULE GazetteersProofs --------------------------
(***************************************************************************)
(* Proofs about Gazetteers.                                                *)
(***************************************************************************)
EXTENDS Gazetteers, SequenceTheorems, TLAPS

-----------------------------------------------------------------------------
(***************************************************************************)
(* Type correctness, as far as the installed file depends on it.           *)
(***************************************************************************)

BuildersTyped ==
  /\ step \in [Builders -> {"idle", "clear", "mkdir", "create", "emit", "replace", "leave"}]
  /\ own \in [Builders -> Artifacts \cup {None}]
  /\ built \in 0 .. MaxBuilds
  /\ overlapped \in BOOLEAN

(***************************************************************************)
(* InstalledWhole is not inductive: Install moves whatever has the         *)
(* temporary name.  While no two builds have overlapped, that is the file  *)
(* the builder has written itself, and has finished.                       *)
(***************************************************************************)
AtWork(b) == step[b] # "idle"

OwnFile ==
  /\ \A a, b \in Builders : AtWork(a) /\ AtWork(b) => a = b
  /\ \A b \in Builders : step[b] = "emit" => temp = own[b]
  /\ \A b \in Builders : step[b] = "replace" => temp \in whole

InstallInv == BuildersTyped /\ (~overlapped => OwnFile /\ installed \in whole \cup {None})

\* A step of a reader changes nothing that installation depends on.
LEMMA ReadersKeep ==
  ASSUME InstallInv, UNCHANGED <<fileVars, builderVars>>
  PROVE  InstallInv'
BY DEF InstallInv, BuildersTyped, OwnFile, AtWork, fileVars, builderVars

LEMMA StartKeeps ==
  ASSUME InstallInv, NEW b \in Builders, NEW force \in BOOLEAN, StartBuild(b, force)
  PROVE  InstallInv'
<1>1. step' = [step EXCEPT ![b] = "clear"] /\ UNCHANGED <<installed, whole, temp, own, built>>
  BY DEF StartBuild, GoOn, fileVars
<1>2. BuildersTyped' BY <1>1 DEF StartBuild, InstallInv, BuildersTyped
<1>3. ASSUME ~overlapped' PROVE OwnFile' /\ installed' \in whole' \cup {None}
  <2>1. ~overlapped /\ \A a \in Builders : step[a] = "idle" BY <1>3 DEF StartBuild
  <2>2. QED BY <1>1, <2>1 DEF InstallInv, BuildersTyped, OwnFile, AtWork
<1>4. QED BY <1>2, <1>3 DEF InstallInv

\* A builder that is at work goes on, or stops, with what it needs of its file.
LEMMA WorkKeeps ==
  ASSUME InstallInv, NEW b \in Builders, NEW next, GoOn(b, next), AtWork(b),
         next \in {"idle", "clear", "mkdir", "create", "emit", "replace", "leave"},
         own' \in [Builders -> Artifacts \cup {None}], built' \in 0 .. MaxBuilds,
         overlapped' = overlapped, whole \subseteq whole',
         ~overlapped /\ next = "emit" => temp' = own'[b],
         ~overlapped /\ next = "replace" => temp' \in whole',
         ~overlapped => installed' \in whole' \cup {None}
  PROVE  InstallInv'
<1>1. step' = [step EXCEPT ![b] = next] BY DEF GoOn
<1>2. BuildersTyped' BY <1>1 DEF InstallInv, BuildersTyped
<1>3. ASSUME ~overlapped' PROVE OwnFile'
  <2>1. \A a \in Builders \ {b} : step[a] = "idle" /\ step'[a] = "idle"
    BY <1>1, <1>3 DEF InstallInv, BuildersTyped, OwnFile, AtWork
  <2>2. step'[b] = next BY <1>1 DEF InstallInv, BuildersTyped
  <2>3. QED BY <1>3, <2>1, <2>2 DEF OwnFile, AtWork
<1>4. QED BY <1>2, <1>3 DEF InstallInv

LEMMA BuilderStepKeeps ==
  ASSUME InstallInv, NEW b \in Builders,
         \/ ClearBuildDir(b) \/ MakeBuildDir(b) \/ CreateArtifact(b) \/ Finalize(b)
         \/ Install(b) \/ Raise(b) \/ Leave(b) \/ Kill(b)
  PROVE  InstallInv'
<1> USE DEF InstallInv, BuildersTyped, AtWork, builderVars, fileVars
<1>1. CASE ClearBuildDir(b) BY <1>1, WorkKeeps DEF ClearBuildDir
<1>2. CASE MakeBuildDir(b)
  <2>1. CASE buildDir BY <1>2, <2>1, WorkKeeps DEF MakeBuildDir
  <2>2. CASE ~buildDir BY <1>2, <2>2, WorkKeeps DEF MakeBuildDir
  <2>3. QED BY <2>1, <2>2
<1>3. CASE CreateArtifact(b)
  <2>1. built + 1 \in Artifacts /\ built' \in 0 .. MaxBuilds
    BY <1>3, BoundsAssumption DEF CreateArtifact, Artifacts
  <2>2. own' \in [Builders -> Artifacts \cup {None}] /\ temp' = own'[b]
    BY <1>3, <2>1 DEF CreateArtifact
  <2>3. QED BY <1>3, <2>1, <2>2, WorkKeeps DEF CreateArtifact
<1>4. CASE Finalize(b)
  <2>1. ~overlapped => temp' \in whole' BY <1>4 DEF Finalize, OwnFile
  <2>2. QED BY <1>4, <2>1, WorkKeeps DEF Finalize
<1>5. CASE Install(b)
  <2>1. ~overlapped => installed' \in whole' BY <1>5 DEF Install, OwnFile
  <2>2. QED BY <1>5, <2>1, WorkKeeps DEF Install
<1>6. CASE Raise(b) BY <1>6, WorkKeeps DEF Raise
<1>7. CASE Leave(b) BY <1>7, WorkKeeps DEF Leave
<1>8. CASE Kill(b) BY <1>8, WorkKeeps DEF Kill
<1>9. QED BY <1>1, <1>2, <1>3, <1>4, <1>5, <1>6, <1>7, <1>8

\* However many builders there are and wherever they stop, while no two builds
\* overlap only finished artifacts are installed.
THEOREM AlwaysInstalledWhole == Spec => []InstalledWhole
<1>1. Init => InstallInv
  <2> SUFFICES ASSUME Init PROVE InstallInv
    OBVIOUS
  <2>1. BuildersTyped
    <3>1. built \in 0 .. MaxBuilds BY BoundsAssumption DEF Init
    <3>2. overlapped \in BOOLEAN BY DEF Init
    <3>3. QED BY <3>1, <3>2 DEF Init, BuildersTyped
  <2>2. OwnFile /\ installed \in whole \cup {None} BY DEF Init, OwnFile, AtWork
  <2>3. QED BY <2>1, <2>2 DEF InstallInv
<1>2. InstallInv /\ [Next]_vars => InstallInv'
  <2> SUFFICES ASSUME InstallInv, [Next]_vars PROVE InstallInv'
    OBVIOUS
  <2>1. ASSUME NEW b \in Builders, NEW force \in BOOLEAN, StartBuild(b, force)
        PROVE  InstallInv'
    BY <2>1, StartKeeps
  <2>2. ASSUME NEW b \in Builders,
               \/ ClearBuildDir(b) \/ MakeBuildDir(b) \/ CreateArtifact(b) \/ Finalize(b)
               \/ Install(b) \/ Raise(b) \/ Leave(b) \/ Kill(b)
        PROVE  InstallInv'
    BY <2>2, BuilderStepKeeps
  <2>3. CASE Uninstall
    BY <2>3 DEF Uninstall, InstallInv, BuildersTyped, OwnFile, AtWork, builderVars
  <2>4. ASSUME NEW t \in Threads,
               \/ StatArtifact(t) \/ LookInCache(t) \/ Construct(t)
               \/ StoreInCache(t) \/ Query(t) \/ Return(t)
        PROVE  InstallInv'
    <3>1. UNCHANGED <<fileVars, builderVars>>
      BY <2>4 DEF StatArtifact, LookInCache, Construct, StoreInCache, Query, Return
    <3>2. QED BY <3>1, ReadersKeep
  <2>5. CASE UNCHANGED vars BY <2>5, ReadersKeep DEF vars
  <2>6. QED BY <2>1, <2>2, <2>3, <2>4, <2>5 DEF Next
<1>3. InstallInv => InstalledWhole BY DEF InstallInv, InstalledWhole
<1>4. QED BY <1>1, <1>2, <1>3, PTL DEF Spec
-----------------------------------------------------------------------------
(***************************************************************************)
(* Type correctness.  A builder that emits has a file, and a call knows    *)
(* the object it goes on with.                                             *)
(***************************************************************************)

FilesTyped ==
  /\ installed \in Artifacts \cup {None}
  /\ whole \subseteq Artifacts
  /\ buildDir \in BOOLEAN
  /\ temp \in Artifacts \cup {None}
  /\ BuildersTyped

BuildersHold == \A b \in Builders : step[b] = "emit" => own[b] # None

\* The connections of one Gazetteer object.
Connections == [Threads -> Artifacts \cup {None}]

ReadersTyped ==
  /\ open \in [stamp : Artifacts, object : Objects] \cup {None}
  /\ opened \in Seq(Connections) /\ Len(opened) <= MaxOpened
  /\ pc \in [Threads -> {"idle", "look", "construct", "store", "query", "return"}]
  /\ stamp \in [Threads -> Artifacts \cup {None}]
  /\ using \in [Threads -> Objects \cup {None}]
  /\ answer \in [Threads -> Seq(Artifacts)]
  /\ window \in [Threads -> SUBSET (Artifacts \cup {None})]

ObjectsKnown ==
  /\ open # None => open.object \in DOMAIN opened
  /\ \A t \in Threads :
       /\ pc[t] \in {"look", "store"} => stamp[t] # None
       /\ pc[t] \in {"store", "query"} => using[t] \in DOMAIN opened

TypeInv == FilesTyped /\ BuildersHold /\ ReadersTyped /\ ObjectsKnown

LEMMA TypeInvTypes ==
  TypeOK <=> FilesTyped /\ ReadersTyped
BY DEF TypeOK, FilesTyped, BuildersTyped, ReadersTyped, Connections

\* Builders' steps, Witness aside.
LEMMA BuilderTyped ==
  ASSUME TypeInv, NEW b \in Builders,
         \/ \E force \in BOOLEAN : StartBuild(b, force)
         \/ ClearBuildDir(b) \/ MakeBuildDir(b) \/ CreateArtifact(b) \/ Finalize(b)
         \/ Install(b) \/ Raise(b) \/ Leave(b) \/ Kill(b)
  PROVE  TypeInv'
<1> USE DEF GoOn
<1>a. FilesTyped /\ BuildersTyped /\ BuildersHold /\ ReadersTyped
  BY DEF TypeInv, FilesTyped
<1>b. UNCHANGED readerVars
  BY DEF StartBuild, ClearBuildDir, MakeBuildDir, CreateArtifact, Finalize, Install,
     Raise, Leave, Kill
<1>c. ObjectsKnown' BY <1>b DEF TypeInv, ObjectsKnown, readerVars
<1>d. window' \in [Threads -> SUBSET (Artifacts \cup {None})]
  <2>1. CASE Install(b)
    BY <1>a, <2>1 DEF Install, Witness, FilesTyped, ReadersTyped
  <2>2. CASE ~Install(b)
    BY <1>a, <2>2 DEF StartBuild, ClearBuildDir, MakeBuildDir, CreateArtifact, Finalize,
       Raise, Leave, Kill, ReadersTyped
  <2>3. QED BY <2>1, <2>2
<1>e. ReadersTyped' BY <1>a, <1>b, <1>d DEF ReadersTyped, readerVars
<1>f. FilesTyped' /\ BuildersHold'
  <2>1. ASSUME NEW force \in BOOLEAN, StartBuild(b, force) PROVE FilesTyped' /\ BuildersHold'
    BY <1>a, <2>1 DEF StartBuild, FilesTyped, BuildersTyped, BuildersHold, fileVars
  <2>2. CASE ClearBuildDir(b)
    BY <1>a, <2>2 DEF ClearBuildDir, FilesTyped, BuildersTyped, BuildersHold
  <2>3. CASE MakeBuildDir(b)
    BY <1>a, <2>3 DEF MakeBuildDir, FilesTyped, BuildersTyped, BuildersHold
  <2>4. CASE CreateArtifact(b)
    <3>1. built + 1 \in Artifacts /\ built + 1 \in 0 .. MaxBuilds /\ built + 1 # None
      BY <1>a, <2>4, BoundsAssumption DEF CreateArtifact, BuildersTyped, Artifacts
    <3>2. QED BY <1>a, <2>4, <3>1 DEF CreateArtifact, FilesTyped, BuildersTyped, BuildersHold
  <2>5. CASE Finalize(b)
    BY <1>a, <2>5 DEF Finalize, FilesTyped, BuildersTyped, BuildersHold
  <2>6. CASE Install(b)
    BY <1>a, <2>6 DEF Install, FilesTyped, BuildersTyped, BuildersHold
  <2>7. CASE Raise(b)
    BY <1>a, <2>7 DEF Raise, FilesTyped, BuildersTyped, BuildersHold, fileVars
  <2>8. CASE Leave(b)
    BY <1>a, <2>8 DEF Leave, FilesTyped, BuildersTyped, BuildersHold
  <2>9. CASE Kill(b)
    BY <1>a, <2>9 DEF Kill, FilesTyped, BuildersTyped, BuildersHold
  <2>10. QED BY <2>1, <2>2, <2>3, <2>4, <2>5, <2>6, <2>7, <2>8, <2>9
<1>g. QED BY <1>c, <1>e, <1>f DEF TypeInv

\* Connecting gives a thread a connection and leaves the others theirs.
LEMMA Connects ==
  ASSUME FilesTyped, NEW t \in Threads, NEW c \in Connections
  PROVE  /\ Connect(t, c) \in Connections
         /\ \A u \in Threads \ {t} : Connect(t, c)[u] = c[u]
         /\ Connect(t, c)[t] = IF c[t] = None THEN installed ELSE c[t]
BY DEF Connect, FilesTyped, Connections

\* A new object has the connection of the thread that made it, and no other.
LEMMA ConstructConnects ==
  ASSUME FilesTyped, ReadersTyped, NEW t \in Threads,
         Len(opened) < MaxOpened,
         opened' = Append(opened, Connect(t, [u \in Threads |-> None]))
  PROVE  /\ opened' \in Seq(Connections)
         /\ Len(opened') = Len(opened) + 1
         /\ Len(opened') <= MaxOpened
         /\ Len(opened) + 1 \in Objects
         /\ DOMAIN opened' = DOMAIN opened \cup {Len(opened) + 1}
         /\ \A o \in DOMAIN opened : opened'[o] = opened[o]
         /\ \A u \in Threads : opened'[Len(opened) + 1][u] = IF u = t THEN installed ELSE None
<1>1. opened \in Seq(Connections) BY DEF ReadersTyped
<1> DEFINE new == Connect(t, [u \in Threads |-> None])
<1>2. [u \in Threads |-> None] \in Connections BY DEF Connections
<1>3. /\ new \in Connections
      /\ \A u \in Threads : new[u] = IF u = t THEN installed ELSE None
  BY <1>2, Connects
<1>4. opened' = Append(opened, new) OBVIOUS
<1> HIDE DEF new
<1>5. QED BY <1>1, <1>3, <1>4, BoundsAssumption DEF Objects

\* A query that is answered adds its thread's connection, if it had none.
LEMMA QueryConnects ==
  ASSUME TypeInv, NEW t \in Threads, Query(t), Connection(t) # None
  PROVE  /\ opened' \in Seq(Connections)
         /\ Len(opened') = Len(opened)
         /\ DOMAIN opened' = DOMAIN opened
         /\ using[t] \in DOMAIN opened
         /\ \A o \in DOMAIN opened, u \in Threads :
              opened'[o][u] = IF o = using[t] /\ u = t THEN Connection(t) ELSE opened[o][u]
         /\ Connection(t) = IF opened[using[t]][t] = None THEN installed
                                                          ELSE opened[using[t]][t]
         /\ Connection(t) \in Artifacts
<1> DEFINE o == using[t]
           e == Connect(t, opened[o])
<1>a. FilesTyped /\ ReadersTyped /\ ObjectsKnown BY DEF TypeInv
<1>1. opened \in Seq(Connections) BY <1>a DEF ReadersTyped
<1>2. o \in DOMAIN opened /\ o \in 1 .. Len(opened)
  BY <1>a DEF Query, ReadersTyped, ObjectsKnown
<1>3. opened[o] \in Connections BY <1>1, <1>2, ElementOfSeq
<1>4. opened' = [opened EXCEPT ![o] = e] BY DEF Query
<1>5. /\ e \in Connections
      /\ \A u \in Threads \ {t} : e[u] = opened[o][u]
      /\ e[t] = IF opened[o][t] = None THEN installed ELSE opened[o][t]
  BY <1>a, <1>3, Connects
<1>6. Connection(t) = e[t] BY DEF Connection
<1>7. Connection(t) \in Artifacts BY <1>5, <1>6 DEF Connections
<1> HIDE DEF o, e
<1>8. /\ opened' \in Seq(Connections) /\ Len(opened') = Len(opened)
      /\ \A j \in 1 .. Len(opened) : opened'[j] = IF j = o THEN e ELSE opened[j]
  BY <1>1, <1>2, <1>4, <1>5, ExceptSeq
<1>9. DOMAIN opened = 1 .. Len(opened) /\ DOMAIN opened' = 1 .. Len(opened')
  BY <1>1, <1>8, LenProperties
<1>10. QED BY <1>2, <1>5, <1>6, <1>7, <1>8, <1>9 DEF o

LEMMA ReaderTyped ==
  ASSUME TypeInv, NEW t \in Threads,
         \/ StatArtifact(t) \/ LookInCache(t) \/ Construct(t)
         \/ StoreInCache(t) \/ Query(t) \/ Return(t)
  PROVE  TypeInv'
<1> USE DEF Goto
<1>a. FilesTyped /\ ReadersTyped /\ ObjectsKnown
  BY DEF TypeInv
<1>b. UNCHANGED <<fileVars, builderVars>>
  BY DEF StatArtifact, LookInCache, Construct, StoreInCache, Query, Return
<1>c. FilesTyped' /\ BuildersHold'
  BY <1>b DEF TypeInv, FilesTyped, BuildersTyped, BuildersHold, fileVars, builderVars
<1>d. ReadersTyped' /\ ObjectsKnown'
  <2>1. CASE StatArtifact(t)
    BY <1>a, <2>1 DEF StatArtifact, FilesTyped, ReadersTyped, ObjectsKnown
  <2>2. CASE LookInCache(t)
    <3>1. IsCurrent(t) => open.object \in Objects /\ open.object \in DOMAIN opened
      BY <1>a DEF IsCurrent, ReadersTyped, ObjectsKnown
    <3>2. CASE IsCurrent(t)
      BY <1>a, <2>2, <3>1, <3>2 DEF LookInCache, ReadersTyped, ObjectsKnown
    <3>3. CASE ~IsCurrent(t)
      BY <1>a, <2>2, <3>3 DEF LookInCache, ReadersTyped, ObjectsKnown
    <3>4. QED BY <3>2, <3>3
  <2>3. CASE Construct(t)
    <3>1. CASE /\ installed # None
               /\ Len(opened) < MaxOpened
               /\ opened' = Append(opened, Connect(t, [u \in Threads |-> None]))
               /\ using' = [using EXCEPT ![t] = Len(opened) + 1]
               /\ Goto(t, AfterConstruct(t))
               /\ UNCHANGED stamp
      <4>2. /\ opened' \in Seq(Connections)
            /\ DOMAIN opened \subseteq DOMAIN opened'
            /\ Len(opened) + 1 \in DOMAIN opened'
            /\ Len(opened) + 1 \in Objects
            /\ Len(opened') <= MaxOpened
        BY <1>a, <3>1, ConstructConnects
      <4>3. ReadersTyped'
        BY <1>a, <2>3, <3>1, <4>2 DEF Construct, AfterConstruct, ReadersTyped
      <4>4. ObjectsKnown'
        BY <1>a, <2>3, <3>1, <4>2 DEF Construct, AfterConstruct, ReadersTyped, ObjectsKnown
      <4>5. QED BY <4>3, <4>4
    <3>2. CASE EndCall(t) /\ UNCHANGED opened
      BY <1>a, <2>3, <3>2 DEF Construct, EndCall, ReadersTyped, ObjectsKnown
    <3>3. QED BY <2>3, <3>1, <3>2 DEF Construct
  <2>4. CASE StoreInCache(t)
    <3>1. using[t] \in DOMAIN opened /\ using[t] \in Objects
      <4>1. using[t] \in DOMAIN opened BY <1>a, <2>4 DEF StoreInCache, ObjectsKnown
      <4>2. QED BY <1>a, <4>1, BoundsAssumption DEF ReadersTyped, Objects
    <3>2. stamp[t] \in Artifacts BY <1>a, <2>4 DEF StoreInCache, ReadersTyped, ObjectsKnown
    <3>3. open' \in [stamp : Artifacts, object : Objects] /\ open'.object = using[t]
      BY <2>4, <3>1, <3>2 DEF StoreInCache
    <3>4. QED BY <1>a, <2>4, <3>1, <3>3 DEF StoreInCache, ReadersTyped, ObjectsKnown
  <2>5. CASE Query(t)
    <3>1. CASE Connection(t) = None
      BY <1>a, <2>5, <3>1 DEF Query, EndCall, ReadersTyped, ObjectsKnown
    <3>2. CASE Connection(t) # None
      <4>1. /\ opened' \in Seq(Connections)
            /\ Len(opened') = Len(opened)
            /\ DOMAIN opened' = DOMAIN opened
            /\ Connection(t) \in Artifacts
        BY <2>5, <3>2, QueryConnects
      <4>2. answer' \in [Threads -> Seq(Artifacts)]
        <5> DEFINE more == Append(answer[t], Connection(t))
        <5>1. answer' = [answer EXCEPT ![t] = more] BY <2>5, <3>2 DEF Query
        <5>2. more \in Seq(Artifacts) BY <1>a, <4>1 DEF ReadersTyped
        <5> HIDE DEF more
        <5>3. QED BY <1>a, <5>1, <5>2 DEF ReadersTyped
      <4>3. UNCHANGED <<pc, stamp, using>> \/ EndCall(t)
        BY <2>5, <3>2 DEF Query
      <4>4. UNCHANGED <<open, window>> BY <2>5 DEF Query
      <4>5. ReadersTyped'
        BY <1>a, <4>1, <4>2, <4>3, <4>4 DEF EndCall, ReadersTyped
      <4>6. ObjectsKnown'
        BY <1>a, <4>1, <4>3, <4>4 DEF EndCall, ReadersTyped, ObjectsKnown
      <4>7. QED BY <4>5, <4>6
    <3>3. QED BY <3>1, <3>2
  <2>6. CASE Return(t)
    BY <1>a, <2>6 DEF Return, ReadersTyped, ObjectsKnown
  <2>7. QED BY <2>1, <2>2, <2>3, <2>4, <2>5, <2>6
<1>e. QED BY <1>c, <1>d DEF TypeInv

LEMMA TypeInvInitial ==
  ASSUME Init
  PROVE  TypeInv
<1>1. built \in 0 .. MaxBuilds BY BoundsAssumption DEF Init
<1>2. overlapped \in BOOLEAN /\ buildDir \in BOOLEAN BY DEF Init
<1>3. FilesTyped /\ BuildersHold
  BY <1>1, <1>2 DEF Init, FilesTyped, BuildersTyped, BuildersHold
<1>4. ReadersTyped
  <2>1. opened \in Seq(Connections) /\ Len(opened) <= MaxOpened
    BY BoundsAssumption DEF Init
  <2>2. answer \in [Threads -> Seq(Artifacts)] BY DEF Init
  <2>3. QED BY <2>1, <2>2 DEF Init, ReadersTyped
<1>5. ObjectsKnown BY DEF Init, ObjectsKnown
<1>6. QED BY <1>3, <1>4, <1>5 DEF TypeInv

LEMMA TypeInvStable ==
  ASSUME TypeInv, [Next]_vars
  PROVE  TypeInv'
<1>1. CASE Uninstall
  <2>1. window' \in [Threads -> SUBSET (Artifacts \cup {None})]
    BY <1>1 DEF Uninstall, Witness, TypeInv, FilesTyped, ReadersTyped
  <2>2. QED BY <1>1, <2>1 DEF Uninstall, TypeInv, FilesTyped, BuildersTyped, BuildersHold,
            ReadersTyped, ObjectsKnown, builderVars, readerVars
<1>2. CASE UNCHANGED vars
  BY <1>2 DEF vars, fileVars, builderVars, readerVars, TypeInv, FilesTyped, BuildersTyped,
     BuildersHold, ReadersTyped, ObjectsKnown
<1>3. QED BY <1>1, <1>2, BuilderTyped, ReaderTyped DEF Next

\* Every variable holds values of its kind in every reachable state.
THEOREM TypeCorrect == Spec => []TypeOK
<1>1. Init => TypeInv BY TypeInvInitial
<1>2. TypeInv /\ [Next]_vars => TypeInv' BY TypeInvStable
<1>3. TypeInv => TypeOK BY TypeInvTypes DEF TypeInv
<1>4. QED BY <1>1, <1>2, <1>3, PTL DEF Spec
-----------------------------------------------------------------------------
(***************************************************************************)
(* A call is answered by one artifact that was installed during the call.  *)
(* Artifacts are numbered in the order of their creation, and they are     *)
(* installed in that order too, even if builds overlap.  So nothing that a *)
(* reader remembers, a stamp or a connection, is newer than the installed  *)
(* artifact; a connection of a cached object is not older than the object's *)
(* stamp, for the stamp was read first; and the connection that a call     *)
(* finds in an object of its own stamp is the artifact of that stamp.      *)
(***************************************************************************)

FilesOrdered ==
  /\ temp \in {None, built}
  /\ installed # None => installed <= built
  /\ temp # None /\ installed # None => installed < temp

Old(a) ==
  /\ a <= built
  /\ temp # None => a < temp
  /\ installed # None => a <= installed

RememberedOld ==
  /\ open # None => Old(open.stamp)
  /\ \A t \in Threads : stamp[t] # None => Old(stamp[t])
  /\ \A o \in DOMAIN opened, t \in Threads : opened[o][t] # None => Old(opened[o][t])

NotBefore(o, s) == \A u \in Threads : opened[o][u] # None => s <= opened[o][u]

StampsFirst ==
  /\ open # None => NotBefore(open.object, open.stamp)
  /\ \A t \in Threads : pc[t] = "store" => NotBefore(using[t], stamp[t])

InCall(t) == pc[t] \notin {"idle", "return"}

\* The connection a thread has in the object it goes on with.
Mine(t) == opened[using[t]][t]

CallSound(t) ==
  /\ InCall(t) => installed \in window[t]
  /\ pc[t] = "look" =>
       /\ stamp[t] \in window[t]
       /\ \A o \in DOMAIN opened : opened[o][t] # None => opened[o][t] <= stamp[t]
  /\ pc[t] \in {"store", "query"} /\ Mine(t) # None => Mine(t) \in window[t]
  /\ pc[t] \in {"idle", "look", "construct", "store"} => answer[t] = <<>>
  /\ pc[t] = "query" => answer[t] = <<>> \/ answer[t] = <<Mine(t)>>
  /\ \A i \in DOMAIN answer[t] : answer[t][i] \in window[t]
  /\ \A i, j \in DOMAIN answer[t] : answer[t][i] = answer[t][j]

AnswerInv ==
  /\ FilesOrdered
  /\ RememberedOld
  /\ StampsFirst
  /\ \A t \in Threads : CallSound(t)

\* What a step of a builder, or the removal of the gazetteer, does to the files.
FileStep ==
  /\ UNCHANGED readerVars
  /\ \/ UNCHANGED <<installed, built, window>> /\ temp' \in {temp, None}
     \/ UNCHANGED <<installed, window>> /\ built' = built + 1 /\ temp' = built + 1
     \/ temp # None /\ installed' = temp /\ temp' = None /\ UNCHANGED built /\ Witness
     \/ installed' = None /\ UNCHANGED <<temp, built>> /\ Witness

LEMMA FileSteps ==
  ASSUME NEW b \in Builders,
         \/ \E force \in BOOLEAN : StartBuild(b, force)
         \/ ClearBuildDir(b) \/ MakeBuildDir(b) \/ CreateArtifact(b) \/ Finalize(b)
         \/ Install(b) \/ Raise(b) \/ Leave(b) \/ Kill(b)
  PROVE  FileStep
<1> USE DEF FileStep, fileVars
<1>1. ASSUME NEW force \in BOOLEAN, StartBuild(b, force) PROVE FileStep
  BY <1>1 DEF StartBuild
<1>2. CASE ClearBuildDir(b) \/ MakeBuildDir(b) \/ Finalize(b) \/ Raise(b) \/ Leave(b)
  BY <1>2 DEF ClearBuildDir, MakeBuildDir, Finalize, Raise, Leave
<1>3. CASE Kill(b) BY <1>3 DEF Kill
<1>4. CASE CreateArtifact(b) BY <1>4 DEF CreateArtifact
<1>5. CASE Install(b) BY <1>5 DEF Install
<1>6. QED BY <1>1, <1>2, <1>3, <1>4, <1>5

\* Nothing that is remembered becomes newer than what is installed.
LEMMA FileStepOrdered ==
  ASSUME TypeInv, FilesOrdered, FileStep
  PROVE  /\ FilesOrdered'
         /\ \A a \in Artifacts : Old(a) => Old(a)'
<1>1. /\ built \in Nat /\ None \notin Nat /\ Artifacts \subseteq Nat
      /\ installed \in Artifacts \cup {None} /\ temp \in Artifacts \cup {None}
  BY BoundsAssumption DEF TypeInv, FilesTyped, BuildersTyped, Artifacts
<1>2. CASE UNCHANGED <<installed, built>> /\ temp' \in {temp, None}
  BY <1>1, <1>2 DEF FilesOrdered, Old
<1>3. CASE UNCHANGED installed /\ built' = built + 1 /\ temp' = built + 1
  BY <1>1, <1>3 DEF FilesOrdered, Old
<1>4. CASE temp # None /\ installed' = temp /\ temp' = None /\ UNCHANGED built
  BY <1>1, <1>4 DEF FilesOrdered, Old
<1>5. CASE installed' = None /\ UNCHANGED <<temp, built>>
  BY <1>1, <1>5 DEF FilesOrdered, Old
<1>6. QED BY <1>2, <1>3, <1>4, <1>5 DEF FileStep

LEMMA FileStepSound ==
  ASSUME TypeInv, AnswerInv, FileStep
  PROVE  AnswerInv'
<1>1. FilesOrdered' /\ \A a \in Artifacts : Old(a) => Old(a)'
  BY FileStepOrdered DEF AnswerInv
<1>2. UNCHANGED <<open, opened, pc, stamp, using, answer>>
  BY DEF FileStep, readerVars
<1>3. RememberedOld'
  <2>1. ReadersTyped BY DEF TypeInv
  <2>2. open # None => open.stamp \in Artifacts BY <2>1 DEF ReadersTyped
  <2>3. \A t \in Threads : stamp[t] # None => stamp[t] \in Artifacts
    BY <2>1 DEF ReadersTyped
  <2>4. \A o \in DOMAIN opened, t \in Threads :
          opened[o][t] # None => opened[o][t] \in Artifacts
    <3>1. \A o \in DOMAIN opened : opened[o] \in Connections
      BY <2>1, ElementOfSeq, LenProperties DEF ReadersTyped
    <3>2. QED BY <3>1 DEF Connections
  <2>5. RememberedOld BY DEF AnswerInv
  <2>6. ASSUME open' # None PROVE Old(open.stamp)'
    BY <1>1, <1>2, <2>2, <2>5, <2>6 DEF RememberedOld, Old
  <2>7. ASSUME NEW t \in Threads, stamp'[t] # None PROVE Old(stamp[t])'
    BY <1>1, <1>2, <2>3, <2>5, <2>7 DEF RememberedOld, Old
  <2>8. ASSUME NEW o \in DOMAIN opened', NEW t \in Threads, opened'[o][t] # None
        PROVE  Old(opened[o][t])'
    BY <1>1, <1>2, <2>4, <2>5, <2>8 DEF RememberedOld, Old
  <2>9. QED BY <2>6, <2>7, <2>8 DEF RememberedOld
<1>4. StampsFirst' BY <1>2 DEF AnswerInv, StampsFirst, NotBefore
<1>5. ASSUME NEW t \in Threads PROVE CallSound(t)'
  <2>1. /\ window[t] \subseteq window'[t]
        /\ InCall(t) => installed' \in window'[t]
    BY <1>2 DEF FileStep, Witness, AnswerInv, CallSound, InCall
  <2>2. UNCHANGED Mine(t) BY <1>2 DEF Mine
  <2>3. QED BY <1>2, <2>1, <2>2 DEF AnswerInv, CallSound, InCall
<1>6. QED BY <1>1, <1>3, <1>4, <1>5 DEF AnswerInv
\* Every reader step but a construction and an answered query leaves the
\* connections alone.
LEMMA ReaderStepSound ==
  ASSUME TypeInv, TypeInv', AnswerInv, NEW t \in Threads,
         \/ StatArtifact(t) \/ LookInCache(t) \/ Construct(t)
         \/ StoreInCache(t) \/ Query(t) \/ Return(t)
  PROVE  AnswerInv'
<1> USE DEF Goto
<1>a. FilesTyped /\ ReadersTyped /\ ObjectsKnown BY DEF TypeInv
<1>b. /\ built \in Nat /\ None \notin Nat /\ Artifacts \subseteq Nat
      /\ installed \in Artifacts \cup {None} /\ temp \in Artifacts \cup {None}
  BY <1>a, BoundsAssumption DEF FilesTyped, BuildersTyped, Artifacts
<1>c. UNCHANGED <<installed, temp, built>>
  BY DEF StatArtifact, LookInCache, Construct, StoreInCache, Query, Return, fileVars, builderVars
<1>d. FilesOrdered' /\ \A a : Old(a) => (Old(a))'
  BY <1>c DEF AnswerInv, FilesOrdered, Old
<1>e. installed # None => Old(installed)
  BY <1>b DEF AnswerInv, FilesOrdered, Old
<1>f. RememberedOld /\ StampsFirst /\ \A u \in Threads : CallSound(u) BY DEF AnswerInv
<1>g. \A o \in DOMAIN opened, u \in Threads : opened[o][u] # None => opened[o][u] \in Artifacts
  <2>1. \A o \in DOMAIN opened : opened[o] \in Connections
    BY <1>a, ElementOfSeq, LenProperties DEF ReadersTyped
  <2>2. QED BY <2>1 DEF Connections
<1>h. \A u \in Threads : stamp[u] # None => stamp[u] \in Artifacts
  BY <1>a DEF ReadersTyped
<1>i. open # None => open.stamp \in Artifacts /\ open.object \in DOMAIN opened
  BY <1>a DEF ReadersTyped, ObjectsKnown
\* A call that ends keeps its answers and its window.
<1>1. ASSUME EndCall(t), pc[t] # "idle", UNCHANGED <<open, opened, window, answer>>
      PROVE  AnswerInv'
  <2>1. /\ pc' = [pc EXCEPT ![t] = "return"]
        /\ stamp' = [stamp EXCEPT ![t] = None]
        /\ using' = [using EXCEPT ![t] = None]
    BY <1>1 DEF EndCall
  <2>2. RememberedOld' BY <1>1, <1>a, <1>c, <1>f, <2>1 DEF RememberedOld, Old, ReadersTyped
  <2>3. StampsFirst' BY <1>1, <1>a, <1>f, <2>1 DEF StampsFirst, NotBefore, ReadersTyped
  <2>4. \A u \in Threads : CallSound(u)'
    BY <1>1, <1>a, <1>c, <1>f, <2>1 DEF CallSound, InCall, Mine, ReadersTyped
  <2>5. QED BY <1>d, <2>2, <2>3, <2>4 DEF AnswerInv
<1>2. CASE StatArtifact(t)
  <2>1. RememberedOld'
    BY <1>2, <1>a, <1>c, <1>e, <1>f DEF StatArtifact, RememberedOld, Old, ReadersTyped
  <2>2. StampsFirst' BY <1>2, <1>a, <1>f DEF StatArtifact, StampsFirst, NotBefore, ReadersTyped
  <2>3. CallSound(t)'
    <3>1. installed # None =>
            \A o \in DOMAIN opened : opened[o][t] # None => opened[o][t] <= installed
      BY <1>f DEF RememberedOld, Old
    <3>2. QED BY <1>2, <1>a, <1>c, <1>f, <3>1 DEF StatArtifact, CallSound, InCall, ReadersTyped
  <2>4. \A u \in Threads \ {t} : CallSound(u)'
    BY <1>2, <1>a, <1>c, <1>f DEF StatArtifact, CallSound, InCall, Mine, ReadersTyped
  <2>5. QED BY <1>d, <2>1, <2>2, <2>3, <2>4 DEF AnswerInv
<1>3. CASE LookInCache(t)
  <2>1. UNCHANGED <<open, opened, stamp, answer, window>> BY <1>3 DEF LookInCache
  <2>2. RememberedOld' BY <1>c, <1>f, <2>1 DEF RememberedOld, Old
  <2>3. StampsFirst' BY <1>3, <1>a, <1>f, <2>1 DEF LookInCache, StampsFirst, NotBefore, ReadersTyped
  <2>4. \A u \in Threads \ {t} : CallSound(u)'
    BY <1>3, <1>a, <1>c, <1>f, <2>1 DEF LookInCache, CallSound, InCall, Mine, ReadersTyped
  <2>5. CallSound(t)'
    <3>1. CASE IsCurrent(t)
      <4>1. using'[t] = open.object /\ pc'[t] = "query" /\ pc[t] = "look"
        BY <1>3, <1>a, <3>1 DEF LookInCache, ReadersTyped
      <4> DEFINE o == open.object
      <4>2. o \in DOMAIN opened /\ open # None /\ open.stamp = stamp[t]
        BY <1>i, <3>1 DEF IsCurrent
      <4>3. opened[o][t] # None => opened[o][t] = stamp[t]
        <5>1. opened[o][t] # None => opened[o][t] <= stamp[t]
          BY <1>f, <4>1, <4>2 DEF CallSound
        <5>2. opened[o][t] # None => stamp[t] <= opened[o][t]
          BY <1>f, <4>2 DEF StampsFirst, NotBefore
        <5>3. stamp[t] \in Artifacts /\ (opened[o][t] # None => opened[o][t] \in Artifacts)
          BY <1>g, <1>i, <4>2
        <5>4. QED
          <6> SUFFICES ASSUME opened[o][t] # None PROVE opened[o][t] = stamp[t]
            OBVIOUS
          <6>1. opened[o][t] \in Nat /\ stamp[t] \in Nat BY <1>b, <5>3
          <6>2. QED BY <5>1, <5>2, <6>1
      <4>4. Mine(t)' = opened[o][t] BY <2>1, <4>1 DEF Mine
      <4>5. QED BY <1>c, <1>f, <2>1, <4>1, <4>3, <4>4 DEF CallSound, InCall
    <3>2. CASE ~IsCurrent(t)
      BY <1>3, <1>a, <1>c, <1>f, <2>1, <3>2 DEF LookInCache, CallSound, InCall, ReadersTyped
    <3>3. QED BY <3>1, <3>2
  <2>6. QED BY <1>d, <2>2, <2>3, <2>4, <2>5 DEF AnswerInv
<1>4. CASE Construct(t)
  <2>1. CASE EndCall(t) /\ UNCHANGED opened
    BY <1>1, <1>4, <2>1 DEF Construct
  <2>2. CASE /\ installed # None
             /\ Len(opened) < MaxOpened
             /\ opened' = Append(opened, Connect(t, [u \in Threads |-> None]))
             /\ using' = [using EXCEPT ![t] = Len(opened) + 1]
             /\ Goto(t, AfterConstruct(t))
             /\ UNCHANGED stamp
    <3> DEFINE n == Len(opened) + 1
    <3>1. /\ DOMAIN opened' = DOMAIN opened \cup {n}
          /\ \A o \in DOMAIN opened : opened'[o] = opened[o]
          /\ \A u \in Threads : opened'[n][u] = IF u = t THEN installed ELSE None
      BY <1>a, <2>2, ConstructConnects
    <3>2. /\ UNCHANGED <<open, stamp, answer, window>>
          /\ pc[t] = "construct"
          /\ pc'[t] = AfterConstruct(t) /\ \A u \in Threads \ {t} : pc'[u] = pc[u]
          /\ using'[t] = n /\ \A u \in Threads \ {t} : using'[u] = using[u]
      BY <1>4, <1>a, <2>2 DEF Construct, ReadersTyped
    <3> HIDE DEF n
    <3>3. \A u \in Threads \ {t} : pc[u] \in {"store", "query"} =>
            using[u] \in DOMAIN opened /\ opened'[using[u]] = opened[using[u]]
      BY <1>a, <3>1 DEF ObjectsKnown
    <3>4. RememberedOld'
      BY <1>c, <1>e, <1>f, <3>1, <3>2 DEF RememberedOld, Old
    <3>5. StampsFirst'
      <4>1. open' # None => NotBefore(open.object, open.stamp)'
        BY <1>f, <1>i, <3>1, <3>2 DEF StampsFirst, NotBefore
      <4>2. \A u \in Threads \ {t} : pc'[u] = "store" => NotBefore(using[u], stamp[u])'
        BY <1>f, <3>1, <3>2, <3>3 DEF StampsFirst, NotBefore
      <4>3. pc'[t] = "store" => NotBefore(using[t], stamp[t])'
        <5>1. stamp[t] # None => stamp[t] <= installed
          BY <1>f, <2>2 DEF RememberedOld, Old
        <5>2. QED BY <3>1, <3>2, <5>1 DEF AfterConstruct, NotBefore
      <4>4. QED BY <4>1, <4>2, <4>3 DEF StampsFirst
    <3>6. \A u \in Threads \ {t} : CallSound(u)'
      <4>1. \A u \in Threads \ {t} : pc[u] \in {"store", "query"} => Mine(u)' = Mine(u)
        BY <3>2, <3>3 DEF Mine
      <4>2. \A u \in Threads \ {t} : opened'[n][u] = None BY <3>1
      <4>3. QED BY <1>c, <1>f, <3>1, <3>2, <4>1, <4>2 DEF CallSound, InCall
    <3>7. CallSound(t)'
      <4>1. Mine(t)' = installed BY <3>1, <3>2 DEF Mine
      <4>2. pc'[t] \in {"store", "query"} BY <3>2 DEF AfterConstruct
      <4>3. QED BY <1>c, <1>f, <3>2, <4>1, <4>2 DEF CallSound, InCall
    <3>8. QED BY <1>d, <3>4, <3>5, <3>6, <3>7 DEF AnswerInv
  <2>3. QED BY <1>4, <2>1, <2>2 DEF Construct
<1>5. CASE StoreInCache(t)
  <2>1. /\ UNCHANGED <<opened, stamp, using, answer, window>>
        /\ pc[t] = "store" /\ pc' = [pc EXCEPT ![t] = "query"]
        /\ open' = [stamp |-> stamp[t], object |-> using[t]]
    BY <1>5 DEF StoreInCache
  <2>2. stamp[t] # None BY <1>a, <2>1 DEF ObjectsKnown
  <2>3. RememberedOld' BY <1>c, <1>f, <2>1, <2>2 DEF RememberedOld, Old
  <2>4. StampsFirst'
    <3>1. NotBefore(open.object, open.stamp)' BY <1>f, <2>1 DEF StampsFirst, NotBefore
    <3>2. \A u \in Threads : pc'[u] = "store" => NotBefore(using[u], stamp[u])'
      BY <1>a, <1>f, <2>1 DEF StampsFirst, NotBefore, ReadersTyped
    <3>3. QED BY <3>1, <3>2 DEF StampsFirst
  <2>5. \A u \in Threads : CallSound(u)'
    BY <1>a, <1>c, <1>f, <2>1 DEF CallSound, InCall, Mine, ReadersTyped
  <2>6. QED BY <1>d, <2>3, <2>4, <2>5 DEF AnswerInv
<1>6. CASE Query(t)
  <2>1. CASE Connection(t) = None
    BY <1>1, <1>6, <2>1 DEF Query
  <2>2. CASE Connection(t) # None
    <3> DEFINE o == using[t]
               a == Connection(t)
    <3>1. /\ DOMAIN opened' = DOMAIN opened
          /\ o \in DOMAIN opened
          /\ \A j \in DOMAIN opened, u \in Threads :
               opened'[j][u] = IF j = o /\ u = t THEN a ELSE opened[j][u]
          /\ a = IF opened[o][t] = None THEN installed ELSE opened[o][t]
      BY <1>6, <2>2, QueryConnects
    <3>2. /\ pc[t] = "query"
          /\ answer' = [answer EXCEPT ![t] = Append(answer[t], a)]
          /\ IF Len(answer[t]) = 0 THEN UNCHANGED <<pc, stamp, using>> ELSE EndCall(t)
          /\ UNCHANGED <<open, window>>
      BY <1>6, <2>2 DEF Query
    <3>3. a \in window[t] /\ a # None /\ (opened[o][t] # None => opened[o][t] = a)
      BY <1>f, <2>2, <3>1, <3>2 DEF CallSound, InCall, Mine
    <3>4. a = installed \/ opened[o][t] = a BY <3>1
    <3> HIDE DEF a
    <3>5. /\ \A u \in Threads \ {t} : pc'[u] = pc[u] /\ stamp'[u] = stamp[u]
                                      /\ using'[u] = using[u] /\ answer'[u] = answer[u]
          /\ \/ pc'[t] = "query" /\ using'[t] = o /\ stamp'[t] = stamp[t] /\ answer[t] = <<>>
             \/ pc'[t] = "return" /\ stamp'[t] = None /\ answer[t] # <<>>
          /\ answer'[t] = Append(answer[t], a)
      <4>1. answer[t] \in Seq(Artifacts) BY <1>a DEF ReadersTyped
      <4>2. Len(answer[t]) = 0 <=> answer[t] = <<>> BY <4>1
      <4> DEFINE more == Append(answer[t], a)
      <4>3. answer' = [answer EXCEPT ![t] = more] BY <3>2
      <4> HIDE DEF more
      <4>4. answer'[t] = more /\ \A u \in Threads \ {t} : answer'[u] = answer[u]
        BY <1>a, <4>3 DEF ReadersTyped
      <4>5. more = Append(answer[t], a) BY DEF more
      <4>6. QED BY <1>a, <3>2, <4>2, <4>4, <4>5 DEF EndCall, ReadersTyped
    <3>6. Old(a)
      BY <1>b, <1>e, <1>f, <3>1, <3>3, <3>4 DEF RememberedOld
    <3>7. RememberedOld'
      <4>1. \A b : Old(b) => Old(b)' BY <1>c DEF Old
      <4>2. QED BY <1>c, <1>f, <3>1, <3>2, <3>5, <3>6 DEF RememberedOld, Old
    <3>8. StampsFirst'
      <4>1. ASSUME NEW j \in DOMAIN opened, NEW s, s # None, Old(s), NotBefore(j, s)
            PROVE  \A u \in Threads : opened'[j][u] # None => s <= opened'[j][u]
        BY <3>1, <3>3, <3>4, <4>1 DEF NotBefore, Old
      <4>2. ASSUME open' # None PROVE NotBefore(open.object, open.stamp)'
        BY <1>b, <1>f, <1>i, <3>2, <4>1, <4>2 DEF StampsFirst, NotBefore, RememberedOld
      <4>3. ASSUME NEW u \in Threads, pc'[u] = "store" PROVE NotBefore(using[u], stamp[u])'
        <5>1. u # t /\ pc[u] = "store" BY <3>5, <4>3
        <5>2. using[u] \in DOMAIN opened /\ stamp[u] # None BY <1>a, <5>1 DEF ObjectsKnown
        <5>3. QED BY <1>f, <3>5, <4>1, <5>1, <5>2 DEF StampsFirst, NotBefore, RememberedOld
      <4>4. QED BY <4>2, <4>3 DEF StampsFirst
    <3>9. \A u \in Threads \ {t} : CallSound(u)'
      <4>1. \A u \in Threads \ {t} : pc[u] \in {"store", "query"} => Mine(u)' = Mine(u)
        BY <1>a, <3>1, <3>5 DEF Mine, ObjectsKnown
      <4>2. QED BY <1>c, <1>f, <3>1, <3>2, <3>5, <4>1 DEF CallSound, InCall
    <3>10. CallSound(t)'
      <4>1. /\ \A i \in DOMAIN answer'[t] : answer'[t][i] = a
            /\ pc'[t] = "query" => answer'[t] = <<a>>
        <5>1. answer[t] = <<>> \/ answer[t] = <<Mine(t)>>
          BY <1>f, <3>2 DEF CallSound
        <5>2. answer[t] # <<>> => answer[t] = <<a>>
          <6>1. answer[t] \in Seq(Artifacts) BY <1>a DEF ReadersTyped
          <6>2. answer[t] = <<Mine(t)>> => Mine(t) # None
            <7> SUFFICES ASSUME answer[t] = <<Mine(t)>> PROVE Mine(t) # None
              OBVIOUS
            <7>1. Len(answer[t]) = 1 /\ answer[t][1] = Mine(t) OBVIOUS
            <7>2. Mine(t) \in Artifacts BY <6>1, <7>1, ElementOfSeq
            <7>3. QED BY <1>b, <7>2
          <6>3. QED BY <3>3, <5>1, <6>2 DEF Mine
        <5>3. CASE answer[t] = <<>>
          <6>1. answer'[t] = <<a>> BY <3>5, <5>3
          <6>2. QED BY <6>1
        <5>4. CASE answer[t] # <<>>
          <6>1. answer'[t] = Append(<<a>>, a) BY <3>5, <5>2, <5>4
          <6>2. pc'[t] = "return" BY <3>5, <5>4
          <6>3. <<a>> \in Seq({a}) OBVIOUS
          <6>4. Append(<<a>>, a) \in Seq({a}) BY <6>3
          <6>5. \A i \in DOMAIN Append(<<a>>, a) : Append(<<a>>, a)[i] = a
            BY <6>4, ElementOfSeq, LenProperties
          <6>6. QED BY <6>1, <6>2, <6>5
        <5>5. QED BY <5>3, <5>4
      <4>2. pc'[t] = "query" => Mine(t)' = a BY <3>1, <3>5 DEF Mine
      <4>3. InCall(t) /\ installed \in window[t] BY <1>f, <3>2 DEF CallSound, InCall
      <4>4. QED BY <1>c, <3>2, <3>3, <3>5, <4>1, <4>2, <4>3 DEF CallSound
    <3>11. QED BY <1>d, <3>7, <3>8, <3>9, <3>10 DEF AnswerInv
  <2>3. QED BY <2>1, <2>2
<1>7. CASE Return(t)
  <2>1. RememberedOld' BY <1>7, <1>c, <1>f DEF Return, RememberedOld, Old
  <2>2. StampsFirst' BY <1>7, <1>a, <1>f DEF Return, StampsFirst, NotBefore, ReadersTyped
  <2>3. \A u \in Threads : CallSound(u)'
    BY <1>7, <1>a, <1>c, <1>f DEF Return, CallSound, InCall, Mine, ReadersTyped
  <2>4. QED BY <1>d, <2>1, <2>2, <2>3 DEF AnswerInv
<1>8. QED BY <1>2, <1>3, <1>4, <1>5, <1>6, <1>7

\* What holds of every reader's call, in every reachable state.
LEMMA AnswersAlwaysSound == Spec => [](TypeInv /\ AnswerInv)
<1>1. Init => TypeInv /\ AnswerInv
  <2>1. Init => AnswerInv
    BY DEF Init, AnswerInv, FilesOrdered, RememberedOld, StampsFirst, CallSound, InCall
  <2>2. QED BY <2>1, TypeInvInitial
<1>2. TypeInv /\ AnswerInv /\ [Next]_vars => (TypeInv /\ AnswerInv)'
  <2> SUFFICES ASSUME TypeInv, AnswerInv, [Next]_vars PROVE (TypeInv /\ AnswerInv)'
    OBVIOUS
  <2>1. TypeInv' BY TypeInvStable
  <2>2. CASE Uninstall
    BY <2>1, <2>2, FileStepSound DEF Uninstall, FileStep, builderVars
  <2>3. CASE UNCHANGED vars
    BY <2>1, <2>3, FileStepSound DEF vars, fileVars, builderVars, FileStep
  <2>4. AnswerInv'
    BY <2>1, <2>2, <2>3, FileSteps, FileStepSound, ReaderStepSound DEF Next
  <2>5. QED BY <2>1, <2>4
<1>3. QED BY <1>1, <1>2, PTL DEF Spec

\* A call is answered by artifacts that were installed at some time during the
\* call, whatever builders and the other threads do.
THEOREM AnswersAlwaysCurrent == Spec => []AnswersCurrent
<1>1. AnswerInv => AnswersCurrent
  BY DEF AnswerInv, CallSound, AnswersCurrent
<1>2. QED BY <1>1, AnswersAlwaysSound, PTL

\* Both queries of a call are answered by one artifact.
THEOREM AlwaysOneArtifactPerCall == Spec => []OneArtifactPerCall
<1>1. AnswerInv => OneArtifactPerCall
  BY DEF AnswerInv, CallSound, OneArtifactPerCall
<1>2. QED BY <1>1, AnswersAlwaysSound, PTL
=============================================================================
