---------------------------- MODULE AcquireProofs ----------------------------
(***************************************************************************)
(* Proofs about Acquire: for every set of files and archives, every list   *)
(* of sources, every release of the server and every way builds may end,   *)
(* a build loads what is current and, where it can tell, whole.            *)
(*                                                                         *)
(* The properties speak of what has been loaded.  What carries them over   *)
(* from one build to the next is the state of the cache (CacheInv): a      *)
(* sidecar never names a later version than the copy it lies next to, and  *)
(* whatever is newer than an archive was extracted from it.  Within a      *)
(* build, the copy at hand is current from its publication on (CopyInv).   *)
(***************************************************************************)
EXTENDS Acquire, FiniteSetTheorems, SequenceTheorems, TLAPS

Config == [pins : Pinnings, keep : BOOLEAN]
Response == [version : Versions, declared : BOOLEAN, validated : BOOLEAN]
Answer == [response : Response, received : Nat]
Entry == [source : DOMAIN Sources,
          content : [version : Versions, whole : BOOLEAN],
          torn : BOOLEAN, vouched : BOOLEAN]

\* What a build at each of its steps has in its hands.
StepInv ==
  /\ pc # "idle" => config \in Config
  /\ pc \in {"publish", "record"} => answer \in Answer
  /\ pc \in {"record", "resolve", "clear", "mkdir", "unpack", "load"} => local[file] \in File
  /\ pc \in {"clear", "mkdir", "unpack"} => file \in Archives
  /\ pc \in {"clear", "unpack"} => extracted[file] \in Extraction
  /\ pc = "load" /\ file \in Archives => extracted[file] \in Extraction
  /\ pc = "unpack" => extracted[file].whole # MemberSet
  /\ loaded \in Seq(Entry)
  /\ pc \notin {"idle", "leave"} => Len(loaded) < current

\* What the builds leave to each other: the copies,
CopiesOld == \A f \in Files : local[f] # None =>
  /\ local[f].version <= server[f]
  /\ local[f].vouched => IsWhole(f)

\* the sidecars next to them,
SidecarsBehind == \A f \in Files :
  sidecar[f] # None /\ sidecar[f].validator # None =>
    /\ sidecar[f].validator <= server[f]
    /\ local[f] # None => sidecar[f].validator <= local[f].version

\* and the directories of the archives.
ExtractionsDated == \A f \in Archives :
  extracted[f] # None /\ local[f] # None =>
    (extracted[f].newer \/ (extracted[f].touched /\ f \notin torn) =>
       extracted[f].version = local[f].version)

ExtractionsDone == \A f \in Archives : extracted[f] # None /\ f \notin torn =>
  extracted[f].whole = MemberSet \/ (pc = "unpack" /\ f = file)

CacheInv == CopiesOld /\ SidecarsBehind /\ ExtractionsDated /\ ExtractionsDone

\* The response to a GET is no older than the build, nor than the sidecar.
AnswerInv == pc \in {"publish", "record"} =>
  /\ answer.response.version \in began[file] .. server[file]
  /\ pc = "publish" /\ sidecar[file] # None /\ sidecar[file].validator # None =>
       sidecar[file].validator <= answer.response.version
  /\ pc = "record" => local[file].version = answer.response.version

\* The copy is the pinned one, or one the server had during this build.
CopyInv == pc \in {"record", "resolve", "clear", "mkdir", "unpack", "load"} =>
  IF pin # None THEN local[file].version = pin /\ IsWhole(file)
                ELSE local[file].version \in began[file] .. server[file]

\* What is about to be loaded from an archive's directory was dated right.
TargetInv ==
  /\ pc = "unpack" => extracted[file].newer /\ extracted[file].touched
  /\ pc = "load" /\ file \in Archives =>
       IF target = Directory THEN extracted[file].touched ELSE extracted[file].newer

AcquireInv ==
  /\ TypeOK
  /\ StepInv
  /\ \A f \in Files : began[f] <= server[f]
  /\ CacheInv
  /\ AnswerInv
  /\ CopyInv
  /\ TargetInv
  /\ LoadsCurrent
  /\ LoadsWhole

-----------------------------------------------------------------------------
(***************************************************************************)
(* The constants.                                                          *)
(***************************************************************************)

\* The source at hand names a file, and for an archive something it holds.
LEMMA SourceAtHand ==
  ASSUME current \in 1 .. Len(Sources)
  PROVE  /\ current \in DOMAIN Sources
         /\ file \in Files
         /\ target \in MemberSet \cup {Directory, None}
         /\ file \in Archives => target \in MemberSet \cup {Directory}
<1>1. /\ Sources \in Seq([file : Files, target : MemberSet \cup {Directory, None}])
      /\ DOMAIN Sources = 1 .. Len(Sources)
  BY SourcesAssumption
<1>2. Sources[current] \in [file : Files, target : MemberSet \cup {Directory, None}]
  BY <1>1, ElementOfSeq
<1> QED
  BY <1>1, <1>2, SourcesAssumption DEF file, target

\* The members of an archive are finitely many, and there is one at least.
LEMMA FiniteMembers ==
  /\ IsFiniteSet(MemberSet)
  /\ MemberSet # {}
  /\ Cardinality(MemberSet) = Len(Members)
  /\ Len(Members) \in Nat
<1>1. /\ Members \in [1 .. Len(Members) -> MemberSet]
      /\ Len(Members) \in Nat
      /\ Members # <<>>
  BY MembersAssumption
<1>2. \A m \in MemberSet : \E i \in 1 .. Len(Members) : Members[i] = m
  BY <1>1 DEF MemberSet
<1>3. Members \in Surjection(1 .. Len(Members), MemberSet)
  BY <1>1, <1>2 DEF Surjection
<1>4. IsFiniteSet(1 .. Len(Members))
  BY <1>1, FS_Interval
<1>5. IsFiniteSet(MemberSet)
  BY <1>3, <1>4, FS_Surjection
<1>6. Len(Members) # 0
  BY <1>1, MembersAssumption
<1>7. 1 \in DOMAIN Members
  BY <1>1, <1>6
<1> QED
  BY <1>1, <1>5, <1>7, MembersAssumption DEF MemberSet

\* As long as a member is missing there is a next one.
LEMMA NextMemberType ==
  ASSUME NEW x, x.whole \in SUBSET MemberSet, x.whole # MemberSet
  PROVE  NextMember(x) \in MemberSet
<1>1. /\ IsFiniteSet(x.whole)
      /\ Cardinality(x.whole) <= Cardinality(MemberSet)
      /\ Cardinality(MemberSet) = Cardinality(x.whole) => MemberSet = x.whole
  BY FiniteMembers, FS_Subset
<1>2. Cardinality(x.whole) \in Nat
  BY <1>1, FS_CardinalityType
<1>3. Cardinality(x.whole) + 1 \in 1 .. Len(Members)
  BY <1>1, <1>2, FiniteMembers
<1>4. Cardinality(x.whole) + 1 \in DOMAIN Members
  BY <1>3, MembersAssumption
<1> QED
  BY <1>4 DEF NextMember, MemberSet

\* A version has a size of one at least.
LEMMA SizeType ==
  ASSUME NEW v \in Versions
  PROVE  v \in Nat /\ v >= 1 /\ SizeOf[v] \in Nat /\ SizeOf[v] >= 1
<1>1. /\ SizeOf \in Seq(Nat \ {0})
      /\ DOMAIN SizeOf = 1 .. Len(SizeOf)
  BY SizesAssumption
<1>2. v \in 1 .. Len(SizeOf) /\ Len(SizeOf) \in Nat
  BY <1>1 DEF Versions
<1>3. SizeOf[v] \in Nat \ {0}
  BY <1>1, <1>2
<1> QED
  BY <1>2, <1>3

-----------------------------------------------------------------------------
(***************************************************************************)
(* Types, and what a step finds at hand.                                   *)
(***************************************************************************)

\* As long as the build is at one source, the names that are about it stay.
LEMMA SameSource ==
  ASSUME current' = current
  PROVE  /\ file' = file
         /\ target' = target
         /\ config' = config => pin' = pin
BY DEF file, target, pin

\* What a GET answers.
LEMMA ResponseType ==
  ASSUME NEW f \in Files, server \in [Files -> Versions], NEW r \in Responses(f)
  PROVE  r \in Response /\ r.version = server[f]
BY DEF Responses, Response

\* What a cut off removal leaves of a directory is a part of it with its dates.
LEMMA HalfRemovedType ==
  ASSUME NEW x \in Extraction, NEW y \in HalfRemoved(x)
  PROVE  y \in Extraction /\ y.version = x.version /\ y.newer = x.newer
BY DEF HalfRemoved, Extraction

\* And what a cut off extraction leaves.
LEMMA LeftoversType ==
  ASSUME pc \in {"clear", "unpack"}, NEW x \in Extraction,
         pc = "unpack" => x.whole # MemberSet,
         NEW y \in Leftovers(x)
  PROVE  y \in Extraction /\ y.version = x.version /\ y.newer = x.newer
<1>1. CASE pc = "clear"
  BY <1>1, HalfRemovedType DEF Leftovers
<1>2. CASE pc = "unpack"
  <2>1. NextMember(x) \in MemberSet
    BY <1>2, NextMemberType DEF Extraction
  <2>2. y = x \/ y = [x EXCEPT !.cut = {NextMember(x)}]
    BY <1>2 DEF Leftovers
  <2> QED
    BY <2>1, <2>2 DEF Extraction
<1> QED
  BY <1>1, <1>2

\* A cut-off of any kind leaves the directories of the other archives alone, and
\* marks this one.
LEMMA CutOffEffect ==
  ASSUME TypeOK, StepInv, CutOff
  PROVE  /\ extracted' \in [Archives -> Extraction \cup {None}]
         /\ torn' \in SUBSET Archives
         /\ torn \subseteq torn'
         /\ \A f \in Archives : extracted'[f] # extracted[f] =>
              /\ f \in torn'
              /\ extracted[f] \in Extraction
              /\ extracted'[f] \in Extraction
              /\ extracted'[f].version = extracted[f].version
              /\ extracted'[f].newer = extracted[f].newer
         /\ pc = "unpack" => file \in torn'
<1>1. CASE pc \in {"clear", "unpack"}
  <2>1. PICK x \in Leftovers(extracted[file]) : extracted' = [extracted EXCEPT ![file] = x]
    BY <1>1 DEF CutOff
  <2>2. /\ file \in Archives
        /\ extracted[file] \in Extraction
        /\ pc = "unpack" => extracted[file].whole # MemberSet
    BY <1>1 DEF StepInv
  <2>3. x \in Extraction /\ x.version = extracted[file].version /\ x.newer = extracted[file].newer
    BY <1>1, <2>2, LeftoversType
  <2>4. torn' = torn \cup {file}
    BY <1>1 DEF CutOff
  <2> QED
    BY <2>1, <2>2, <2>3, <2>4 DEF TypeOK
<1>2. CASE pc \notin {"clear", "unpack"}
  BY <1>2 DEF CutOff, TypeOK
<1> QED
  BY <1>1, <1>2

\* A build is over in four ways; one that raised has its cleanup to go.
Ending == Finish \/ Raise \/ Kill \/ CutOffCleanUp

\* What a build leaves behind, however it ends: some of the copies and sidecars
\* as they were, and some of the directories, each with its dates, and whole
\* unless it is marked.
Leaves ==
  /\ local' \in [Files -> File \cup {None}]
  /\ sidecar' \in [Files -> Sidecar \cup {None}]
  /\ extracted' \in [Archives -> Extraction \cup {None}]
  /\ torn' \in SUBSET Archives
  /\ \A f \in Files : local'[f] # None => local'[f] = local[f]
  /\ \A f \in Files : sidecar'[f] # None => sidecar'[f] = sidecar[f]
  /\ \A f \in Archives : extracted'[f] # None =>
       /\ extracted[f] \in Extraction
       /\ extracted'[f].version = extracted[f].version
       /\ extracted'[f].newer = extracted[f].newer
       /\ f \notin torn' => /\ f \notin torn
                            /\ extracted'[f] = extracted[f]
                            /\ ~(pc = "unpack" /\ f = file)

\* So it is when the build is cut off,
LEMMA CutOffLeaves ==
  ASSUME TypeOK, StepInv, CutOff, UNCHANGED <<local, sidecar>>
  PROVE  Leaves
<1>1. /\ extracted' \in [Archives -> Extraction \cup {None}]
      /\ torn' \in SUBSET Archives
      /\ torn \subseteq torn'
      /\ \A f \in Archives : extracted'[f] # extracted[f] =>
           /\ f \in torn'
           /\ extracted[f] \in Extraction
           /\ extracted'[f] \in Extraction
           /\ extracted'[f].version = extracted[f].version
           /\ extracted'[f].newer = extracted[f].newer
      /\ pc = "unpack" => file \in torn'
  BY CutOffEffect
<1>2. /\ local' \in [Files -> File \cup {None}] /\ local' = local
      /\ sidecar' \in [Files -> Sidecar \cup {None}] /\ sidecar' = sidecar
      /\ extracted \in [Archives -> Extraction \cup {None}]
  BY DEF TypeOK
<1> HIDE DEF File, Sidecar, Extraction
<1> QED
  BY <1>1, <1>2 DEF Leaves

\* A cleanup leaves nothing, and without one everything stays, which is whole
\* where nothing was being extracted.
LEMMA CleanUpLeaves ==
  ASSUME TypeOK, StepInv, CleanUp, config.keep => pc # "unpack"
  PROVE  Leaves
<1>1. CASE config.keep
  <2>1. UNCHANGED <<diskVars, torn>> /\ pc # "unpack"
    BY <1>1 DEF CleanUp
  <2> QED
    BY <2>1 DEF TypeOK, Leaves, diskVars
<1>2. CASE ~config.keep
  <2>1. /\ local' = Emptied(Files)
        /\ sidecar' = Emptied(Files)
        /\ extracted' = Emptied(Archives)
        /\ torn' = {}
    BY <1>2 DEF CleanUp
  <2> QED
    BY <2>1 DEF Emptied, Leaves
<1> QED
  BY <1>1, <1>2

\* A cut-off cleanup leaves any part.
LEMMA CutOffCleanUpLeaves ==
  ASSUME TypeOK, StepInv, CutOffCleanUp
  PROVE  Leaves
<1>1. PICK gone \in SUBSET Files :
         local' = [f \in Files |-> IF f \in gone THEN None ELSE local[f]]
  BY DEF CutOffCleanUp
<1>2. PICK lost \in SUBSET Files :
         sidecar' = [f \in Files |-> IF f \in lost THEN None ELSE sidecar[f]]
  BY DEF CutOffCleanUp
<1>3. PICK rest \in [Archives -> {None} \cup UNION {HalfRemoved(extracted[f]) :
                       f \in {g \in Archives : extracted[g] # None}}] :
         /\ \A f \in Archives : rest[f] # None =>
              extracted[f] # None /\ rest[f] \in HalfRemoved(extracted[f])
         /\ extracted' = rest
         /\ torn' = {f \in Archives : rest[f] # None /\ (f \in torn \/ rest[f] # extracted[f])}
  BY DEF CutOffCleanUp
<1>4. /\ DOMAIN extracted' = Archives
      /\ extracted' = [f \in Archives |-> extracted'[f]]
  BY <1>3
<1>5. ASSUME NEW f \in Archives, extracted'[f] # None
      PROVE  /\ extracted[f] \in Extraction
             /\ extracted'[f] \in Extraction
             /\ extracted'[f].version = extracted[f].version
             /\ extracted'[f].newer = extracted[f].newer
             /\ f \notin torn' => f \notin torn /\ extracted'[f] = extracted[f]
  <2>1. /\ extracted[f] \in Extraction
        /\ extracted'[f] \in HalfRemoved(extracted[f])
    BY <1>3, <1>5 DEF TypeOK
  <2>2. /\ extracted'[f] \in Extraction
        /\ extracted'[f].version = extracted[f].version
        /\ extracted'[f].newer = extracted[f].newer
    BY <2>1, HalfRemovedType
  <2> QED
    BY <1>3, <1>5, <2>1, <2>2
<1>6. pc = "leave"
  BY DEF CutOffCleanUp
<1>7. extracted' \in [Archives -> Extraction \cup {None}]
  BY <1>4, <1>5
<1>8. torn' \in SUBSET Archives
  BY <1>3
<1>9. /\ local' \in [Files -> File \cup {None}]
      /\ \A f \in Files : local'[f] # None => local'[f] = local[f]
  BY <1>1 DEF TypeOK
<1>10. /\ sidecar' \in [Files -> Sidecar \cup {None}]
       /\ \A f \in Files : sidecar'[f] # None => sidecar'[f] = sidecar[f]
  BY <1>2 DEF TypeOK
<1> HIDE DEF File, Sidecar, Extraction
<1> QED
  BY <1>5, <1>6, <1>7, <1>8, <1>9, <1>10 DEF Leaves

\* What the build had in memory is gone.
Forgotten ==
  /\ loaded' = <<>> /\ current' = 1 /\ answer' = None
  /\ \/ pc' = "idle" /\ config' = None
     \/ pc' = "leave" /\ config' = config /\ pc # "idle"

\* Together: all a build leaves, and nothing of what it had in memory.
LEMMA EndingLeaves ==
  ASSUME TypeOK, StepInv, Ending
  PROVE  /\ Leaves
         /\ Forgotten
         /\ UNCHANGED <<server, builds, began>>
<1>1. ASSUME Finish
      PROVE  Leaves /\ Forgotten /\ UNCHANGED <<server, builds, began>>
  BY <1>1, CleanUpLeaves DEF Finish, Over, Forgotten
<1>2. ASSUME Raise
      PROVE  Leaves /\ Forgotten /\ UNCHANGED <<server, builds, began>>
  BY <1>2, CutOffLeaves DEF Raise, Forgotten
<1>3. ASSUME Kill
      PROVE  Leaves /\ Forgotten /\ UNCHANGED <<server, builds, began>>
  BY <1>3, CutOffLeaves DEF Kill, Over, Forgotten
<1>4. ASSUME CutOffCleanUp
      PROVE  Leaves /\ Forgotten /\ UNCHANGED <<server, builds, began>>
  BY <1>4, CutOffCleanUpLeaves DEF CutOffCleanUp, Over, Forgotten
<1> QED
  BY <1>1, <1>2, <1>3, <1>4 DEF Ending

\* In the initial state there is nothing in the cache and no build.
LEMMA AcquireInvInit == Init => AcquireInv
<1> SUFFICES ASSUME Init PROVE AcquireInv
  OBVIOUS
<1>1. 1 \in Versions
  <2>1. SizeOf \in Seq(Nat \ {0}) /\ SizeOf # <<>>
    BY SizesAssumption
  <2>2. Len(SizeOf) \in Nat /\ Len(SizeOf) # 0 /\ DOMAIN SizeOf = 1 .. Len(SizeOf)
    BY <2>1
  <2> QED
    BY <2>2 DEF Versions
<1>2. 1 \in 1 .. Len(Sources)
  <2>1. /\ Sources \in Seq([file : Files, target : MemberSet \cup {Directory, None}])
        /\ Sources # <<>>
    BY SourcesAssumption
  <2>2. Len(Sources) \in Nat /\ Len(Sources) # 0
    BY <2>1
  <2> QED
    BY <2>2
<1>3. TypeOK
  <2>1. loaded = <<>> /\ Len(loaded) = 0
    BY DEF Init
  <2> QED
    BY <1>1, <1>2, <2>1, MaxBuildsAssumption DEF Init, TypeOK, Steps
<1>4. StepInv
  BY DEF Init, StepInv
<1>5. CacheInv /\ \A f \in Files : began[f] <= server[f]
  BY FilesAssumption DEF Init, CacheInv, CopiesOld, SidecarsBehind, ExtractionsDated,
                         ExtractionsDone
<1>6. AnswerInv /\ CopyInv /\ TargetInv
  BY DEF Init, AnswerInv, CopyInv, TargetInv
<1>7. LoadsCurrent /\ LoadsWhole
  BY DEF Init, LoadsCurrent, LoadsWhole, Loads
<1> QED
  BY <1>3, <1>4, <1>5, <1>6, <1>7 DEF AcquireInv

\* Every step keeps the types.
LEMMA TypeStep ==
  ASSUME AcquireInv, [Next]_vars
  PROVE  TypeOK' /\ StepInv'
<1>0. /\ TypeOK /\ StepInv
      /\ current \in 1 .. Len(Sources)
      /\ Len(Sources) \in Nat
      /\ file \in Files
      /\ file \in Archives => target \in MemberSet \cup {Directory}
  BY SourceAtHand, SourcesAssumption DEF AcquireInv, TypeOK
<1> HIDE DEF File, Sidecar, Extraction, Config, Answer, Response, Entry
<1>1. ASSUME NEW f \in Files, Release(f)
      PROVE  TypeOK' /\ StepInv'
  BY <1>0, <1>1, SameSource DEF Release, TypeOK, StepInv, diskVars
<1>2. ASSUME NEW pins \in Pinnings, NEW keep \in BOOLEAN, StartBuild(pins, keep)
      PROVE  TypeOK' /\ StepInv'
  <2>1. config' \in Config /\ config' # None
    BY <1>2, NoneAssumption DEF StartBuild, Config
  <2>2. pc = "idle" /\ pc' = "look" /\ current' = 1 /\ loaded' = <<>> /\ Len(loaded') = 0
    BY <1>2 DEF StartBuild
  <2>3. TypeOK'
    BY <1>0, <1>2, <2>1, <2>2, MaxBuildsAssumption DEF StartBuild, TypeOK, diskVars, Steps
  <2>4. StepInv'
    BY <1>0, <2>1, <2>2 DEF StepInv
  <2> QED
    BY <2>3, <2>4
<1>3. ASSUME LookForCopy
      PROVE  TypeOK' /\ StepInv'
  <2>1. PICK reuse \in Reusable(file) : pc' = IF reuse THEN "resolve" ELSE "get"
    BY <1>3 DEF LookForCopy
  <2>2. reuse \in BOOLEAN /\ (reuse => local[file] # None)
    BY <2>1 DEF Reusable, MatchesDigest
  <2>3. pc = "look" /\ pc' \in {"resolve", "get"} /\ (pc' = "resolve" => local[file] \in File)
    BY <1>0, <1>3, <2>1, <2>2 DEF LookForCopy, TypeOK
  <2>4. TypeOK'
    BY <1>0, <1>3, <2>3 DEF LookForCopy, TypeOK, diskVars, Steps
  <2> QED
    BY <1>0, <1>3, <2>3, <2>4, SameSource DEF LookForCopy, StepInv, diskVars
<1>4. ASSUME StreamDownload
      PROVE  TypeOK' /\ StepInv'
  <2>1. PICK r \in Responses(file), missing \in {0, 1} :
          answer' = [response |-> r, received |-> SizeOf[r.version] - missing]
    BY <1>4 DEF StreamDownload
  <2>2. r \in Response /\ r.version \in Versions
    BY <1>0, ResponseType DEF TypeOK
  <2>3. SizeOf[r.version] - missing \in Nat
    BY <2>2, SizeType
  <2>4. answer' \in Answer
    BY <2>1, <2>2, <2>3 DEF Answer
  <2> QED
    BY <1>0, <1>4, <2>4, SameSource DEF StreamDownload, TypeOK, StepInv, diskVars, Steps
<1>5. ASSUME Publish
      PROVE  TypeOK' /\ StepInv'
  <2>1. answer \in Answer
    BY <1>0, <1>5 DEF Publish, StepInv
  <2> DEFINE copy == [version |-> answer.response.version, size |-> answer.received,
                      vouched |-> answer.response.declared]
  <2>2. copy \in File
    BY <2>1 DEF Answer, Response, File
  <2>3. local' = [local EXCEPT ![file] = copy]
    BY <1>5 DEF Publish
  <2> HIDE DEF copy
  <2>4. local' \in [Files -> File \cup {None}] /\ local'[file] \in File
    BY <1>0, <2>2, <2>3 DEF TypeOK
  <2>5. extracted' \in [Archives -> Extraction \cup {None}]
    <3>1. extracted' = [f \in Archives |->
            IF f = file /\ extracted[f] # None
              THEN [extracted[f] EXCEPT !.newer = FALSE, !.touched = FALSE]
              ELSE extracted[f]]
      BY <1>5 DEF Publish
    <3>2. ASSUME NEW f \in Archives
          PROVE  extracted'[f] \in Extraction \cup {None}
      <4>1. extracted[f] # None => extracted[f] \in Extraction
        BY <1>0 DEF TypeOK
      <4>2. extracted[f] \in Extraction =>
              [extracted[f] EXCEPT !.newer = FALSE, !.touched = FALSE] \in Extraction
        BY DEF Extraction
      <4> QED
        BY <3>1, <4>1, <4>2
    <3> QED
      BY <3>1, <3>2
  <2> QED
    BY <1>0, <1>5, <2>1, <2>4, <2>5, SameSource DEF Publish, TypeOK, StepInv, Steps
<1>6. ASSUME RecordValidators
      PROVE  TypeOK' /\ StepInv'
  <2>1. answer \in Answer
    BY <1>0, <1>6 DEF RecordValidators, StepInv
  <2> DEFINE record == [validator |-> IF answer.response.validated
                                        THEN answer.response.version ELSE None,
                        size |-> RecordedSize]
  <2>2. record \in Sidecar
    BY <2>1 DEF Answer, Response, Sidecar, RecordedSize
  <2>3. sidecar' = [sidecar EXCEPT ![file] = record]
    BY <1>6 DEF RecordValidators
  <2> HIDE DEF record
  <2>4. sidecar' \in [Files -> Sidecar \cup {None}]
    BY <1>0, <2>2, <2>3 DEF TypeOK
  <2> QED
    BY <1>0, <1>6, <2>4, SameSource DEF RecordValidators, TypeOK, StepInv, Steps
<1>7. ASSUME Resolve
      PROVE  TypeOK' /\ StepInv'
  <2>1. /\ pc' \in {"load", "clear", "mkdir"}
        /\ pc' = "load" /\ file \in Archives => extracted[file] # None
        /\ pc' \in {"clear", "mkdir"} => file \in Archives
        /\ pc' = "clear" => extracted[file] # None
    BY <1>7 DEF Resolve, IsFresh
  <2>2. file \in Archives => extracted[file] \in Extraction \cup {None}
    BY <1>0 DEF TypeOK
  <2> QED
    BY <1>0, <1>7, <2>1, <2>2, SameSource DEF Resolve, TypeOK, StepInv, diskVars, Steps
<1>8. ASSUME RemoveOldExtraction
      PROVE  TypeOK' /\ StepInv'
  BY <1>0, <1>8, SameSource DEF RemoveOldExtraction, TypeOK, StepInv, Steps
<1>9. ASSUME MakeDirectory
      PROVE  TypeOK' /\ StepInv'
  <2> DEFINE empty == [version |-> local[file].version, whole |-> {}, cut |-> {},
                       newer |-> TRUE, touched |-> TRUE]
  <2>1. file \in Archives /\ local[file] \in File
    BY <1>0, <1>9 DEF MakeDirectory, StepInv
  <2>2. empty \in Extraction /\ empty.whole # MemberSet
    BY <2>1, FiniteMembers DEF File, Extraction
  <2>3. extracted' = [extracted EXCEPT ![file] = empty]
    BY <1>9 DEF MakeDirectory
  <2> HIDE DEF empty
  <2>4. extracted' \in [Archives -> Extraction \cup {None}] /\ extracted'[file] = empty
    BY <1>0, <2>1, <2>2, <2>3 DEF TypeOK
  <2> QED
    BY <1>0, <1>9, <2>1, <2>2, <2>4, SameSource DEF MakeDirectory, TypeOK, StepInv, Steps
<1>10. ASSUME UnpackMember
       PROVE  TypeOK' /\ StepInv'
  <2>1. /\ file \in Archives
        /\ extracted[file] \in Extraction
        /\ extracted[file].whole # MemberSet
        /\ pc = "unpack"
    BY <1>0, <1>10 DEF UnpackMember, StepInv
  <2>2. NextMember(extracted[file]) \in MemberSet
    BY <2>1, NextMemberType DEF Extraction
  <2> DEFINE x == [extracted[file] EXCEPT !.whole = @ \cup {NextMember(extracted[file])}]
  <2>3. x \in Extraction
    BY <2>1, <2>2 DEF Extraction
  <2>4. extracted' = [extracted EXCEPT ![file] = x]
    BY <1>10 DEF UnpackMember
  <2> HIDE DEF x
  <2>5. extracted' \in [Archives -> Extraction \cup {None}] /\ extracted'[file] = x
    BY <1>0, <2>1, <2>3, <2>4 DEF TypeOK
  <2>6. /\ pc' \in {"load", "unpack"}
        /\ torn' \subseteq torn
        /\ pc' = "unpack" => extracted'[file].whole # MemberSet
    BY <1>10, <2>1 DEF UnpackMember
  <2> QED
    BY <1>0, <1>10, <2>1, <2>3, <2>5, <2>6, SameSource
    DEF UnpackMember, TypeOK, StepInv, Steps
<1>11. ASSUME Load
       PROVE  TypeOK' /\ StepInv'
  <2>1. /\ local[file] \in File
        /\ file \in Archives => extracted[file] \in Extraction
        /\ Len(loaded) < current
        /\ loaded \in Seq(Entry)
        /\ config \in Config
    BY <1>0, <1>11 DEF Load, StepInv
  <2> DEFINE entry == [source |-> current, content |-> Content, torn |-> file \in torn,
                       vouched |-> local[file].vouched \/ pin # None]
  <2>2. Content \in [version : Versions, whole : BOOLEAN]
    <3>1. CASE file \notin Archives
      BY <2>1, <3>1 DEF Content, File, IsWhole
    <3>2. CASE file \in Archives
      <4>1. CASE target = Directory
        <5>1. Content = [version |-> extracted[file].version,
                         whole |-> extracted[file].whole = MemberSet]
          BY <3>2, <4>1 DEF Content
        <5> QED
          BY <2>1, <3>2, <5>1 DEF Extraction
      <4>2. CASE target # Directory
        <5>1. Content = [version |-> extracted[file].version,
                         whole |-> target \in extracted[file].whole]
          BY <3>2, <4>2 DEF Content
        <5> QED
          BY <2>1, <3>2, <5>1 DEF Extraction
      <4> QED
        BY <4>1, <4>2
    <3> QED
      BY <3>1, <3>2
  <2>3. entry \in Entry
    BY <1>0, <2>2, SourceAtHand DEF Entry
  <2>4. loaded' = Append(loaded, entry)
    BY <1>11 DEF Load
  <2> HIDE DEF entry
  <2>5. loaded' \in Seq(Entry) /\ Len(loaded') = Len(loaded) + 1 /\ Len(loaded) \in Nat
    BY <2>1, <2>3, <2>4
  <2>6. \/ current < Len(Sources) /\ current' = current + 1 /\ pc' = "look"
        \/ current' = current /\ pc' = "leave"
    BY <1>11 DEF Load
  <2>7. TypeOK'
    BY <1>0, <1>11, <2>1, <2>5, <2>6 DEF Load, TypeOK, diskVars, Steps
  <2> QED
    BY <1>0, <1>11, <2>1, <2>5, <2>6, <2>7 DEF Load, StepInv
<1>12. ASSUME Ending
       PROVE  TypeOK' /\ StepInv'
  <2>1. Leaves /\ Forgotten /\ UNCHANGED <<server, builds, began>>
    BY <1>0, <1>12, EndingLeaves
  <2>2. /\ Len(loaded') = 0 /\ loaded' \in Seq(Entry) /\ current' = 1
        /\ pc' \in {"idle", "leave"}
        /\ (pc' = "idle") = (config' = None)
        /\ pc' # "idle" => config' \in Config
    BY <1>0, <2>1 DEF Forgotten, TypeOK, StepInv
  <2>3. TypeOK'
    BY <1>0, <2>1, <2>2 DEF Leaves, TypeOK, Steps
  <2> QED
    BY <2>2, <2>3 DEF StepInv
<1>13. ASSUME UNCHANGED vars
       PROVE  TypeOK' /\ StepInv'
  BY <1>0, <1>13, SameSource DEF vars, diskVars, TypeOK, StepInv
<1> QED
  BY <1>1, <1>2, <1>3, <1>4, <1>5, <1>6, <1>7, <1>8, <1>9, <1>10, <1>11, <1>12, <1>13
  DEF Next, Ending

-----------------------------------------------------------------------------
(***************************************************************************)
(* The cache.                                                              *)
(***************************************************************************)

\* The versions are numbers, wherever they come from.
LEMMA VersionsAreNumbers ==
  ASSUME TypeOK
  PROVE  /\ Versions \subseteq Nat
         /\ None \notin Versions
         /\ \A f \in Files : server[f] \in Nat /\ began[f] \in Nat
         /\ \A f \in Files : local[f] # None =>
              local[f] \in File /\ local[f].version \in Nat
         /\ \A f \in Files : sidecar[f] # None /\ sidecar[f].validator # None =>
              sidecar[f].validator \in Nat
         /\ \A f \in Archives : extracted[f] # None =>
              extracted[f] \in Extraction /\ extracted[f].version \in Nat
<1>1. Versions \subseteq Nat /\ None \notin Versions
  BY SizeType, NoneAssumption
<1> QED
  BY <1>1 DEF TypeOK, File, Sidecar, Extraction

\* A step that writes nothing, but perhaps begins an extraction.
LEMMA CacheLeftAlone ==
  ASSUME CacheInv, UNCHANGED <<server, diskVars, torn>>, pc # "unpack"
  PROVE  CacheInv'
<1>1. CopiesOld'
  BY DEF CacheInv, CopiesOld, diskVars, IsWhole
<1>2. SidecarsBehind'
  BY DEF CacheInv, SidecarsBehind, diskVars
<1>3. ExtractionsDated'
  BY DEF CacheInv, ExtractionsDated, diskVars
<1>4. ExtractionsDone'
  BY DEF CacheInv, ExtractionsDone, diskVars
<1> QED
  BY <1>1, <1>2, <1>3, <1>4 DEF CacheInv

\* No step, of the server or of a build, spoils what the cache says of itself.
LEMMA CacheStep ==
  ASSUME AcquireInv, [Next]_vars
  PROVE  CacheInv' /\ \A f \in Files : began'[f] <= server'[f]
<1>0. /\ TypeOK /\ StepInv /\ CacheInv /\ AnswerInv /\ CopyInv
      /\ CopiesOld /\ SidecarsBehind /\ ExtractionsDated /\ ExtractionsDone
      /\ \A f \in Files : began[f] <= server[f]
      /\ file \in Files
  BY SourceAtHand DEF AcquireInv, CacheInv, TypeOK
<1>N. /\ Versions \subseteq Nat
      /\ None \notin Versions
      /\ \A f \in Files : server[f] \in Nat /\ began[f] \in Nat
      /\ \A f \in Files : local[f] # None =>
           local[f] \in File /\ local[f].version \in Nat
      /\ \A f \in Files : sidecar[f] # None /\ sidecar[f].validator # None =>
           sidecar[f].validator \in Nat
      /\ \A f \in Archives : extracted[f] # None =>
           extracted[f] \in Extraction /\ extracted[f].version \in Nat
  BY <1>0, VersionsAreNumbers
<1> HIDE DEF File, Sidecar, Extraction, Config, Answer, Response, Entry
<1>1. ASSUME NEW g \in Files, Release(g)
      PROVE  CacheInv' /\ \A f \in Files : began'[f] <= server'[f]
  <2>1. \A f \in Files : server[f] <= server'[f] /\ server'[f] \in Nat
    BY <1>0, <1>1, <1>N DEF Release, TypeOK
  <2>2. UNCHANGED <<diskVars, pc, current, began, torn>>
    BY <1>1 DEF Release
  <2>3. CopiesOld'
    BY <1>0, <1>N, <2>1, <2>2 DEF CopiesOld, diskVars, IsWhole
  <2>4. SidecarsBehind'
    BY <1>0, <1>N, <2>1, <2>2 DEF SidecarsBehind, diskVars
  <2>5. ExtractionsDated' /\ ExtractionsDone'
    BY <1>0, <2>2, SameSource DEF ExtractionsDated, ExtractionsDone, diskVars
  <2>6. \A f \in Files : began'[f] <= server'[f]
    BY <1>0, <1>N, <2>1, <2>2
  <2> QED
    BY <2>3, <2>4, <2>5, <2>6 DEF CacheInv
<1>2. ASSUME NEW pins \in Pinnings, NEW keep \in BOOLEAN, StartBuild(pins, keep)
      PROVE  CacheInv' /\ \A f \in Files : began'[f] <= server'[f]
  <2>1. CacheInv'
    BY <1>0, <1>2, CacheLeftAlone DEF StartBuild
  <2> QED
    BY <1>2, <1>N, <2>1 DEF StartBuild
<1>3. ASSUME LookForCopy \/ StreamDownload \/ Resolve \/ Load
      PROVE  CacheInv' /\ \A f \in Files : began'[f] <= server'[f]
  <2>1. UNCHANGED <<server, diskVars, torn, began>> /\ pc # "unpack"
    BY <1>3 DEF LookForCopy, StreamDownload, Resolve, Load
  <2> QED
    BY <1>0, <2>1, CacheLeftAlone
<1>4. ASSUME Publish
      PROVE  CacheInv' /\ \A f \in Files : began'[f] <= server'[f]
  <2>1. /\ pc = "publish" /\ pc' = "record"
        /\ answer \in Answer
        /\ answer.response.version \in began[file] .. server[file]
        /\ sidecar[file] # None /\ sidecar[file].validator # None =>
             sidecar[file].validator <= answer.response.version
        /\ UNCHANGED <<server, sidecar, began, torn>>
    BY <1>0, <1>4 DEF Publish, StepInv, AnswerInv
  <2>2. /\ local'[file].version = answer.response.version
        /\ local'[file].size = answer.received
        /\ local'[file].vouched = answer.response.declared
        /\ \A f \in Files : f # file => local'[f] = local[f]
    BY <1>0, <1>4 DEF Publish, TypeOK
  <2>3. \A f \in Archives :
          extracted'[f] = IF f = file /\ extracted[f] # None
                            THEN [extracted[f] EXCEPT !.newer = FALSE, !.touched = FALSE]
                            ELSE extracted[f]
    BY <1>4 DEF Publish
  <2>4. ASSUME NEW f \in Archives
        PROVE  /\ f = file /\ extracted'[f] # None => /\ extracted[f] # None
                                                      /\ ~extracted'[f].newer
                                                      /\ ~extracted'[f].touched
                                                      /\ extracted'[f].whole = extracted[f].whole
               /\ f # file => extracted'[f] = extracted[f]
    BY <1>N, <2>3 DEF Extraction
  <2>5. CopiesOld'
    <3>1. ASSUME NEW f \in Files, local'[f] # None
          PROVE  /\ local'[f].version <= server'[f]
                 /\ local'[f].vouched => IsWhole(f)'
      <4>1. CASE f = file
        <5>1. ReceivedSizeOK
          BY <1>4 DEF Publish
        <5> QED
          BY <1>N, <2>1, <2>2, <4>1, <5>1 DEF ReceivedSizeOK, IsWhole
      <4>2. CASE f # file
        BY <1>0, <2>1, <2>2, <3>1, <4>2 DEF CopiesOld, IsWhole
      <4> QED
        BY <4>1, <4>2
    <3> QED
      BY <3>1 DEF CopiesOld
  <2>6. SidecarsBehind'
    BY <1>0, <2>1, <2>2 DEF SidecarsBehind
  <2>7. ExtractionsDated'
    BY <1>0, <2>1, <2>2, <2>4, FilesAssumption DEF ExtractionsDated
  <2>8. ExtractionsDone'
    BY <1>0, <2>1, <2>4 DEF ExtractionsDone
  <2> QED
    BY <1>0, <2>1, <2>5, <2>6, <2>7, <2>8 DEF CacheInv
<1>5. ASSUME RecordValidators
      PROVE  CacheInv' /\ \A f \in Files : began'[f] <= server'[f]
  <2>1. /\ pc = "record"
        /\ answer.response.version \in began[file] .. server[file]
        /\ local[file].version = answer.response.version
        /\ UNCHANGED <<server, local, extracted, began, torn>>
    BY <1>0, <1>5 DEF RecordValidators, AnswerInv
  <2>2. /\ sidecar'[file].validator \in {answer.response.version, None}
        /\ \A f \in Files : f # file => sidecar'[f] = sidecar[f]
    BY <1>0, <1>5 DEF RecordValidators, TypeOK
  <2>3. SidecarsBehind'
    <3>1. answer.response.version <= server[file] /\ answer.response.version <= local[file].version
      BY <1>0, <1>N, <2>1
    <3> QED
      BY <1>0, <2>1, <2>2, <3>1 DEF SidecarsBehind
  <2>4. CopiesOld' /\ ExtractionsDated' /\ ExtractionsDone'
    BY <1>0, <2>1 DEF CopiesOld, ExtractionsDated, ExtractionsDone, IsWhole
  <2> QED
    BY <1>0, <2>1, <2>3, <2>4 DEF CacheInv
<1>6. ASSUME RemoveOldExtraction
      PROVE  CacheInv' /\ \A f \in Files : began'[f] <= server'[f]
  <2>1. /\ pc = "clear" /\ UNCHANGED <<server, local, sidecar, began, torn>>
        /\ \A f \in Archives : extracted'[f] = None \/ extracted'[f] = extracted[f]
    BY <1>0, <1>6 DEF RemoveOldExtraction, TypeOK
  <2>2. CopiesOld' /\ SidecarsBehind' /\ ExtractionsDated' /\ ExtractionsDone'
    BY <1>0, <2>1 DEF CopiesOld, SidecarsBehind, ExtractionsDated, ExtractionsDone, IsWhole
  <2> QED
    BY <1>0, <2>1, <2>2 DEF CacheInv
<1>7. ASSUME MakeDirectory
      PROVE  CacheInv' /\ \A f \in Files : began'[f] <= server'[f]
  <2>1. /\ pc = "mkdir" /\ pc' = "unpack" /\ file' = file
        /\ UNCHANGED <<server, local, sidecar, began, torn>>
        /\ file \in Archives => extracted'[file].version = local[file].version
        /\ \A f \in Archives : f # file => extracted'[f] = extracted[f]
    BY <1>0, <1>7, SameSource DEF MakeDirectory, TypeOK
  <2>2. CopiesOld' /\ SidecarsBehind' /\ ExtractionsDated' /\ ExtractionsDone'
    BY <1>0, <2>1 DEF CopiesOld, SidecarsBehind, ExtractionsDated, ExtractionsDone, IsWhole
  <2> QED
    BY <1>0, <2>1, <2>2 DEF CacheInv
<1>8. ASSUME UnpackMember
      PROVE  CacheInv' /\ \A f \in Files : began'[f] <= server'[f]
  <2>1. /\ pc = "unpack" /\ file' = file /\ file \in Archives
        /\ extracted[file] \in Extraction
        /\ UNCHANGED <<server, local, sidecar, began>>
    BY <1>0, <1>8, SameSource DEF UnpackMember, StepInv
  <2>2. /\ extracted'[file].version = extracted[file].version
        /\ extracted'[file].newer = extracted[file].newer
        /\ extracted'[file].touched = extracted[file].touched
        /\ \A f \in Archives : f # file => extracted'[f] = extracted[f]
    BY <1>0, <1>8, <2>1 DEF UnpackMember, TypeOK, Extraction
  <2>3. \/ pc' = "load" /\ torn' = torn \ {file} /\ extracted'[file].whole = MemberSet
        \/ pc' = "unpack" /\ torn' = torn
    BY <1>8, <2>1 DEF UnpackMember
  <2>4. CopiesOld' /\ SidecarsBehind'
    BY <1>0, <2>1 DEF CopiesOld, SidecarsBehind, IsWhole
  <2>5. ExtractionsDated'
    <3>1. extracted[file].newer /\ extracted[file] # None
      BY <1>0, <2>1, NoneAssumption DEF AcquireInv, TargetInv
    <3> QED
      BY <1>0, <2>1, <2>2, <2>3, <3>1 DEF ExtractionsDated
  <2>6. ExtractionsDone'
    BY <1>0, <2>1, <2>2, <2>3 DEF ExtractionsDone
  <2> QED
    BY <1>0, <2>1, <2>4, <2>5, <2>6 DEF CacheInv
<1>9. ASSUME Ending
      PROVE  CacheInv' /\ \A f \in Files : began'[f] <= server'[f]
  <2>1. Leaves /\ UNCHANGED <<server, began>>
    BY <1>0, <1>9, EndingLeaves
  <2>2. /\ \A f \in Files : local'[f] # None => local'[f] = local[f]
        /\ \A f \in Files : sidecar'[f] # None => sidecar'[f] = sidecar[f]
        /\ \A f \in Archives : extracted'[f] # None =>
             /\ extracted[f] \in Extraction
             /\ extracted'[f].version = extracted[f].version
             /\ extracted'[f].newer = extracted[f].newer
             /\ f \notin torn' => /\ f \notin torn
                                  /\ extracted'[f] = extracted[f]
                                  /\ ~(pc = "unpack" /\ f = file)
    BY <2>1 DEF Leaves
  <2>3. CopiesOld'
    BY <1>0, <2>1, <2>2 DEF CopiesOld, IsWhole
  <2>4. SidecarsBehind'
    BY <1>0, <2>1, <2>2 DEF SidecarsBehind
  <2>5. ExtractionsDated'
    <3>1. ASSUME NEW f \in Archives, extracted'[f] # None, local'[f] # None,
                 extracted'[f].newer \/ (extracted'[f].touched /\ f \notin torn')
          PROVE  extracted'[f].version = local'[f].version
      <4>1. /\ local'[f] = local[f] /\ local[f] # None
            /\ extracted'[f].version = extracted[f].version
        BY <2>2, <3>1, FilesAssumption
      <4>2. extracted[f].newer \/ (extracted[f].touched /\ f \notin torn)
        BY <2>2, <3>1
      <4>3. CASE extracted[f] # None
        BY <1>0, <4>1, <4>2, <4>3 DEF ExtractionsDated
      <4>4. CASE extracted[f] = None
        BY <2>2, <3>1, <4>4, NoneAssumption
      <4> QED
        BY <4>3, <4>4
    <3> QED
      BY <3>1 DEF ExtractionsDated
  <2>6. ExtractionsDone'
    BY <1>0, <2>1, <2>2 DEF ExtractionsDone
  <2> QED
    BY <1>0, <2>1, <2>3, <2>4, <2>5, <2>6 DEF CacheInv
<1>10. ASSUME UNCHANGED vars
       PROVE  CacheInv' /\ \A f \in Files : began'[f] <= server'[f]
  <2>1. UNCHANGED <<diskVars, server, pc, current, began, torn>>
    BY <1>10 DEF vars
  <2> QED
    BY <1>0, <2>1, SameSource
    DEF CacheInv, CopiesOld, SidecarsBehind, ExtractionsDated, ExtractionsDone, diskVars, IsWhole
<1> QED
  BY <1>1, <1>2, <1>3, <1>4, <1>5, <1>6, <1>7, <1>8, <1>9, <1>10 DEF Next, Ending

-----------------------------------------------------------------------------
(***************************************************************************)
(* The build at hand.                                                      *)
(***************************************************************************)

\* A copy found good in the cache is the pinned one, or the server's own of now:
\* the sidecar that names it lies behind the copy, and the copy behind the server.
LEMMA ReusedCopy ==
  ASSUME TypeOK, CopiesOld, SidecarsBehind, file \in Files, TRUE \in Reusable(file)
  PROVE  /\ local[file] # None
         /\ IF pin # None THEN local[file].version = pin /\ IsWhole(file)
                         ELSE local[file].version = server[file]
<1>1. CASE pin # None
  BY <1>1 DEF Reusable, MatchesDigest, pin
<1>2. CASE pin = None
  <2>1. PICK head \in Responses(file) :
          /\ local[file] # None
          /\ sidecar[file] # None
          /\ ValidatorMatches(head, file)
    BY <1>2 DEF Reusable, pin
  <2>2. sidecar[file].validator = server[file]
    BY <2>1, ResponseType DEF ValidatorMatches, TypeOK
  <2>3. sidecar[file].validator # None
    BY <2>2, VersionsAreNumbers DEF TypeOK
  <2>4. local[file].version <= server[file] /\ server[file] <= local[file].version
    BY <2>1, <2>2, <2>3 DEF CopiesOld, SidecarsBehind
  <2>5. local[file].version \in Nat /\ server[file] \in Nat
    BY <2>1, VersionsAreNumbers
  <2> QED
    BY <1>2, <2>1, <2>4, <2>5
<1> QED
  BY <1>1, <1>2

\* From its publication on a copy is current, and what is loaded from it dated.
LEMMA BuildStep ==
  ASSUME AcquireInv, [Next]_vars
  PROVE  AnswerInv' /\ CopyInv' /\ TargetInv'
<1>0. /\ TypeOK /\ StepInv /\ CacheInv /\ AnswerInv /\ CopyInv /\ TargetInv
      /\ CopiesOld /\ SidecarsBehind
      /\ \A f \in Files : began[f] <= server[f]
      /\ file \in Files
      /\ file \in Archives => target \in MemberSet \cup {Directory}
  BY SourceAtHand DEF AcquireInv, CacheInv, TypeOK
<1>N. /\ Versions \subseteq Nat
      /\ \A f \in Files : server[f] \in Nat /\ began[f] \in Nat
  BY <1>0, VersionsAreNumbers
<1> HIDE DEF File, Sidecar, Extraction, Config, Answer, Response, Entry
<1>1. ASSUME NEW g \in Files, Release(g)
      PROVE  AnswerInv' /\ CopyInv' /\ TargetInv'
  <2>1. /\ server[file] <= server'[file] /\ server'[file] \in Nat
        /\ file' = file /\ target' = target /\ pin' = pin
        /\ UNCHANGED <<diskVars, pc, answer, began>>
    BY <1>0, <1>1, <1>N, SameSource DEF Release, TypeOK
  <2>2. \A v : v \in began[file] .. server[file] => v \in began[file] .. server'[file]
    BY <1>0, <1>N, <2>1
  <2>3. AnswerInv'
    BY <1>0, <2>1, <2>2 DEF AnswerInv, diskVars
  <2>4. CopyInv'
    BY <1>0, <2>1, <2>2 DEF CopyInv, diskVars, IsWhole
  <2>5. TargetInv'
    BY <1>0, <2>1 DEF TargetInv, diskVars
  <2> QED
    BY <2>3, <2>4, <2>5
<1>2. ASSUME NEW pins \in Pinnings, NEW keep \in BOOLEAN, StartBuild(pins, keep)
      PROVE  AnswerInv' /\ CopyInv' /\ TargetInv'
  BY <1>2 DEF StartBuild, AnswerInv, CopyInv, TargetInv
<1>3. ASSUME LookForCopy
      PROVE  AnswerInv' /\ CopyInv' /\ TargetInv'
  <2>1. /\ file' = file /\ pin' = pin
        /\ UNCHANGED <<server, local, began>>
        /\ pc' \in {"resolve", "get"}
    BY <1>3, SameSource DEF LookForCopy, diskVars
  <2>2. ASSUME pc' = "resolve"
        PROVE  TRUE \in Reusable(file)
    <3>1. PICK reuse \in Reusable(file) : pc' = IF reuse THEN "resolve" ELSE "get"
      BY <1>3 DEF LookForCopy
    <3>2. reuse
      BY <2>2, <3>1
    <3>3. reuse \in BOOLEAN
      BY <3>1 DEF Reusable, MatchesDigest
    <3>4. reuse = TRUE
      BY <3>2, <3>3
    <3> QED
      BY <3>1, <3>4
  <2>3. CopyInv'
    <3>1. ASSUME pc' = "resolve"
          PROVE  IF pin # None THEN local[file].version = pin /\ IsWhole(file)
                               ELSE local[file].version \in began[file] .. server[file]
      BY <1>0, <1>N, <2>2, <3>1, ReusedCopy
    <3> QED
      BY <2>1, <3>1 DEF CopyInv, IsWhole
  <2> QED
    BY <2>1, <2>3 DEF AnswerInv, TargetInv
<1>4. ASSUME StreamDownload
      PROVE  AnswerInv' /\ CopyInv' /\ TargetInv'
  <2>1. /\ file' = file
        /\ UNCHANGED <<server, local, sidecar, began>>
        /\ pc' = "publish"
    BY <1>4, SameSource DEF StreamDownload, diskVars
  <2>2. answer'.response.version = server[file]
    BY <1>0, <1>4, ResponseType DEF StreamDownload, TypeOK
  <2>3. server[file] \in began[file] .. server[file]
    BY <1>0, <1>N
  <2> QED
    BY <1>0, <2>1, <2>2, <2>3 DEF AnswerInv, CopyInv, TargetInv, SidecarsBehind
<1>5. ASSUME Publish
      PROVE  AnswerInv' /\ CopyInv' /\ TargetInv'
  <2>1. /\ pc = "publish" /\ pc' = "record"
        /\ file' = file /\ pin' = pin
        /\ UNCHANGED <<server, answer, began>>
        /\ answer.response.version \in began[file] .. server[file]
    BY <1>0, <1>5, SameSource DEF Publish, AnswerInv
  <2>2. /\ local'[file].version = answer.response.version
        /\ local'[file].size = answer.received
    BY <1>0, <1>5 DEF Publish, TypeOK
  <2>3. pin # None => answer.response.version = pin /\ answer.received = SizeOf[pin]
    BY <1>5 DEF Publish, DigestOK
  <2> QED
    BY <2>1, <2>2, <2>3 DEF AnswerInv, CopyInv, TargetInv, IsWhole
<1>6. ASSUME RecordValidators \/ RemoveOldExtraction
      PROVE  AnswerInv' /\ CopyInv' /\ TargetInv'
  <2>1. /\ file' = file /\ pin' = pin
        /\ UNCHANGED <<server, local, began>>
        /\ pc \in {"record", "clear"}
        /\ pc' \in {"resolve", "mkdir"}
    BY <1>6, SameSource DEF RecordValidators, RemoveOldExtraction
  <2> QED
    BY <1>0, <2>1 DEF AnswerInv, CopyInv, TargetInv, IsWhole
<1>7. ASSUME Resolve
      PROVE  AnswerInv' /\ CopyInv' /\ TargetInv'
  <2>1. /\ file' = file /\ pin' = pin /\ target' = target
        /\ UNCHANGED <<server, local, extracted, began>>
        /\ pc = "resolve" /\ pc' \in {"load", "clear", "mkdir"}
        /\ pc' = "load" /\ file \in Archives => IsFresh(file, target)
    BY <1>7, SameSource DEF Resolve, diskVars
  <2> QED
    BY <1>0, <2>1 DEF AnswerInv, CopyInv, TargetInv, IsFresh, IsWhole
<1>8. ASSUME MakeDirectory
      PROVE  AnswerInv' /\ CopyInv' /\ TargetInv'
  <2>1. /\ file' = file /\ pin' = pin
        /\ UNCHANGED <<server, local, began>>
        /\ pc = "mkdir" /\ pc' = "unpack"
        /\ file \in Archives
    BY <1>0, <1>8, SameSource DEF MakeDirectory, StepInv
  <2>2. extracted'[file].newer /\ extracted'[file].touched
    BY <1>0, <1>8, <2>1 DEF MakeDirectory, TypeOK
  <2> QED
    BY <1>0, <2>1, <2>2 DEF AnswerInv, CopyInv, TargetInv, IsWhole
<1>9. ASSUME UnpackMember
      PROVE  AnswerInv' /\ CopyInv' /\ TargetInv'
  <2>1. /\ file' = file /\ pin' = pin
        /\ UNCHANGED <<server, local, began>>
        /\ pc = "unpack" /\ pc' \in {"unpack", "load"}
        /\ file \in Archives
        /\ extracted[file] \in Extraction
    BY <1>0, <1>9, SameSource DEF UnpackMember, StepInv
  <2>2. /\ extracted'[file].newer = extracted[file].newer
        /\ extracted'[file].touched = extracted[file].touched
    BY <1>0, <1>9, <2>1 DEF UnpackMember, TypeOK, Extraction
  <2> QED
    BY <1>0, <2>1, <2>2 DEF AnswerInv, CopyInv, TargetInv, IsWhole
<1>10. ASSUME Load
       PROVE  AnswerInv' /\ CopyInv' /\ TargetInv'
  <2>1. pc' \in {"look", "leave"}
    BY <1>10 DEF Load
  <2> QED
    BY <2>1 DEF AnswerInv, CopyInv, TargetInv
<1>11. ASSUME Ending
       PROVE  AnswerInv' /\ CopyInv' /\ TargetInv'
  <2>1. pc' \in {"idle", "leave"}
    BY <1>0, <1>11, EndingLeaves DEF Forgotten
  <2> QED
    BY <2>1 DEF AnswerInv, CopyInv, TargetInv
<1>12. ASSUME UNCHANGED vars
       PROVE  AnswerInv' /\ CopyInv' /\ TargetInv'
  <2>1. /\ file' = file /\ pin' = pin /\ target' = target
        /\ UNCHANGED <<server, diskVars, pc, answer, began>>
    BY <1>12, SameSource DEF vars
  <2> QED
    BY <1>0, <2>1 DEF AnswerInv, CopyInv, TargetInv, diskVars, IsWhole
<1> QED
  BY <1>1, <1>2, <1>3, <1>4, <1>5, <1>6, <1>7, <1>8, <1>9, <1>10, <1>11, <1>12
  DEF Next, Ending

-----------------------------------------------------------------------------
(***************************************************************************)
(* What a build has loaded.                                                *)
(***************************************************************************)

\* What the properties say of one load.
CurrentLoad(l) == LET f == Sources[l.source].file IN
  Dated(l) => IF config.pins[f] # None
                THEN l.content.version = config.pins[f]
                ELSE l.content.version \in began[f] .. server[f]

WholeLoad(l) == l.vouched /\ ~l.torn => l.content.whole

\* What is loaded is of the version of the copy at hand, if its times tell.
LEMMA ContentOfCopy ==
  ASSUME AcquireInv, pc = "load", target = Directory => file \notin torn
  PROVE  Content.version = local[file].version
<1>0. /\ TypeOK /\ StepInv /\ CacheInv /\ TargetInv
      /\ file \in Files
      /\ file \in Archives => target \in MemberSet \cup {Directory}
  BY SourceAtHand DEF AcquireInv, TypeOK
<1>1. CASE file \notin Archives
  BY <1>1 DEF Content
<1>2. CASE file \in Archives
  <2>1. /\ extracted[file] # None
        /\ local[file] # None \/ local[file] = None
    BY <1>0, <1>2, NoneAssumption DEF StepInv
  <2>2. extracted[file].newer \/ (extracted[file].touched /\ file \notin torn)
    BY <1>0, <1>2 DEF TargetInv
  <2>3. local[file] # None
    BY <1>0, NoneAssumption DEF StepInv
  <2>4. extracted[file].version = local[file].version
    BY <1>0, <1>2, <2>1, <2>2, <2>3 DEF CacheInv, ExtractionsDated
  <2> QED
    BY <1>2, <2>4 DEF Content
<1> QED
  BY <1>1, <1>2

\* A plain file is whole if its response declared the size or the configuration
\* its digest; an archive's directory if no extraction was cut off.
LEMMA ContentWhole ==
  ASSUME AcquireInv, pc = "load", local[file].vouched \/ pin # None, file \notin torn
  PROVE  Content.whole
<1>0. /\ TypeOK /\ StepInv /\ CacheInv /\ CopyInv
      /\ file \in Files
      /\ file \in Archives => target \in MemberSet \cup {Directory}
  BY SourceAtHand DEF AcquireInv, TypeOK
<1>1. CASE file \notin Archives
  <2>1. local[file] # None
    BY <1>0, NoneAssumption DEF StepInv
  <2>2. IsWhole(file)
    BY <1>0, <2>1 DEF CacheInv, CopiesOld, CopyInv
  <2> QED
    BY <1>1, <2>2 DEF Content
<1>2. CASE file \in Archives
  <2>1. extracted[file] # None
    BY <1>0, <1>2, NoneAssumption DEF StepInv
  <2>2. extracted[file].whole = MemberSet
    BY <1>0, <1>2, <2>1 DEF CacheInv, ExtractionsDone
  <2> QED
    BY <1>0, <1>2, <2>2 DEF Content
<1> QED
  BY <1>1, <1>2

\* What has been loaded stays as good as it was.
LEMMA LoadsStep ==
  ASSUME AcquireInv, [Next]_vars
  PROVE  LoadsCurrent' /\ LoadsWhole'
<1>0. /\ TypeOK /\ StepInv /\ CopyInv /\ LoadsCurrent /\ LoadsWhole
      /\ loaded \in Seq(Entry)
      /\ file \in Files
  BY SourceAtHand DEF AcquireInv, TypeOK, StepInv
<1>N. \A f \in Files : server[f] \in Nat /\ began[f] \in Nat
  BY <1>0, VersionsAreNumbers
<1>F. ASSUME NEW l \in Loads
      PROVE  Sources[l.source].file \in Files
  <2>1. l \in Entry
    BY <1>0, <1>F, ElementOfSeq DEF Loads
  <2>2. /\ l.source \in 1 .. Len(Sources)
        /\ Sources \in Seq([file : Files, target : MemberSet \cup {Directory, None}])
    BY <2>1, SourcesAssumption DEF Entry
  <2>3. Sources[l.source] \in [file : Files, target : MemberSet \cup {Directory, None}]
    BY <2>2, ElementOfSeq
  <2> QED
    BY <2>3
<1> HIDE DEF File, Sidecar, Extraction, Config, Answer, Response, Entry
<1>1. ASSUME UNCHANGED <<loaded, config, began>>,
             \A f \in Files : server'[f] \in Nat /\ server[f] <= server'[f]
      PROVE  LoadsCurrent' /\ LoadsWhole'
  <2>1. Loads' = Loads
    BY <1>1 DEF Loads
  <2>2. ASSUME NEW l \in Loads
        PROVE  CurrentLoad(l)'
    <3>1. CurrentLoad(l)
      BY <1>0 DEF LoadsCurrent, CurrentLoad
    <3> QED
      BY <1>1, <1>F, <1>N, <3>1 DEF CurrentLoad, Dated
  <2> QED
    BY <1>0, <2>1, <2>2 DEF LoadsCurrent, LoadsWhole, CurrentLoad
<1>2. ASSUME loaded' = <<>>
      PROVE  LoadsCurrent' /\ LoadsWhole'
  BY <1>2 DEF Loads, LoadsCurrent, LoadsWhole
<1>3. ASSUME Load
      PROVE  LoadsCurrent' /\ LoadsWhole'
  <2> DEFINE entry == [source |-> current, content |-> Content, torn |-> file \in torn,
                       vouched |-> local[file].vouched \/ pin # None]
  <2>1. /\ pc = "load"
        /\ loaded' = Append(loaded, entry)
        /\ UNCHANGED <<server, config, began>>
    BY <1>3 DEF Load
  <2>2. CurrentLoad(entry)
    <3>1. Dated(entry) => (target = Directory => file \notin torn)
      BY DEF Dated, target
    <3>2. Dated(entry) => Content.version = local[file].version
      BY <2>1, <3>1, ContentOfCopy
    <3> QED
      BY <1>0, <2>1, <3>2 DEF CurrentLoad, CopyInv, pin, file
  <2>3. WholeLoad(entry)
    BY <2>1, ContentWhole DEF WholeLoad
  <2> HIDE DEF entry
  <2>4. \A l \in Loads' : l \in Loads \/ l = entry
    BY <1>0, <2>1 DEF Loads
  <2>5. \A l \in Loads' : CurrentLoad(l)'
    BY <1>0, <2>1, <2>2, <2>4 DEF LoadsCurrent, CurrentLoad, Dated
  <2>6. \A l \in Loads' : WholeLoad(l)
    BY <1>0, <2>3, <2>4 DEF LoadsWhole, WholeLoad
  <2> QED
    BY <2>5, <2>6 DEF LoadsCurrent, LoadsWhole, CurrentLoad, WholeLoad
<1>4. ASSUME NEW f \in Files, Release(f)
      PROVE  LoadsCurrent' /\ LoadsWhole'
  <2>1. \A g \in Files : server'[g] \in Nat /\ server[g] <= server'[g]
    BY <1>0, <1>4, <1>N DEF Release, TypeOK
  <2> QED
    BY <1>1, <1>4, <2>1 DEF Release
<1>5. ASSUME NEW pins \in Pinnings, NEW keep \in BOOLEAN, StartBuild(pins, keep)
      PROVE  LoadsCurrent' /\ LoadsWhole'
  BY <1>2, <1>5 DEF StartBuild
<1>6. ASSUME \/ LookForCopy \/ StreamDownload \/ Publish \/ RecordValidators \/ Resolve
             \/ RemoveOldExtraction \/ MakeDirectory \/ UnpackMember \/ UNCHANGED vars
      PROVE  LoadsCurrent' /\ LoadsWhole'
  <2>1. UNCHANGED <<server, loaded, config, began>>
    BY <1>6 DEF LookForCopy, StreamDownload, Publish, RecordValidators, Resolve,
                RemoveOldExtraction, MakeDirectory, UnpackMember, vars
  <2> QED
    BY <1>1, <1>N, <2>1
<1>7. ASSUME Ending
      PROVE  LoadsCurrent' /\ LoadsWhole'
  BY <1>0, <1>2, <1>7, EndingLeaves DEF Forgotten
<1> QED
  BY <1>3, <1>4, <1>5, <1>6, <1>7 DEF Next, Ending

-----------------------------------------------------------------------------
(***************************************************************************)
(* The theorems.                                                           *)
(***************************************************************************)

\* All of it is inductive.
LEMMA AcquireInvariant == Spec => []AcquireInv
<1>1. AcquireInv /\ [Next]_vars => AcquireInv'
  BY TypeStep, CacheStep, BuildStep, LoadsStep DEF AcquireInv
<1> QED
  BY <1>1, AcquireInvInit, PTL DEF Spec

\* The cache and the build at hand have their types, in whatever order builds
\* begin, fail and are killed.
THEOREM TypeCorrect == Spec => []TypeOK
BY AcquireInvariant, PTL DEF AcquireInv

\* A build never loads an old version of a source: Acquirer.acquire takes a copy
\* from its cache only if the server would send the same one, and an extraction
\* only if it is one of that copy.
THEOREM AlwaysLoadsCurrent == Spec => []LoadsCurrent
BY AcquireInvariant, PTL DEF AcquireInv

\* What a build loads is whole, wherever the size or the digest is known and no
\* extraction was cut off.
THEOREM AlwaysLoadsWhole == Spec => []LoadsWhole
BY AcquireInvariant, PTL DEF AcquireInv
=============================================================================
