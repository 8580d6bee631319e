------------------------------ MODULE Acquire -------------------------------
(***************************************************************************)
(* How a build of a gazetteer gets its source files: the downloads         *)
(* directory as a cache.  A file is downloaded unless a digest in the      *)
(* configuration, or the server's validator, says that the local copy will *)
(* do; an archive is extracted next to itself unless what was extracted is *)
(* newer than the archive.                                                 *)
(*                                                                         *)
(* The server releases new versions of its files at any time, between the  *)
(* HEAD and the GET of one source too, and does not go back to an old one. *)
(* A build may raise or its process may end anywhere, inside an extraction *)
(* or a removal too; the next build finds what the last one left, which    *)
(* was cleaned up if it did not keep its downloads and was not killed.     *)
(*                                                                         *)
(* Times of modification only say what was written after the archive that  *)
(* is there now.  The .part files are written anew whenever they are used, *)
(* and never read.                                                         *)
(***************************************************************************)
EXTENDS Naturals, FiniteSets, Sequences

CONSTANTS
  Files,       \* the files on the server, each with a URL and a name of its own
  Archives,    \* those that are ZIP archives
  Members,     \* what an archive holds, at least one file, in order
  Directory,   \* the target of a source that wants the extracted directory
  Sources,     \* the sources of the configuration, at least one, in order
  SizeOf,      \* the size of every version of a file
  Pinnings,    \* the versions a configuration may pin: file -> version or None
  MaxBuilds,   \* bound: builds
  None

Versions == DOMAIN SizeOf
MemberSet == {Members[i] : i \in DOMAIN Members}

ASSUME FilesAssumption == Archives \subseteq Files
ASSUME SizesAssumption == SizeOf \in Seq(Nat \ {0}) /\ SizeOf # <<>>
ASSUME MembersAssumption ==
  /\ Members \in Seq(MemberSet) \ {<<>>}
  /\ Directory \notin MemberSet
  /\ Cardinality(MemberSet) = Len(Members)
ASSUME SourcesAssumption ==
  /\ Sources \in Seq([file : Files, target : MemberSet \cup {Directory, None}]) \ {<<>>}
  /\ \A i \in DOMAIN Sources : Sources[i].file \in Archives => Sources[i].target # None
ASSUME PinningsAssumption == Pinnings \subseteq [Files -> Versions \cup {None}]
ASSUME MaxBuildsAssumption == MaxBuilds \in Nat

VARIABLES
  server,      \* the version the server has of every file
  local,       \* the downloaded files
  sidecar,     \* the validators and sizes recorded next to them
  extracted,   \* the directory next to every archive
  pc,          \* the step the build is at
  config,      \* the pinned versions, and whether to keep the downloads
  current,     \* the place in Sources of the source at hand
  answer,      \* the response to the last GET
  loaded,      \* what the build has loaded
  builds,      \* builds begun
  began,       \* history: the server when the build began
  torn         \* history: archives whose directory was left half done

diskVars == <<local, sidecar, extracted>>
vars == <<server, diskVars, pc, config, current, answer, loaded, builds, began, torn>>

\* vouched: the response declared its size (a history field).
File == [version : Versions, size : Nat, vouched : BOOLEAN]
Sidecar == [validator : Versions \cup {None}, size : Nat]

\* newer: the members are newer than the archive; touched: the directory is.
Extraction == [version : Versions, whole : SUBSET MemberSet, cut : SUBSET MemberSet,
               newer : BOOLEAN, touched : BOOLEAN]

ASSUME NoneAssumption ==
  None \notin Versions \cup MemberSet \cup {Directory} \cup File \cup Extraction
               \cup [pins : Pinnings, keep : BOOLEAN]

Responses(f) == [version : {server[f]}, declared : BOOLEAN, validated : BOOLEAN]

Init ==
  /\ server = [f \in Files |-> 1]
  /\ local = [f \in Files |-> None]
  /\ sidecar = [f \in Files |-> None]
  /\ extracted = [f \in Archives |-> None]
  /\ pc = "idle"
  /\ config = None
  /\ current = 1
  /\ answer = None
  /\ loaded = <<>>
  /\ builds = 0
  /\ began = server
  /\ torn = {}

file == Sources[current].file
target == Sources[current].target
pin == config.pins[file]
IsWhole(f) == local[f].size = SizeOf[local[f].version]

\* The server releases a new version of a file.
Release(f) ==
  /\ server[f] + 1 \in Versions
  /\ server' = [server EXCEPT ![f] = @ + 1]
  /\ UNCHANGED <<diskVars, pc, config, current, answer, loaded, builds, began, torn>>

StartBuild(pins, keep) ==
  /\ pc = "idle"
  /\ builds < MaxBuilds
  /\ builds' = builds + 1
  /\ config' = [pins |-> pins, keep |-> keep]
  /\ began' = server
  /\ loaded' = <<>>
  /\ current' = 1
  /\ pc' = "look"
  /\ UNCHANGED <<server, diskVars, answer, torn>>

-----------------------------------------------------------------------------
(***************************************************************************)
(* Downloads.                                                              *)
(***************************************************************************)

\* Mutant: only the sizes are compared.
SizesOnly(head, f) == head.validated

ValidatorMatches(head, f) ==
  head.validated /\ sidecar[f].validator = head.version

SizesMatch(head, f) ==
  /\ sidecar[f].size = local[f].size
  /\ head.declared => SizeOf[head.version] = local[f].size

\* A file that cannot be read has the wrong digest.
MatchesDigest(f) ==
  local[f] # None /\ local[f].version = config.pins[f] /\ IsWhole(f)

\* A pinned file needs no answer from the server; a HEAD that fails is a miss.
Reusable(f) ==
  IF config.pins[f] # None
    THEN {MatchesDigest(f)}
    ELSE {FALSE} \cup
         {/\ local[f] # None
          /\ sidecar[f] # None
          /\ ValidatorMatches(head, f)
          /\ SizesMatch(head, f) : head \in Responses(f)}

LookForCopy ==
  /\ pc = "look"
  /\ \E reuse \in Reusable(file) : pc' = IF reuse THEN "resolve" ELSE "get"
  /\ UNCHANGED <<server, diskVars, config, current, answer, loaded, builds, began, torn>>

\* The whole body, or one that ends too early, is written to the .part file.
StreamDownload ==
  /\ pc = "get"
  /\ \E r \in Responses(file), missing \in {0, 1} :
       answer' = [response |-> r, received |-> SizeOf[r.version] - missing]
  /\ pc' = "publish"
  /\ UNCHANGED <<server, diskVars, config, current, loaded, builds, began, torn>>

\* Mutant: a body that is too short is taken.
AnySize == TRUE

ReceivedSizeOK ==
  answer.response.declared => answer.received = SizeOf[answer.response.version]

DigestOK ==
  pin # None => /\ answer.response.version = pin
                /\ answer.received = SizeOf[pin]

\* The .part file replaces the old copy; what was extracted is older now.
Publish ==
  /\ pc = "publish"
  /\ ReceivedSizeOK
  /\ DigestOK
  /\ local' = [local EXCEPT ![file] =
       [version |-> answer.response.version, size |-> answer.received,
        vouched |-> answer.response.declared]]
  /\ extracted' = [f \in Archives |->
       IF f = file /\ extracted[f] # None
         THEN [extracted[f] EXCEPT !.newer = FALSE, !.touched = FALSE]
         ELSE extracted[f]]
  /\ pc' = "record"
  /\ UNCHANGED <<server, sidecar, config, current, answer, loaded, builds, began, torn>>

\* Mutant: the size recorded is the declared one.
DeclaredSize ==
  IF answer.response.declared THEN SizeOf[answer.response.version] ELSE None

RecordedSize == answer.received

\* The sidecar is replaced in a step of its own.
RecordValidators ==
  /\ pc = "record"
  /\ sidecar' = [sidecar EXCEPT ![file] =
       [validator |-> IF answer.response.validated THEN answer.response.version ELSE None,
        size |-> RecordedSize]]
  /\ answer' = None
  /\ pc' = "resolve"
  /\ UNCHANGED <<server, local, extracted, config, current, loaded, builds, began, torn>>

-----------------------------------------------------------------------------
(***************************************************************************)
(* Extraction and loading.                                                 *)
(***************************************************************************)

\* The modification time of the target decides, whatever is in it.
IsFresh(f, wanted) ==
  /\ extracted[f] # None
  /\ IF wanted = Directory
       THEN extracted[f].touched
       ELSE wanted \in extracted[f].whole \cup extracted[f].cut /\ extracted[f].newer

\* A truncated archive is no ZIP file; it raises (see Raise).
Resolve ==
  /\ pc = "resolve"
  /\ file \in Archives => IsWhole(file)
  /\ pc' = IF file \notin Archives \/ IsFresh(file, target) THEN "load"
           ELSE IF extracted[file] # None THEN "clear" ELSE "mkdir"
  /\ UNCHANGED <<server, diskVars, config, current, answer, loaded, builds, began, torn>>

RemoveOldExtraction ==
  /\ pc = "clear"
  /\ extracted' = [extracted EXCEPT ![file] = None]
  /\ pc' = "mkdir"
  /\ UNCHANGED <<server, local, sidecar, config, current, answer, loaded, builds, began, torn>>

MakeDirectory ==
  /\ pc = "mkdir"
  /\ extracted' = [extracted EXCEPT ![file] =
       [version |-> local[file].version, whole |-> {}, cut |-> {},
        newer |-> TRUE, touched |-> TRUE]]
  /\ pc' = "unpack"
  /\ UNCHANGED <<server, local, sidecar, config, current, answer, loaded, builds, began, torn>>

NextMember(x) == Members[Cardinality(x.whole) + 1]

\* The members come out one after the other.
UnpackMember ==
  /\ pc = "unpack"
  /\ extracted' = [extracted EXCEPT ![file].whole = @ \cup {NextMember(extracted[file])}]
  /\ IF extracted'[file].whole = MemberSet
       THEN pc' = "load" /\ torn' = torn \ {file}
       ELSE UNCHANGED <<pc, torn>>
  /\ UNCHANGED <<server, local, sidecar, config, current, answer, loaded, builds, began>>

\* What the source's target turns out to hold.
Content ==
  IF file \notin Archives
    THEN [version |-> local[file].version, whole |-> IsWhole(file)]
    ELSE [version |-> extracted[file].version,
          whole |-> IF target = Directory THEN extracted[file].whole = MemberSet
                                          ELSE target \in extracted[file].whole]

\* Rows are loaded into the build's own staging database.
Load ==
  /\ pc = "load"
  /\ loaded' = Append(loaded,
       [source |-> current, content |-> Content, torn |-> file \in torn,
        vouched |-> local[file].vouched \/ pin # None])
  /\ IF current < Len(Sources)
       THEN current' = current + 1 /\ pc' = "look"
       ELSE current' = current /\ pc' = "leave"
  /\ UNCHANGED <<server, diskVars, config, answer, builds, began, torn>>

-----------------------------------------------------------------------------
(***************************************************************************)
(* How a build ends.                                                       *)
(***************************************************************************)

Emptied(S) == [f \in S |-> None]

\* cleanup removes the directory and all that is in it.
CleanUp ==
  IF config.keep
    THEN UNCHANGED <<diskVars, torn>>
    ELSE /\ local' = Emptied(Files)
         /\ sidecar' = Emptied(Files)
         /\ extracted' = Emptied(Archives)
         /\ torn' = {}

\* The staging database goes too; began is a history variable.
Over ==
  /\ pc' = "idle"
  /\ config' = None
  /\ answer' = None
  /\ current' = 1
  /\ loaded' = <<>>

\* The build is done with its sources, or has failed; its finally block cleans up.
Finish ==
  /\ pc = "leave"
  /\ CleanUp
  /\ Over
  /\ UNCHANGED <<server, builds, began>>

\* Removing a directory takes its entries in any order; the times of the rest
\* stay, the directory's own does not.
HalfRemoved(x) ==
  {[x EXCEPT !.whole = @ \cap rest, !.cut = @ \cap rest,
             !.touched = @ \/ rest # x.whole \cup x.cut] :
     rest \in SUBSET (x.whole \cup x.cut)}

\* What an extraction leaves when it is cut off: a member may be half written.
Leftovers(x) ==
  CASE pc = "clear"  -> HalfRemoved(x)
    [] pc = "unpack" -> {x, [x EXCEPT !.cut = {NextMember(x)}]}

CutOff ==
  IF pc \in {"clear", "unpack"}
    THEN /\ \E x \in Leftovers(extracted[file]) :
              extracted' = [extracted EXCEPT ![file] = x]
         /\ torn' = torn \cup {file}
    ELSE UNCHANGED <<extracted, torn>>

\* An exception, wherever it is raised: on to the finally block.
Raise ==
  /\ pc \notin {"idle", "leave"}
  /\ CutOff
  /\ pc' = "leave"
  /\ answer' = None
  /\ current' = 1
  /\ loaded' = <<>>
  /\ UNCHANGED <<server, local, sidecar, config, builds, began>>

\* The process is killed.
Kill ==
  /\ pc # "idle"
  /\ CutOff
  /\ Over
  /\ UNCHANGED <<server, local, sidecar, builds, began>>

\* The process is killed, or an exception raised, in the cleanup after a build,
\* be it done or failed.
CutOffCleanUp ==
  /\ pc = "leave"
  /\ ~config.keep
  /\ \E gone \in SUBSET Files :
       local' = [f \in Files |-> IF f \in gone THEN None ELSE local[f]]
  /\ \E gone \in SUBSET Files :
       sidecar' = [f \in Files |-> IF f \in gone THEN None ELSE sidecar[f]]
  /\ \E rest \in [Archives -> {None} \cup UNION {HalfRemoved(extracted[f]) :
                                f \in {g \in Archives : extracted[g] # None}}] :
       /\ \A f \in Archives : rest[f] # None =>
            extracted[f] # None /\ rest[f] \in HalfRemoved(extracted[f])
       /\ extracted' = rest
       /\ torn' = {f \in Archives : rest[f] # None /\ (f \in torn \/ rest[f] # extracted[f])}
  /\ Over
  /\ UNCHANGED <<server, builds, began>>

-----------------------------------------------------------------------------
Next ==
  \/ \E f \in Files : Release(f)
  \/ \E pins \in Pinnings, keep \in BOOLEAN : StartBuild(pins, keep)
  \/ LookForCopy
  \/ StreamDownload
  \/ Publish
  \/ RecordValidators
  \/ Resolve
  \/ RemoveOldExtraction
  \/ MakeDirectory
  \/ UnpackMember
  \/ Load
  \/ Finish
  \/ Raise
  \/ Kill
  \/ CutOffCleanUp

Spec == Init /\ [][Next]_vars

-----------------------------------------------------------------------------
(***************************************************************************)
(* Properties.                                                             *)
(***************************************************************************)

Steps == {"idle", "look", "get", "publish", "record", "resolve", "clear", "mkdir",
          "unpack", "load", "leave"}

TypeOK ==
  /\ server \in [Files -> Versions]
  /\ local \in [Files -> File \cup {None}]
  /\ sidecar \in [Files -> Sidecar \cup {None}]
  /\ extracted \in [Archives -> Extraction \cup {None}]
  /\ pc \in Steps
  /\ (pc = "idle") = (config = None)
  /\ current \in 1 .. Len(Sources)
  /\ Len(loaded) <= Len(Sources)
  /\ builds \in 0 .. MaxBuilds
  /\ began \in [Files -> Versions]
  /\ torn \subseteq Archives

Loads == {loaded[i] : i \in DOMAIN loaded}

\* Members keep their times in a directory left half removed; it does not.
Dated(l) == Sources[l.source].target = Directory => ~l.torn

\* A build never loads an old version: what it loads is the pinned version, or one
\* the server had between the build's begin and now, however the builds before it
\* ended (acquire.py:79-83).  A directory left half removed is the exception.
LoadsCurrent == \A l \in Loads : LET f == Sources[l.source].file IN
  Dated(l) => IF config.pins[f] # None
                THEN l.content.version = config.pins[f]
                ELSE l.content.version \in began[f] .. server[f]

\* What a build loads is whole, if its server declares sizes or its configuration
\* pins a digest, and no extraction of the archive was ever cut off.
LoadsWhole == \A l \in Loads : l.vouched /\ ~l.torn => l.content.whole

\* "Extraction skipped when contents are up to date" (acquire.py:81-82).
ExtractionsWhole == \A l \in Loads :
  Sources[l.source].file \in Archives => l.content.whole
=============================================================================
