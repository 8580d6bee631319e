----------------------- MODULE AnnotatorDocumentsProofs -----------------------
(***************************************************************************)
(* Proofs about AnnotatorDocuments: for any number of tabs, of uploads and *)
(* of imports, and with requests that fail between any two of their steps. *)
(*                                                                         *)
(* A request writes what it has read, so what has to be carried from its   *)
(* read to its write is that its reading is still good unless it is marked *)
(* as overtaken (ReadingInv).  The rest is bookkeeping: no document is on  *)
(* its way twice (ApartInv), an import has accounted for the documents it  *)
(* is through with, and two imports fill the session at once only if it    *)
(* was deleted in between (ImportInv).                                     *)
(***************************************************************************)
EXTENDS AnnotatorDocuments, FiniteSetTheorems, FunctionTheorems, SequenceTheorems,
        WellFoundedInduction, TLAPS

Listed(s) == {s[i] : i \in DOMAIN s}

Steps == {"idle", "session", "settings", "highest", "insert", "refresh", "toponyms",
          "stored", "unlink", "delete", "reindex", "renumber"}

\* What a request of either kind has at its steps.
RequestInv ==
  /\ pc \in [Tabs -> Steps]
  /\ kind \in [Tabs -> {"text", "json", "legacy"}]
  /\ files \in [Tabs -> Seq(Docs)]
  /\ highest \in [Tabs -> Nat \cup {-1}]
  /\ DOMAIN target = Tabs
  /\ DOMAIN plan = Tabs
  /\ DOMAIN seen = Tabs
  /\ \A t \in Tabs :
       /\ \A d \in DOMAIN plan[t] : d \in Docs /\ plan[t][d] \in Nat
       /\ pc[t] \in {"session", "settings", "highest", "insert", "refresh", "toponyms"} =>
            files[t] # <<>>
       /\ pc[t] \in {"stored", "unlink"} => files[t] = <<>>
       /\ pc[t] \in {"idle", "delete", "reindex", "renumber"} => kind[t] = "text"
       /\ pc[t] \in {"session", "settings", "toponyms", "stored"} => kind[t] # "text"
       /\ pc[t] = "unlink" => kind[t] = "legacy"

\* The stored indices; there is a highest one.
RowsInv ==
  /\ index \in [Rows -> Nat]
  /\ Rows \subseteq Docs
  /\ IsFiniteSet(Rows)
  /\ \E n \in Nat : \A d \in Rows : index[d] <= n
  /\ disorder \in BOOLEAN /\ raced \in BOOLEAN
  /\ session # "live" => Rows = {}

\* Nor does a plan grow out of bounds.
PlanInv == \A t \in Tabs : \E n \in Nat : \A d \in DOMAIN plan[t] : plan[t][d] <= n

\* What a request has read is still so, unless it has been overtaken.
ReadingInv == \A t \in Tabs \ overtaken :
  /\ pc[t] = "insert" => highest[t] = Highest
  /\ pc[t] = "renumber" => \E rank \in Orders : plan[t] = Changes(rank)

\* The documents a request is still going to insert.
Coming(t) ==
  CASE pc[t] \in {"session", "settings", "highest", "insert"} -> Listed(files[t])
    [] pc[t] \in {"refresh", "toponyms"} -> Listed(Tail(files[t]))
    [] OTHER -> {}

\* No document is stored twice, nor on its way twice.
ApartInv ==
  /\ \A t \in Tabs : Coming(t) \cap Rows = {}
  /\ \A t, b \in Tabs : t # b => Coming(t) \cap Coming(b) = {}
  /\ \A u \in unsent : Listed(u) \cap Rows = {}
  /\ \A u \in unsent : \A t \in Tabs : Listed(u) \cap Coming(t) = {}
  /\ \A t \in Tabs : \A i, j \in DOMAIN files[t] : files[t][i] = files[t][j] => i = j

\* A document that an import is through with is stored whole, or was deleted.
Accounted(d) == d \in dropped \/ Whole(d)

\* s is what is left of u, and all before it is accounted for.
LeftOf(s, u) ==
  /\ Len(s) <= Len(u)
  /\ \A i \in DOMAIN s : s[i] = u[Len(u) - Len(s) + i]
  /\ \A i \in 1 .. Len(u) - Len(s) : Accounted(u[i])

ProgressInv == \A t \in Tabs :
  IF kind[t] = "text" THEN Listed(files[t]) \cap Imported = {}
                      ELSE \E u \in Imports : LeftOf(files[t], u)

\* An import that has its session.
Filling(t) == kind[t] # "text" /\ pc[t] # "session"

Involved(u) ==
  \/ Listed(u) \cap Rows # {}
  \/ \E t \in Tabs : Filling(t) /\ Listed(u) \cap Coming(t) # {}

ImportInv ==
  /\ \A t \in Tabs : kind[t] = "legacy" => legacy # "none"
  /\ \A t \in Tabs : kind[t] = "json" => legacy = "none"
  /\ ~severed =>
       /\ \A t \in Tabs : Filling(t) => session # "absent"
       /\ \A t \in Tabs : Filling(t) /\ kind[t] = "legacy" => session = "live"
       /\ \A t, b \in Tabs : Filling(t) /\ Filling(b) => t = b
       /\ \A u, v \in Imports : Involved(u) /\ Involved(v) => u = v

DocumentsInv ==
  /\ TypeOK
  /\ RequestInv
  /\ RowsInv
  /\ PlanInv
  /\ ReadingInv
  /\ OrderlyIndices
  /\ ApartInv
  /\ ProgressInv
  /\ ImportInv
  /\ LegacyImportedOnce

-----------------------------------------------------------------------------
(***************************************************************************)
(* Numbers and sequences.                                                  *)
(***************************************************************************)

\* A set of numbers with a bound has a greatest element.
LEMMA GreatestExists ==
  ASSUME NEW S \in SUBSET Nat, S # {}, NEW n \in Nat, \A x \in S : x <= n
  PROVE  \E h \in S : \A x \in S : x <= h
<1> DEFINE bounds == {m \in Nat : \A x \in S : x <= m}
           less == {ss \in Nat \X Nat : ss[1] < ss[2]}
<1>1. IsWellFoundedOn(less, Nat)
  BY NatLessThanWellFounded DEF OpToRel
<1>2. bounds \subseteq Nat /\ bounds # {}
  BY n \in bounds
<1> HIDE DEF less
<1>3. PICK m \in bounds : \A k \in bounds : <<k, m>> \notin less
  BY <1>1, <1>2, WFMin
<1>4. m \in Nat /\ \A x \in S : x <= m
  OBVIOUS
<1>5. ASSUME m \notin S
      PROVE  FALSE
  <2>1. \A x \in S : x < m
    BY <1>4, <1>5
  <2>2. m # 0
    <3>1. PICK x \in S : TRUE
      OBVIOUS
    <3> QED
      BY <1>4, <2>1, <3>1
  <2>3. m - 1 \in bounds
    BY <1>4, <2>1, <2>2
  <2>4. <<m - 1, m>> \in less
    BY <1>4, <2>2 DEF less
  <2> QED
    BY <1>3, <2>3, <2>4
<1> QED
  BY <1>4, <1>5

\* Taking the head off a sequence without repetitions takes it off for good.
LEMMA ListedTail ==
  ASSUME NEW S, NEW s \in Seq(S), s # <<>>,
         \A i, j \in DOMAIN s : s[i] = s[j] => i = j
  PROVE  /\ Head(s) \in S
         /\ Tail(s) \in Seq(S)
         /\ Len(Tail(s)) = Len(s) - 1
         /\ Listed(s) = {Head(s)} \cup Listed(Tail(s))
         /\ Head(s) \notin Listed(Tail(s))
         /\ \A i, j \in DOMAIN Tail(s) : Tail(s)[i] = Tail(s)[j] => i = j
<1>1. /\ Head(s) \in S
      /\ Tail(s) \in Seq(S)
      /\ Len(Tail(s)) = Len(s) - 1
      /\ \A i \in 1 .. Len(Tail(s)) : Tail(s)[i] = s[i + 1]
  BY HeadTailProperties
<1>2. /\ DOMAIN s = 1 .. Len(s)
      /\ DOMAIN Tail(s) = 1 .. Len(Tail(s))
      /\ Len(s) \in Nat /\ Len(s) # 0
      /\ Head(s) = s[1]
  BY <1>1
<1>3. \A i \in DOMAIN s : i = 1 \/ (i - 1 \in DOMAIN Tail(s) /\ s[i] = Tail(s)[i - 1])
  BY <1>1, <1>2
<1>4. \A i \in DOMAIN Tail(s) : i + 1 \in DOMAIN s /\ i + 1 # 1 /\ s[i + 1] = Tail(s)[i]
  BY <1>1, <1>2
<1>5. 1 \in DOMAIN s
  BY <1>2
<1> HIDE DEF Listed
<1>6. Listed(s) = {Head(s)} \cup Listed(Tail(s))
  <2>1. ASSUME NEW x \in Listed(s)
        PROVE  x = Head(s) \/ x \in Listed(Tail(s))
    <3>1. PICK i \in DOMAIN s : x = s[i]
      BY <2>1 DEF Listed
    <3>2. i = 1 \/ (i - 1 \in DOMAIN Tail(s) /\ x = Tail(s)[i - 1])
      BY <1>3, <3>1
    <3> QED
      BY <1>2, <3>1, <3>2 DEF Listed
  <2>2. ASSUME NEW x \in Listed(Tail(s))
        PROVE  x \in Listed(s)
    BY <1>4, <2>2 DEF Listed
  <2>3. Head(s) \in Listed(s)
    BY <1>2, <1>5 DEF Listed
  <2> QED
    BY <2>1, <2>2, <2>3
<1>7. Head(s) \notin Listed(Tail(s))
  BY <1>2, <1>4, <1>5 DEF Listed
<1>8. ASSUME NEW i \in DOMAIN Tail(s), NEW j \in DOMAIN Tail(s), Tail(s)[i] = Tail(s)[j]
      PROVE  i = j
  <2>1. i + 1 = j + 1
    BY <1>4, <1>8
  <2>2. i \in Nat /\ j \in Nat
    BY <1>2
  <2> QED
    BY <2>1, <2>2
<1> QED
  BY <1>1, <1>6, <1>7, <1>8

-----------------------------------------------------------------------------
(***************************************************************************)
(* Indices and their order.                                                *)
(***************************************************************************)

\* The highest index is one, and none is higher; without rows it is -1.
LEMMA HighestIndex ==
  ASSUME RowsInv
  PROVE  /\ Highest \in Nat \cup {-1}
         /\ \A d \in Rows : index[d] <= Highest
         /\ Rows = {} => Highest = -1
         /\ Rows # {} => \E d \in Rows : index[d] = Highest
<1>1. CASE Rows = {}
  BY <1>1 DEF Highest
<1>2. CASE Rows # {}
  <2> DEFINE S == {index[d] : d \in Rows}
  <2>1. PICK n \in Nat : \A d \in Rows : index[d] <= n
    BY DEF RowsInv
  <2>2. S \in SUBSET Nat /\ S # {} /\ \A x \in S : x <= n
    BY <1>2, <2>1 DEF RowsInv
  <2>3. \E h \in S : \A x \in S : x <= h
    BY <2>2, GreatestExists
  <2>4. \E h \in S : \A d \in Rows : index[d] <= h
    BY <2>3
  <2>5. Highest = CHOOSE h \in S : \A d \in Rows : index[d] <= h
    BY <1>2 DEF Highest
  <2> HIDE DEF S
  <2>6. Highest \in S /\ \A d \in Rows : index[d] <= Highest
    BY <2>4, <2>5
  <2> QED
    BY <1>2, <2>2, <2>6 DEF S
<1> QED
  BY <1>1, <1>2

\* A rank of every row takes each place once and keeps the order.
LEMMA RankFacts ==
  ASSUME RowsInv, NEW rank \in Orders
  PROVE  /\ rank \in [Rows -> 0 .. Cardinality(Rows) - 1]
         /\ Cardinality(Rows) \in Nat
         /\ {rank[d] : d \in Rows} = 0 .. Cardinality(Rows) - 1
         /\ \A d, e \in Rows : index[d] < index[e] => rank[d] < rank[e]
<1>1. /\ rank \in [Rows -> 0 .. Cardinality(Rows) - 1]
      /\ \A d, e \in Rows : d # e =>
           rank[d] # rank[e] /\ (index[d] < index[e] => rank[d] < rank[e])
  BY DEF Orders
<1>2. IsFiniteSet(Rows) /\ Cardinality(Rows) \in Nat
  BY FS_CardinalityType DEF RowsInv
<1>3. /\ IsFiniteSet(0 .. Cardinality(Rows) - 1)
      /\ Cardinality(0 .. Cardinality(Rows) - 1) = Cardinality(Rows)
  BY <1>2, FS_Interval
<1>4. rank \in Injection(Rows, 0 .. Cardinality(Rows) - 1)
  <2> DEFINE T == 0 .. Cardinality(Rows) - 1
  <2>1. rank \in [Rows -> T] /\ \A a, b \in Rows : rank[a] = rank[b] => a = b
    BY <1>1
  <2> HIDE DEF T
  <2>2. rank \in Injection(Rows, T)
    BY <2>1 DEF Injection, IsInjective
  <2> QED
    BY <2>2 DEF T
<1>5. rank \in Surjection(Rows, 0 .. Cardinality(Rows) - 1)
  BY <1>3, <1>4, FS_Injection
<1>6. {rank[d] : d \in Rows} = 0 .. Cardinality(Rows) - 1
  BY <1>1, <1>5 DEF Surjection
<1>7. \A d, e \in Rows : index[d] < index[e] => d # e
  BY DEF RowsInv
<1> QED
  BY <1>1, <1>2, <1>6, <1>7

\* An order of the rows depends on their indices only.
LEMMA ReadingsOfIndex ==
  ASSUME index' = index
  PROVE  /\ Highest' = Highest
         /\ Orders' = Orders
         /\ \A rank : Changes(rank)' = Changes(rank)
BY DEF Highest, Orders, Changes, Rows

-----------------------------------------------------------------------------
(***************************************************************************)
(* Requests.                                                               *)
(***************************************************************************)

\* All that a tab may do.
Step(t) ==
  \/ \E u \in Uploads : CreateSession(t, u)
  \/ \E u \in Uploads : AddDocuments(t, u)
  \/ ReadHighest(t)
  \/ InsertDocument(t)
  \/ RefreshDocument(t)
  \/ \E u \in Imports : StartImport(t, u)
  \/ InsertSession(t)
  \/ InsertSettings(t)
  \/ InsertToponyms(t)
  \/ RefreshSession(t)
  \/ Unlink(t)
  \/ LoadPage(t)
  \/ RemoveDocument(t)
  \/ DeleteRow(t)
  \/ ReadIndices(t)
  \/ Renumber(t)
  \/ DeleteSession(t)
  \/ Fail(t)

\* A step of one tab leaves the requests of the others as they are.
OthersStay(t) == \A b \in Tabs \ {t} :
  /\ pc'[b] = pc[b]
  /\ kind'[b] = kind[b]
  /\ files'[b] = files[b]
  /\ highest'[b] = highest[b]
  /\ plan'[b] = plan[b]

\* A request that is over leaves its tab as it was before the first.
LEMMA FinishEffect ==
  ASSUME RequestInv, NEW t \in Tabs, Finish(t)
  PROVE  /\ pc'[t] = "idle" /\ kind'[t] = "text" /\ files'[t] = <<>>
         /\ OthersStay(t)
         /\ RequestInv' \/ DOMAIN seen' # Tabs
<1>1. /\ pc' \in [Tabs -> Steps] /\ pc'[t] = "idle"
      /\ kind' \in [Tabs -> {"text", "json", "legacy"}] /\ kind'[t] = "text"
      /\ files' \in [Tabs -> Seq(Docs)] /\ files'[t] = <<>>
      /\ highest' \in [Tabs -> Nat \cup {-1}]
      /\ DOMAIN target' = Tabs /\ DOMAIN plan' = Tabs
      /\ \A d \in DOMAIN plan'[t] : d \in Docs /\ plan'[t][d] \in Nat
  BY DEF Finish, Goto, RequestInv, Steps
<1>2. OthersStay(t)
  BY DEF Finish, Goto, RequestInv, OthersStay
<1>3. /\ DOMAIN seen = Tabs
      /\ \A b \in Tabs \ {t} :
           /\ \A d \in DOMAIN plan[b] : d \in Docs /\ plan[b][d] \in Nat
           /\ pc[b] \in {"session", "settings", "highest", "insert", "refresh", "toponyms"} =>
                files[b] # <<>>
           /\ pc[b] \in {"stored", "unlink"} => files[b] = <<>>
           /\ pc[b] \in {"idle", "delete", "reindex", "renumber"} => kind[b] = "text"
           /\ pc[b] \in {"session", "settings", "toponyms", "stored"} => kind[b] # "text"
           /\ pc[b] = "unlink" => kind[b] = "legacy"
  BY DEF RequestInv
<1> QED
  BY <1>1, <1>2, <1>3 DEF RequestInv, OthersStay

\* A step of the kind that only moves on, with the files it had.
LEMMA GotoEffect ==
  ASSUME RequestInv, NEW t \in Tabs, NEW step \in Steps, Goto(t, step),
         UNCHANGED <<kind, files, highest, target, plan>>
  PROVE  pc' \in [Tabs -> Steps] /\ pc'[t] = step /\ OthersStay(t)
BY DEF Goto, RequestInv, OthersStay

\* Each tab is about its own request.
LEMMA RequestStep ==
  ASSUME RequestInv, RowsInv, NEW t \in Tabs, Step(t)
  PROVE  RequestInv' /\ OthersStay(t)
<1>0. /\ pc \in [Tabs -> Steps]
      /\ kind \in [Tabs -> {"text", "json", "legacy"}]
      /\ files \in [Tabs -> Seq(Docs)]
      /\ highest \in [Tabs -> Nat \cup {-1}]
      /\ DOMAIN target = Tabs /\ DOMAIN plan = Tabs /\ DOMAIN seen = Tabs
  BY DEF RequestInv
<1>U. \A u \in Uploads \cup Imports : u \in Seq(Docs) /\ u # <<>>
  BY UploadsAssumption
<1>1. ASSUME NEW u \in Uploads, CreateSession(t, u) \/ AddDocuments(t, u)
      PROVE  RequestInv' /\ OthersStay(t)
  <2>1. /\ pc[t] = "idle"
        /\ Goto(t, "highest")
        /\ files' = [files EXCEPT ![t] = u]
        /\ seen' \in {seen, [seen EXCEPT ![t] = None]}
        /\ UNCHANGED <<kind, highest, target, plan>>
    BY <1>1 DEF CreateSession, AddDocuments
  <2> QED
    BY <1>0, <1>U, <2>1 DEF Goto, RequestInv, OthersStay, Steps
<1>2. ASSUME ReadHighest(t)
      PROVE  RequestInv' /\ OthersStay(t)
  <2>1. CASE kind[t] # "text" /\ session # "live"
    BY <1>0, <1>2, <2>1, FinishEffect DEF ReadHighest
  <2>2. CASE ~(kind[t] # "text" /\ session # "live")
    <3>1. /\ pc[t] = "highest" /\ pc' = [pc EXCEPT ![t] = "insert"]
          /\ highest' = [highest EXCEPT ![t] = Highest]
          /\ UNCHANGED <<seen, kind, files, target, plan>>
      BY <1>2, <2>2 DEF ReadHighest, Goto
    <3>2. Highest \in Nat \cup {-1}
      BY HighestIndex
    <3> QED
      BY <1>0, <3>1, <3>2 DEF RequestInv, OthersStay, Steps
  <2> QED
    BY <2>1, <2>2
<1>3. ASSUME InsertDocument(t)
      PROVE  RequestInv' /\ OthersStay(t)
  <2>1. CASE session = "live"
    BY <1>0, <1>3, <2>1 DEF InsertDocument, Goto, RequestInv, OthersStay, Steps
  <2>2. CASE session # "live"
    BY <1>0, <1>3, <2>2, FinishEffect DEF InsertDocument
  <2> QED
    BY <2>1, <2>2
<1>4. ASSUME NextFile(t), pc[t] \in {"refresh", "toponyms"}, kind[t] # "text" \/ Tail(files[t]) # <<>>,
             UNCHANGED seen
      PROVE  RequestInv' /\ OthersStay(t)
  <2>1. /\ files[t] \in Seq(Docs) /\ files[t] # <<>>
        /\ Tail(files[t]) \in Seq(Docs)
    BY <1>0, <1>4, HeadTailProperties DEF RequestInv
  <2>2. /\ files' = [files EXCEPT ![t] = Tail(files[t])]
        /\ UNCHANGED <<kind, highest, target, plan>>
    BY <1>4 DEF NextFile
  <2>3. \/ Tail(files[t]) # <<>> /\ pc' = [pc EXCEPT ![t] = "highest"]
        \/ Tail(files[t]) = <<>> /\ pc' = [pc EXCEPT ![t] = "stored"]
    BY <1>4 DEF NextFile, Goto
  <2> QED
    BY <1>0, <1>4, <2>1, <2>2, <2>3 DEF RequestInv, OthersStay, Steps
<1>5. ASSUME RefreshDocument(t)
      PROVE  RequestInv' /\ OthersStay(t)
  <2>1. pc[t] = "refresh" /\ UNCHANGED seen
    BY <1>5 DEF RefreshDocument
  <2>2. \/ Finish(t)
        \/ kind[t] # "text" /\ Goto(t, "toponyms") /\ UNCHANGED <<kind, files, highest, target, plan>>
        \/ NextFile(t) /\ Tail(files[t]) # <<>>
    BY <1>5 DEF RefreshDocument
  <2>3. CASE Finish(t)
    BY <1>0, <2>1, <2>3, FinishEffect
  <2>4. CASE kind[t] # "text" /\ Goto(t, "toponyms") /\ UNCHANGED <<kind, files, highest, target, plan>>
    BY <1>0, <2>1, <2>4 DEF Goto, RequestInv, OthersStay, Steps
  <2>5. CASE NextFile(t) /\ Tail(files[t]) # <<>>
    BY <1>4, <2>1, <2>5
  <2> QED
    BY <2>2, <2>3, <2>4, <2>5
<1>6. ASSUME NEW u \in Imports, StartImport(t, u)
      PROVE  RequestInv' /\ OthersStay(t)
  <2>1. /\ pc[t] = "idle"
        /\ Goto(t, "session")
        /\ files' = [files EXCEPT ![t] = u]
        /\ seen' = [seen EXCEPT ![t] = None]
        /\ \/ kind' = [kind EXCEPT ![t] = "legacy"]
           \/ kind' = [kind EXCEPT ![t] = "json"]
        /\ UNCHANGED <<highest, target, plan>>
    BY <1>6 DEF StartImport
  <2> QED
    BY <1>0, <1>U, <2>1 DEF Goto, RequestInv, OthersStay, Steps
<1>7. ASSUME InsertSession(t)
      PROVE  RequestInv' /\ OthersStay(t)
  <2>1. CASE Accepts(t)
    <3>1. /\ pc[t] = "session" /\ pc' = [pc EXCEPT ![t] = "settings"]
          /\ UNCHANGED <<seen, kind, files, highest, target, plan>>
      BY <1>7, <2>1 DEF InsertSession, Goto
    <3> QED
      BY <1>0, <3>1 DEF RequestInv, OthersStay, Steps
  <2>2. CASE ~Accepts(t)
    BY <1>0, <1>7, <2>2, FinishEffect DEF InsertSession
  <2> QED
    BY <2>1, <2>2
<1>8. ASSUME InsertSettings(t)
      PROVE  RequestInv' /\ OthersStay(t)
  <2>1. CASE session = "live"
    BY <1>0, <1>8, <2>1 DEF InsertSettings, Goto, RequestInv, OthersStay, Steps
  <2>2. CASE session # "live"
    BY <1>0, <1>8, <2>2, FinishEffect DEF InsertSettings
  <2> QED
    BY <2>1, <2>2
<1>9. ASSUME InsertToponyms(t)
      PROVE  RequestInv' /\ OthersStay(t)
  <2>1. pc[t] = "toponyms" /\ UNCHANGED seen /\ kind[t] # "text"
    BY <1>9 DEF InsertToponyms, RequestInv
  <2>2. NextFile(t) \/ Finish(t)
    BY <1>9 DEF InsertToponyms
  <2>3. CASE NextFile(t)
    BY <1>4, <2>1, <2>3
  <2>4. CASE Finish(t)
    BY <1>0, <2>1, <2>4, FinishEffect
  <2> QED
    BY <2>2, <2>3, <2>4
<1>10. ASSUME RefreshSession(t)
       PROVE  RequestInv' /\ OthersStay(t)
  <2>1. CASE session = "live" /\ kind[t] = "legacy"
    BY <1>0, <1>10, <2>1 DEF RefreshSession, Goto, RequestInv, OthersStay, Steps
  <2>2. CASE ~(session = "live" /\ kind[t] = "legacy")
    BY <1>0, <1>10, <2>2, FinishEffect DEF RefreshSession
  <2> QED
    BY <2>1, <2>2
<1>11. ASSUME Unlink(t) \/ Fail(t)
       PROVE  RequestInv' /\ OthersStay(t)
  BY <1>0, <1>11, FinishEffect DEF Unlink, Fail
<1>12. ASSUME LoadPage(t) \/ DeleteSession(t)
       PROVE  RequestInv' /\ OthersStay(t)
  <2>1. UNCHANGED requestVars /\ DOMAIN seen' = Tabs
    BY <1>0, <1>12 DEF LoadPage, DeleteSession
  <2> QED
    BY <1>0, <2>1 DEF requestVars, RequestInv, OthersStay
<1>13. ASSUME RemoveDocument(t)
       PROVE  RequestInv' /\ OthersStay(t)
  <2>1. /\ pc[t] = "idle" /\ Goto(t, "delete")
        /\ DOMAIN target' = Tabs
        /\ UNCHANGED <<seen, kind, files, highest, plan>>
    BY <1>0, <1>13 DEF RemoveDocument
  <2> QED
    BY <1>0, <2>1 DEF Goto, RequestInv, OthersStay, Steps
<1>14. ASSUME DeleteRow(t)
       PROVE  RequestInv' /\ OthersStay(t)
  BY <1>0, <1>14 DEF DeleteRow, Goto, RequestInv, OthersStay, Steps
<1>15. ASSUME ReadIndices(t)
       PROVE  RequestInv' /\ OthersStay(t)
  <2>1. PICK rank \in Orders : plan' = [plan EXCEPT ![t] = Changes(rank)]
    BY <1>15 DEF ReadIndices
  <2>2. rank \in [Rows -> 0 .. Cardinality(Rows) - 1] /\ Cardinality(Rows) \in Nat
    BY RankFacts
  <2>3. \A d \in DOMAIN Changes(rank) : d \in Docs /\ Changes(rank)[d] \in Nat
    BY <2>2 DEF Changes, RowsInv
  <2>4. /\ pc[t] = "reindex" /\ Goto(t, "renumber")
        /\ UNCHANGED <<seen, kind, files, highest, target>>
    BY <1>15 DEF ReadIndices
  <2> HIDE DEF Changes
  <2> QED
    BY <1>0, <2>1, <2>3, <2>4 DEF Goto, RequestInv, OthersStay, Steps
<1>16. ASSUME Renumber(t)
       PROVE  RequestInv' /\ OthersStay(t)
  <2>1. Finish(t) /\ DOMAIN seen' = Tabs
    BY <1>0, <1>16 DEF Renumber
  <2> QED
    BY <2>1, FinishEffect
<1> QED
  BY <1>1, <1>2, <1>3, <1>5, <1>6, <1>7, <1>8, <1>9, <1>10, <1>11, <1>12, <1>13, <1>14,
     <1>15, <1>16 DEF Step

-----------------------------------------------------------------------------
(***************************************************************************)
(* The stored documents.                                                   *)
(***************************************************************************)

\* The four steps that write indices.
Inserts(t) == InsertDocument(t) /\ session = "live"
Renumbers(t) == Renumber(t) /\ DOMAIN plan[t] \subseteq Rows

LEMMA IndexUnmoved ==
  ASSUME NEW t \in Tabs, Step(t), ~Inserts(t), ~DeleteRow(t), ~Renumbers(t), ~DeleteSession(t)
  PROVE  /\ index' = index
         /\ session' = session \/ session' = "live"
         /\ UNCHANGED raced
<1>1. ASSUME InsertDocument(t)
      PROVE  index' = index /\ session' = session /\ UNCHANGED raced
  BY <1>1 DEF InsertDocument, Inserts
<1>2. ASSUME Renumber(t)
      PROVE  index' = index /\ session' = session /\ UNCHANGED raced
  BY <1>2 DEF Renumber, Renumbers
<1>3. ASSUME NEW u \in Uploads, CreateSession(t, u) \/ AddDocuments(t, u)
      PROVE  index' = index /\ (session' = session \/ session' = "live") /\ UNCHANGED raced
  BY <1>3 DEF CreateSession, AddDocuments, historyVars
<1>4. ASSUME NEW u \in Imports, StartImport(t, u)
      PROVE  index' = index /\ session' = session /\ UNCHANGED raced
  BY <1>4 DEF StartImport, historyVars
<1>5. ASSUME InsertSession(t)
      PROVE  index' = index /\ (session' = session \/ session' = "live") /\ UNCHANGED raced
  BY <1>5 DEF InsertSession, historyVars
<1>6. ASSUME \/ ReadHighest(t) \/ RefreshDocument(t) \/ InsertSettings(t) \/ InsertToponyms(t)
             \/ RefreshSession(t) \/ Unlink(t)
      PROVE  index' = index /\ session' = session /\ UNCHANGED raced
  BY <1>6 DEF ReadHighest, RefreshDocument, InsertSettings, InsertToponyms, RefreshSession,
              Unlink, historyVars
<1>7. ASSUME LoadPage(t) \/ RemoveDocument(t) \/ ReadIndices(t) \/ Fail(t)
      PROVE  index' = index /\ session' = session /\ UNCHANGED raced
  BY <1>7 DEF LoadPage, RemoveDocument, ReadIndices, Fail, historyVars
<1> QED
  BY <1>1, <1>2, <1>3, <1>4, <1>5, <1>6, <1>7 DEF Step

\* An insert adds the document above the index it has read.
LEMMA InsertEffect ==
  ASSUME RequestInv, RowsInv, ApartInv, NEW t \in Tabs, Inserts(t)
  PROVE  LET d == Head(files[t]) IN
         /\ pc[t] = "insert" /\ pc'[t] = "refresh"
         /\ d \in Docs
         /\ d \notin Rows
         /\ Rows' = Rows \cup {d}
         /\ index' = [e \in Rows' |-> IF e = d THEN highest[t] + 1 ELSE index[e]]
         /\ highest[t] + 1 \in Nat
         /\ UNCHANGED <<session, files, kind, unsent, annotated, legacy, dropped, severed>>
         /\ \A b \in Tabs \ {t} : pc[b] \in {"insert", "renumber"} => b \in overtaken'
<1>1. /\ pc[t] = "insert" /\ session = "live"
      /\ index' = [e \in Rows \cup {Head(files[t])} |->
                    IF e = Head(files[t]) THEN highest[t] + 1 ELSE index[e]]
      /\ Overtakes(t)
      /\ Goto(t, "refresh")
      /\ UNCHANGED <<session, files, kind, unsent, annotated, legacy, dropped, severed>>
  BY DEF Inserts, InsertDocument, legacyVars
<1>2. files[t] \in Seq(Docs) /\ files[t] # <<>>
  BY <1>1 DEF RequestInv
<1>3. /\ Head(files[t]) \in Docs
      /\ Listed(files[t]) = {Head(files[t])} \cup Listed(Tail(files[t]))
  BY <1>2, ListedTail DEF ApartInv
<1>4. Head(files[t]) \notin Rows
  BY <1>1, <1>3 DEF ApartInv, Coming
<1>5. Rows' = Rows \cup {Head(files[t])}
  BY <1>1 DEF Rows
<1>6. index' = [e \in Rows' |-> IF e = Head(files[t]) THEN highest[t] + 1 ELSE index[e]]
  BY <1>1, <1>5
<1>7. highest[t] + 1 \in Nat
  BY DEF RequestInv
<1>8. \A b \in Tabs \ {t} : pc[b] \in {"insert", "renumber"} => b \in overtaken'
  BY <1>1 DEF Overtakes
<1>9. pc'[t] = "refresh"
  BY <1>1 DEF Goto, RequestInv
<1> QED
  BY <1>1, <1>3, <1>4, <1>5, <1>6, <1>7, <1>8, <1>9

\* A removal takes one row away.
LEMMA DeleteEffect ==
  ASSUME RequestInv, RowsInv, NEW t \in Tabs, DeleteRow(t)
  PROVE  /\ pc[t] = "delete" /\ pc'[t] = "reindex"
         /\ Rows' = Rows \ {target[t]}
         /\ index' = [e \in Rows' |-> index[e]]
         /\ index' # index =>
              \A b \in Tabs \ {t} : pc[b] \in {"insert", "renumber"} => b \in overtaken'
         /\ overtaken \ {t} \subseteq overtaken'
         /\ dropped' = dropped \cup ({target[t]} \cap Rows \cap Imported)
         /\ annotated' = annotated \ {target[t]}
         /\ UNCHANGED <<session, files, kind, unsent, legacy, severed, disorder, raced>>
<1>1. /\ pc[t] = "delete" /\ Goto(t, "reindex")
      /\ index' = [d \in Rows \ {target[t]} |-> index[d]]
      /\ IF target[t] \in Rows THEN Overtakes(t) ELSE UNCHANGED overtaken
      /\ UNCHANGED <<session, files, kind, unsent, legacy, severed, disorder, raced>>
  BY DEF DeleteRow
<1>2. Rows' = Rows \ {target[t]}
  BY <1>1 DEF Rows
<1>3. target[t] \notin Rows => index' = index
  <2>1. index = [d \in Rows |-> index[d]]
    BY DEF RowsInv
  <2> QED
    BY <1>1, <2>1
<1>4. /\ target[t] \in Rows =>
           \A b \in Tabs \ {t} : pc[b] \in {"insert", "renumber"} => b \in overtaken'
      /\ overtaken \ {t} \subseteq overtaken'
  BY <1>1 DEF Overtakes
<1>5. /\ dropped' = dropped \cup ({target[t]} \cap Rows \cap Imported)
      /\ annotated' = annotated \ {target[t]}
  BY DEF DeleteRow
<1>6. pc'[t] = "reindex"
  BY <1>1 DEF Goto, RequestInv
<1> QED
  BY <1>1, <1>2, <1>3, <1>4, <1>5, <1>6

\* A renumbering writes its plan over the rows there are.
LEMMA RenumberEffect ==
  ASSUME RequestInv, RowsInv, NEW t \in Tabs, Renumbers(t)
  PROVE  /\ pc[t] = "renumber" /\ pc'[t] = "idle"
         /\ Rows' = Rows
         /\ index' = [e \in Rows |-> IF e \in DOMAIN plan[t] THEN plan[t][e] ELSE index[e]]
         /\ index' # index =>
              \A b \in Tabs \ {t} : pc[b] \in {"insert", "renumber"} => b \in overtaken'
         /\ overtaken \ {t} \subseteq overtaken'
         /\ disorder' = (t \in overtaken)
         /\ raced' = (raced \/ t \in overtaken)
         /\ UNCHANGED <<session, unsent, annotated, legacy, dropped, severed>>
<1>1. /\ pc[t] = "renumber" /\ Finish(t) /\ DOMAIN plan[t] \subseteq Rows
      /\ index' = [e \in Rows |-> IF e \in DOMAIN plan[t] THEN plan[t][e] ELSE index[e]]
      /\ IF DOMAIN plan[t] # {} THEN Overtakes(t) ELSE overtaken' = overtaken \ {t}
      /\ disorder' = (t \in overtaken)
      /\ raced' = (raced \/ t \in overtaken)
      /\ UNCHANGED <<session, unsent, annotated, legacy, dropped, severed>>
  BY DEF Renumbers, Renumber, legacyVars
<1>3. Rows' = Rows
  BY <1>1 DEF Rows
<1>4. DOMAIN plan[t] = {} => index' = index
  <2>1. index = [d \in Rows |-> index[d]]
    BY DEF RowsInv
  <2> QED
    BY <1>1, <2>1
<1>5. /\ DOMAIN plan[t] # {} =>
           \A b \in Tabs \ {t} : pc[b] \in {"insert", "renumber"} => b \in overtaken'
      /\ overtaken \ {t} \subseteq overtaken'
  BY <1>1 DEF Overtakes
<1>6. pc'[t] = "idle"
  BY <1>1, FinishEffect
<1> QED
  BY <1>1, <1>3, <1>4, <1>5, <1>6

\* A deleted session has no rows.
LEMMA DeleteSessionEffect ==
  ASSUME RequestInv, NEW t \in Tabs, DeleteSession(t)
  PROVE  /\ pc[t] = "idle" /\ session = "live" /\ session' = "gone"
         /\ Rows' = {}
         /\ \A b \in Tabs \ {t} : pc[b] \in {"insert", "renumber"} => b \in overtaken'
         /\ dropped' = dropped \cup (Rows \cap Imported)
         /\ annotated' = {}
         /\ severed' = (severed \/ \E b \in Tabs : kind[b] = "legacy")
         /\ UNCHANGED <<unsent, pc, kind, files, highest, plan, disorder, raced, legacy>>
BY DEF DeleteSession, Overtakes, Rows, requestVars

\* The rows are finitely many, with a bound to their indices.
LEMMA RowsStep ==
  ASSUME RequestInv, RowsInv, PlanInv, ApartInv, NEW t \in Tabs, Step(t)
  PROVE  RowsInv'
<1>1. disorder' \in BOOLEAN
  <2>1. ASSUME NEW u \in Uploads, CreateSession(t, u) \/ AddDocuments(t, u)
        PROVE  disorder' = disorder
    BY <2>1 DEF CreateSession, AddDocuments, historyVars
  <2>2. ASSUME NEW u \in Imports, StartImport(t, u)
        PROVE  disorder' = disorder
    BY <2>2 DEF StartImport, historyVars
  <2>3. ASSUME \/ ReadHighest(t) \/ RefreshDocument(t) \/ InsertSession(t) \/ InsertSettings(t)
               \/ InsertToponyms(t) \/ RefreshSession(t) \/ Unlink(t)
        PROVE  disorder' = disorder
    BY <2>3 DEF ReadHighest, RefreshDocument, InsertSession, InsertSettings, InsertToponyms,
                RefreshSession, Unlink, historyVars
  <2>4. ASSUME \/ LoadPage(t) \/ RemoveDocument(t) \/ ReadIndices(t) \/ DeleteRow(t)
               \/ DeleteSession(t)
        PROVE  disorder' = disorder
    BY <2>4 DEF LoadPage, RemoveDocument, ReadIndices, DeleteRow, DeleteSession, historyVars
  <2>5. ASSUME InsertDocument(t)
        PROVE  disorder' = disorder \/ disorder' = (disorder \/ t \in overtaken)
    BY <2>5 DEF InsertDocument
  <2>6. ASSUME Renumber(t)
        PROVE  disorder' = TRUE \/ disorder' = (t \in overtaken)
    BY <2>6 DEF Renumber
  <2>7. ASSUME Fail(t)
        PROVE  disorder' = (disorder \/ pc[t] \in {"reindex", "renumber"})
    BY <2>7 DEF Fail
  <2>8. disorder \in BOOLEAN
    BY DEF RowsInv
  <2>9. CASE disorder' = disorder
    BY <2>8, <2>9
  <2>10. CASE disorder' = (disorder \/ t \in overtaken)
    BY <2>10
  <2>11. CASE disorder' = (t \in overtaken)
    BY <2>11
  <2>12. CASE disorder' = (disorder \/ pc[t] \in {"reindex", "renumber"})
    BY <2>12
  <2>13. CASE disorder' = TRUE
    BY <2>13
  <2> QED
    BY <2>1, <2>2, <2>3, <2>4, <2>5, <2>6, <2>7, <2>9, <2>10, <2>11, <2>12, <2>13 DEF Step
<1>2. CASE Inserts(t)
  <2> DEFINE d == Head(files[t])
             n == highest[t] + 1
  <2>1. /\ d \in Docs /\ n \in Nat /\ d \notin Rows
        /\ Rows' = Rows \cup {d}
        /\ index' = [e \in Rows' |-> IF e = d THEN n ELSE index[e]]
        /\ session' = session /\ session = "live"
    BY <1>2, InsertEffect DEF Inserts
  <2>2. raced' \in BOOLEAN
    <3>1. raced' = (raced \/ t \in overtaken)
      BY <1>2 DEF Inserts, InsertDocument
    <3> QED
      BY <3>1
  <2>3. IsFiniteSet(Rows')
    BY <2>1, FS_AddElement DEF RowsInv
  <2> HIDE DEF d, n
  <2>4. PICK m \in Nat : \A e \in Rows : index[e] <= m
    BY DEF RowsInv
  <2>5. m + n \in Nat /\ \A e \in Rows' : index'[e] <= m + n
    BY <2>1, <2>4 DEF RowsInv
  <2> QED
    BY <1>1, <2>1, <2>2, <2>3, <2>5 DEF RowsInv
<1>3. CASE DeleteRow(t)
  <2>1. /\ Rows' = Rows \ {target[t]}
        /\ index' = [e \in Rows' |-> index[e]]
        /\ session' = session /\ raced' = raced
    BY <1>3, DeleteEffect
  <2>2. IsFiniteSet(Rows')
    BY <2>1, FS_RemoveElement DEF RowsInv
  <2> QED
    BY <1>1, <2>1, <2>2 DEF RowsInv
<1>4. CASE Renumbers(t)
  <2>1. /\ Rows' = Rows
        /\ index' = [e \in Rows |-> IF e \in DOMAIN plan[t] THEN plan[t][e] ELSE index[e]]
        /\ session' = session
        /\ raced' = (raced \/ t \in overtaken)
    BY <1>4, RenumberEffect
  <2>2. index' \in [Rows -> Nat]
    BY <2>1 DEF RowsInv, RequestInv
  <2>3. \E n \in Nat : \A d \in Rows : index'[d] <= n
    <3>1. PICK m \in Nat : \A d \in Rows : index[d] <= m
      BY DEF RowsInv
    <3>2. PICK n \in Nat : \A d \in DOMAIN plan[t] : plan[t][d] <= n
      BY DEF PlanInv
    <3>3. m + n \in Nat /\ \A d \in Rows : index'[d] <= m + n
      BY <2>1, <3>1, <3>2 DEF RowsInv, RequestInv
    <3> QED
      BY <3>3
  <2> QED
    BY <1>1, <2>1, <2>2, <2>3 DEF RowsInv
<1>5. CASE DeleteSession(t)
  <2>1. Rows' = {} /\ raced' = raced
    BY <1>5, DeleteSessionEffect
  <2>2. index' = [d \in {} |-> 0]
    BY <1>5 DEF DeleteSession
  <2> QED
    BY <1>1, <2>1, <2>2, FS_EmptySet DEF RowsInv
<1>6. CASE ~Inserts(t) /\ ~DeleteRow(t) /\ ~Renumbers(t) /\ ~DeleteSession(t)
  <2>1. /\ index' = index /\ Rows' = Rows
        /\ session' = session \/ session' = "live"
        /\ raced' = raced
    BY <1>6, IndexUnmoved DEF Rows
  <2> QED
    BY <1>1, <2>1 DEF RowsInv
<1> QED
  BY <1>2, <1>3, <1>4, <1>5, <1>6

\* A plan is made of the places of rows.
LEMMA PlanStep ==
  ASSUME RequestInv, RowsInv, PlanInv, NEW t \in Tabs, Step(t)
  PROVE  PlanInv'
<1>1. ASSUME NEW b \in Tabs \ {t}
      PROVE  plan'[b] = plan[b]
  BY RequestStep DEF OthersStay
<1>2. \E n \in Nat : \A d \in DOMAIN plan'[t] : plan'[t][d] <= n
  <2>1. ASSUME ReadIndices(t)
        PROVE  \E n \in Nat : \A d \in DOMAIN plan'[t] : plan'[t][d] <= n
    <3>1. PICK rank \in Orders : plan' = [plan EXCEPT ![t] = Changes(rank)]
      BY <2>1 DEF ReadIndices
    <3>2. plan'[t] = Changes(rank)
      BY <3>1 DEF RequestInv
    <3>3. rank \in [Rows -> 0 .. Cardinality(Rows) - 1] /\ Cardinality(Rows) \in Nat
      BY RankFacts
    <3>4. \A d \in DOMAIN plan'[t] : plan'[t][d] <= Cardinality(Rows)
      BY <3>2, <3>3 DEF Changes
    <3> QED
      BY <3>3, <3>4
  <2>2. ASSUME plan'[t] = plan[t]
        PROVE  \E n \in Nat : \A d \in DOMAIN plan'[t] : plan'[t][d] <= n
    BY <2>2 DEF PlanInv
  <2>3. ASSUME Finish(t)
        PROVE  \E n \in Nat : \A d \in DOMAIN plan'[t] : plan'[t][d] <= n
    BY <2>3 DEF Finish, RequestInv
  <2>4. ASSUME NEW u \in Uploads, CreateSession(t, u) \/ AddDocuments(t, u)
        PROVE  plan' = plan
    BY <2>4 DEF CreateSession, AddDocuments
  <2>5. ASSUME NEW u \in Imports, StartImport(t, u)
        PROVE  plan' = plan
    BY <2>5 DEF StartImport
  <2>6. ASSUME \/ ReadHighest(t) \/ RefreshDocument(t) \/ InsertSession(t) \/ InsertSettings(t)
               \/ InsertToponyms(t) \/ RefreshSession(t) \/ Unlink(t) \/ InsertDocument(t)
        PROVE  plan' = plan \/ Finish(t)
    BY <2>6 DEF ReadHighest, RefreshDocument, NextFile, InsertSession, InsertSettings,
                InsertToponyms, RefreshSession, Unlink, InsertDocument
  <2>7. ASSUME \/ LoadPage(t) \/ RemoveDocument(t) \/ DeleteRow(t) \/ DeleteSession(t)
               \/ Renumber(t) \/ Fail(t)
        PROVE  plan' = plan \/ Finish(t)
    BY <2>7 DEF LoadPage, RemoveDocument, DeleteRow, DeleteSession, Renumber, Fail, requestVars
  <2> QED
    BY <2>1, <2>2, <2>3, <2>4, <2>5, <2>6, <2>7 DEF Step
<1> QED
  BY <1>1, <1>2 DEF PlanInv

-----------------------------------------------------------------------------
(***************************************************************************)
(* What has been read.                                                     *)
(***************************************************************************)

\* Whoever changes an index marks the others that have read and not written.
LEMMA OvertakenStep ==
  ASSUME RequestInv, RowsInv, ApartInv, NEW t \in Tabs, Step(t)
  PROVE  /\ overtaken \ {t} \subseteq overtaken'
         /\ \/ index' = index
            \/ \A b \in Tabs \ {t} : pc[b] \in {"insert", "renumber"} => b \in overtaken'
<1>1. overtaken \ {t} \subseteq overtaken'
  <2>1. CASE Overtakes(t)
    BY <2>1 DEF Overtakes
  <2>2. CASE overtaken' = overtaken \ {t} \/ overtaken' = overtaken
    BY <2>2
  <2>3. ASSUME NEW u \in Uploads, CreateSession(t, u) \/ AddDocuments(t, u)
        PROVE  overtaken' = overtaken
    BY <2>3 DEF CreateSession, AddDocuments, historyVars
  <2>4. ASSUME NEW u \in Imports, StartImport(t, u)
        PROVE  overtaken' = overtaken
    BY <2>4 DEF StartImport, historyVars
  <2>5. ASSUME \/ ReadHighest(t) \/ RefreshDocument(t) \/ InsertSession(t) \/ InsertSettings(t)
               \/ InsertToponyms(t) \/ RefreshSession(t) \/ Unlink(t)
        PROVE  overtaken' = overtaken
    BY <2>5 DEF ReadHighest, RefreshDocument, InsertSession, InsertSettings, InsertToponyms,
                RefreshSession, Unlink, historyVars
  <2>6. ASSUME LoadPage(t) \/ RemoveDocument(t) \/ ReadIndices(t)
        PROVE  overtaken' = overtaken
    BY <2>6 DEF LoadPage, RemoveDocument, ReadIndices, historyVars
  <2>7. ASSUME DeleteRow(t) \/ DeleteSession(t) \/ InsertDocument(t) \/ Renumber(t) \/ Fail(t)
        PROVE  Overtakes(t) \/ overtaken' = overtaken \ {t} \/ overtaken' = overtaken
    BY <2>7 DEF DeleteRow, DeleteSession, InsertDocument, Renumber, Fail
  <2> QED
    BY <2>1, <2>2, <2>3, <2>4, <2>5, <2>6, <2>7 DEF Step
<1>2. \/ index' = index
      \/ \A b \in Tabs \ {t} : pc[b] \in {"insert", "renumber"} => b \in overtaken'
  BY InsertEffect, DeleteEffect, RenumberEffect, DeleteSessionEffect, IndexUnmoved
<1> QED
  BY <1>1, <1>2

\* A tab comes to a write from its reading.
LEMMA ReadsFirst ==
  ASSUME RequestInv, NEW t \in Tabs, Step(t), pc'[t] \in {"insert", "renumber"}
  PROVE  /\ index' = index
         /\ pc'[t] = "insert" => highest'[t] = Highest
         /\ pc'[t] = "renumber" => \E rank \in Orders : plan'[t] = Changes(rank)
<1>0. DOMAIN pc = Tabs /\ DOMAIN highest = Tabs /\ DOMAIN plan = Tabs
  BY DEF RequestInv
<1>1. ASSUME ReadHighest(t)
      PROVE  /\ index' = index
             /\ pc'[t] = "insert"
             /\ highest'[t] = Highest
  <2>1. ~Finish(t)
    BY <1>0 DEF Finish, Goto
  <2> QED
    BY <1>0, <1>1, <2>1 DEF ReadHighest, Goto
<1>2. ASSUME ReadIndices(t)
      PROVE  /\ index' = index
             /\ pc'[t] = "renumber"
             /\ \E rank \in Orders : plan'[t] = Changes(rank)
  <2>1. PICK rank \in Orders : plan' = [plan EXCEPT ![t] = Changes(rank)]
    BY <1>2 DEF ReadIndices
  <2>2. plan'[t] = Changes(rank)
    BY <1>0, <2>1
  <2>3. index' = index /\ pc'[t] = "renumber"
    BY <1>0, <1>2 DEF ReadIndices, Goto
  <2> QED
    BY <2>2, <2>3
<1>3. ASSUME NEW step \in Steps \ {"insert", "renumber"}, Goto(t, step)
      PROVE  FALSE
  BY <1>0, <1>3 DEF Goto
<1>4. ASSUME Finish(t)
      PROVE  FALSE
  BY <1>0, <1>4 DEF Finish, Goto
<1>5. ASSUME NextFile(t)
      PROVE  FALSE
  <2>1. Goto(t, "highest") \/ Goto(t, "stored")
    BY <1>5 DEF NextFile
  <2> QED
    BY <1>3, <2>1 DEF Steps
<1>6. ASSUME pc[t] = "idle", pc' = pc
      PROVE  FALSE
  BY <1>6
<1>7. ASSUME NEW u \in Uploads, CreateSession(t, u) \/ AddDocuments(t, u)
      PROVE  FALSE
  BY <1>3, <1>7 DEF CreateSession, AddDocuments, Steps
<1>8. ASSUME NEW u \in Imports, StartImport(t, u)
      PROVE  FALSE
  BY <1>3, <1>8 DEF StartImport, Steps
<1>9. ASSUME InsertDocument(t)
      PROVE  FALSE
  BY <1>3, <1>4, <1>9 DEF InsertDocument, Steps
<1>10. ASSUME RefreshDocument(t)
       PROVE  FALSE
  BY <1>3, <1>4, <1>5, <1>10 DEF RefreshDocument, Steps
<1>11. ASSUME InsertSession(t) \/ InsertSettings(t)
       PROVE  FALSE
  BY <1>3, <1>4, <1>11 DEF InsertSession, InsertSettings, Steps
<1>12. ASSUME InsertToponyms(t) \/ RefreshSession(t) \/ Unlink(t)
       PROVE  FALSE
  BY <1>3, <1>4, <1>5, <1>12 DEF InsertToponyms, RefreshSession, Unlink, Steps
<1>13. ASSUME LoadPage(t) \/ DeleteSession(t)
       PROVE  FALSE
  BY <1>6, <1>13 DEF LoadPage, DeleteSession, requestVars
<1>14. ASSUME RemoveDocument(t) \/ DeleteRow(t)
       PROVE  FALSE
  BY <1>3, <1>14 DEF RemoveDocument, DeleteRow, Steps
<1>15. ASSUME Renumber(t) \/ Fail(t)
       PROVE  FALSE
  BY <1>4, <1>15 DEF Renumber, Fail
<1> QED
  BY <1>1, <1>2, <1>7, <1>8, <1>9, <1>10, <1>11, <1>12, <1>13, <1>14, <1>15 DEF Step

LEMMA ReadingStep ==
  ASSUME RequestInv, RowsInv, ApartInv, ReadingInv, NEW t \in Tabs, Step(t)
  PROVE  ReadingInv'
<1>1. ASSUME NEW b \in Tabs \ overtaken', pc'[b] \in {"insert", "renumber"}
      PROVE  /\ pc'[b] = "insert" => highest'[b] = Highest'
             /\ pc'[b] = "renumber" => \E rank \in Orders' : plan'[b] = Changes(rank)'
  <2>1. CASE b = t
    <3>1. index' = index
      BY <1>1, <2>1, ReadsFirst
    <3>2. /\ pc'[b] = "insert" => highest'[b] = Highest
          /\ pc'[b] = "renumber" => \E rank \in Orders : plan'[b] = Changes(rank)
      BY <1>1, <2>1, ReadsFirst
    <3> QED
      BY <3>1, <3>2, ReadingsOfIndex
  <2>2. CASE b # t
    <3>1. pc'[b] = pc[b] /\ highest'[b] = highest[b] /\ plan'[b] = plan[b]
      BY <2>2, RequestStep DEF OthersStay
    <3>2. index' = index /\ b \notin overtaken
      BY <1>1, <2>2, <3>1, OvertakenStep
    <3>3. /\ pc[b] = "insert" => highest[b] = Highest
          /\ pc[b] = "renumber" => \E rank \in Orders : plan[b] = Changes(rank)
      BY <3>2 DEF ReadingInv
    <3> QED
      BY <3>1, <3>2, <3>3, ReadingsOfIndex
  <2> QED
    BY <2>1, <2>2
<1> QED
  BY <1>1 DEF ReadingInv

-----------------------------------------------------------------------------
(***************************************************************************)
(* The stored indices are the positions.                                   *)
(***************************************************************************)

\* Of dense indices the highest is the number of rows less one.
LEMMA HighestOfDense ==
  ASSUME RowsInv, Dense
  PROVE  Highest = Cardinality(Rows) - 1 /\ Cardinality(Rows) \in Nat
<1>1. Cardinality(Rows) \in Nat
  BY FS_CardinalityType DEF RowsInv
<1>2. CASE Rows = {}
  BY <1>2, HighestIndex, FS_EmptySet
<1>3. CASE Rows # {}
  <2>1. PICK d \in Rows : index[d] = Highest
    BY <1>3, HighestIndex
  <2>2. Cardinality(Rows) # 0
    BY <1>3, FS_EmptySet DEF RowsInv
  <2>3. Highest \in 0 .. Cardinality(Rows) - 1
    BY <2>1 DEF Dense
  <2>4. Cardinality(Rows) - 1 \in {index[e] : e \in Rows}
    BY <1>1, <2>2 DEF Dense
  <2>5. PICK e \in Rows : index[e] = Cardinality(Rows) - 1
    BY <2>4
  <2>6. Cardinality(Rows) - 1 <= Highest
    BY <2>5, HighestIndex
  <2> QED
    BY <1>1, <2>3, <2>6
<1> QED
  BY <1>1, <1>2, <1>3

\* A document inserted above the highest index is the next of dense indices.
LEMMA DenseInsert ==
  ASSUME RequestInv, RowsInv, ApartInv, Dense, NEW t \in Tabs, Inserts(t), highest[t] = Highest
  PROVE  Dense'
<1> DEFINE d == Head(files[t])
           n == Cardinality(Rows)
<1>1. n \in Nat /\ highest[t] + 1 = n
  BY HighestOfDense
<1>2. /\ d \notin Rows
      /\ Rows' = Rows \cup {d}
      /\ index' = [e \in Rows' |-> IF e = d THEN n ELSE index[e]]
  BY <1>1, InsertEffect
<1>3. Cardinality(Rows') = n + 1
  BY <1>2, FS_AddElement DEF RowsInv
<1>4. {index[e] : e \in Rows} = 0 .. n - 1
  BY DEF Dense
<1> HIDE DEF n, d
<1>5. {index'[e] : e \in Rows'} = {index[e] : e \in Rows} \cup {n}
  BY <1>2
<1>6. {index'[e] : e \in Rows'} = 0 .. (n + 1) - 1
  BY <1>1, <1>4, <1>5
<1> QED
  BY <1>3, <1>6 DEF Dense

\* A renumbering from a good reading makes each index the place of its row.
LEMMA RanksWritten ==
  ASSUME RequestInv, RowsInv, NEW t \in Tabs, Renumbers(t), NEW rank \in Orders,
         plan[t] = Changes(rank)
  PROVE  Rows' = Rows /\ \A d \in Rows : index'[d] = rank[d]
<1>1. /\ Rows' = Rows
      /\ index' = [e \in Rows |-> IF e \in DOMAIN plan[t] THEN plan[t][e] ELSE index[e]]
  BY RenumberEffect
<1>2. \A d \in Rows : index'[d] = rank[d]
  BY <1>1 DEF Changes
<1> QED
  BY <1>1, <1>2

LEMMA DenseRenumber ==
  ASSUME RequestInv, RowsInv, ReadingInv, NEW t \in Tabs, Renumbers(t), t \notin overtaken
  PROVE  Dense'
<1>1. pc[t] = "renumber"
  BY RenumberEffect
<1>2. PICK rank \in Orders : plan[t] = Changes(rank)
  BY <1>1 DEF ReadingInv
<1>3. Rows' = Rows /\ \A d \in Rows : index'[d] = rank[d]
  BY <1>2, RanksWritten
<1>4. {rank[d] : d \in Rows} = 0 .. Cardinality(Rows) - 1
  BY RankFacts
<1>5. {index'[d] : d \in Rows'} = {rank[d] : d \in Rows}
  BY <1>3
<1> QED
  BY <1>3, <1>4, <1>5 DEF Dense

\* A removal that stops half way leaves its mark.
LEMMA RenumberingStep ==
  ASSUME RequestInv, RowsInv, NEW t \in Tabs, Step(t), ~Renumber(t), ~disorder', ~Renumbering'
  PROVE  ~disorder /\ ~Renumbering
<1>0. DOMAIN pc = Tabs
  BY DEF RequestInv
<1>1. ASSUME NEW b \in Tabs \ {t}
      PROVE  pc[b] \notin {"reindex", "renumber"}
  <2>1. pc'[b] = pc[b]
    BY RequestStep DEF OthersStay
  <2> QED
    BY <2>1 DEF Renumbering
<1>2. ~disorder /\ pc[t] \notin {"reindex", "renumber"}
  <2>1. ASSUME NEW u \in Uploads, CreateSession(t, u) \/ AddDocuments(t, u)
        PROVE  ~disorder /\ pc[t] \notin {"reindex", "renumber"}
    BY <2>1 DEF CreateSession, AddDocuments, historyVars
  <2>2. ASSUME NEW u \in Imports, StartImport(t, u)
        PROVE  ~disorder /\ pc[t] \notin {"reindex", "renumber"}
    BY <2>2 DEF StartImport, historyVars
  <2>3. ASSUME \/ ReadHighest(t) \/ RefreshDocument(t) \/ InsertSession(t) \/ InsertSettings(t)
               \/ InsertToponyms(t) \/ RefreshSession(t) \/ Unlink(t) \/ InsertDocument(t)
        PROVE  ~disorder /\ pc[t] \notin {"reindex", "renumber"}
    BY <2>3 DEF ReadHighest, RefreshDocument, InsertSession, InsertSettings, InsertToponyms,
                RefreshSession, Unlink, InsertDocument, historyVars
  <2>4. ASSUME LoadPage(t) \/ RemoveDocument(t) \/ DeleteRow(t) \/ DeleteSession(t)
        PROVE  ~disorder /\ pc[t] \notin {"reindex", "renumber"}
    BY <2>4 DEF LoadPage, RemoveDocument, DeleteRow, DeleteSession, historyVars
  <2>5. ASSUME ReadIndices(t)
        PROVE  FALSE
    BY <1>0, <2>5 DEF ReadIndices, Goto, Renumbering
  <2>6. ASSUME Fail(t)
        PROVE  ~disorder /\ pc[t] \notin {"reindex", "renumber"}
    BY <2>6 DEF Fail
  <2> QED
    BY <2>1, <2>2, <2>3, <2>4, <2>5, <2>6 DEF Step
<1> QED
  BY <1>1, <1>2 DEF Renumbering

LEMMA OrderlyStep ==
  ASSUME RequestInv, RowsInv, ApartInv, ReadingInv, OrderlyIndices, NEW t \in Tabs, Step(t)
  PROVE  OrderlyIndices'
<1> SUFFICES ASSUME ~disorder', ~Renumbering'
             PROVE  Dense'
  BY DEF OrderlyIndices
<1>1. CASE Renumber(t)
  <2>1. Renumbers(t) /\ t \notin overtaken
    BY <1>1 DEF Renumber, Renumbers
  <2> QED
    BY <2>1, DenseRenumber
<1>2. CASE ~Renumber(t)
  <2>1. Dense
    BY <1>2, RenumberingStep DEF OrderlyIndices
  <2>2. CASE Inserts(t)
    <3>1. pc[t] = "insert" /\ t \notin overtaken
      BY <2>2 DEF Inserts, InsertDocument
    <3> QED
      BY <2>1, <2>2, <3>1, DenseInsert DEF ReadingInv
  <2>3. CASE DeleteRow(t)
    BY <2>3, DeleteEffect DEF Renumbering
  <2>4. CASE DeleteSession(t)
    <3>1. Rows' = {}
      BY <2>4, DeleteSessionEffect
    <3>2. Cardinality(Rows') = 0
      BY <3>1, FS_EmptySet
    <3>3. 0 .. 0 - 1 = {}
      OBVIOUS
    <3> QED
      BY <3>1, <3>2, <3>3 DEF Dense
  <2>5. CASE ~Inserts(t) /\ ~DeleteRow(t) /\ ~DeleteSession(t)
    <3>1. index' = index
      BY <1>2, <2>5, IndexUnmoved DEF Renumbers
    <3> QED
      BY <2>1, <3>1 DEF Dense, Rows
  <2> QED
    BY <2>2, <2>3, <2>4, <2>5
<1> QED
  BY <1>1, <1>2

-----------------------------------------------------------------------------
(***************************************************************************)
(* The documents on their way.                                             *)
(***************************************************************************)

\* The steps that take up an upload or an import.
Starts(t, u) ==
  \/ u \in Uploads /\ (CreateSession(t, u) \/ AddDocuments(t, u))
  \/ u \in Imports /\ StartImport(t, u)

LEMMA StartEffect ==
  ASSUME RequestInv, NEW t \in Tabs, NEW u, Starts(t, u)
  PROVE  /\ u \in unsent /\ unsent' = unsent \ {u}
         /\ u \in Uploads \cup Imports
         /\ pc[t] = "idle" /\ kind[t] = "text"
         /\ files'[t] = u
         /\ UNCHANGED <<index, annotated, legacy, dropped, severed>>
         /\ session' = session \/ session' = "live"
         /\ \/ u \in Uploads /\ kind'[t] = "text" /\ pc'[t] = "highest"
            \/ /\ u \in Imports /\ pc'[t] = "session"
               /\ \/ kind'[t] = "legacy" /\ legacy = "kept"
                  \/ kind'[t] = "json" /\ legacy = "none"
<1>0. DOMAIN pc = Tabs /\ DOMAIN kind = Tabs /\ DOMAIN files = Tabs
  BY DEF RequestInv
<1>1. pc[t] = "idle" /\ kind[t] = "text"
  BY DEF Starts, CreateSession, AddDocuments, StartImport, RequestInv
<1>2. CASE u \in Uploads /\ (CreateSession(t, u) \/ AddDocuments(t, u))
  BY <1>0, <1>1, <1>2 DEF CreateSession, AddDocuments, Goto, legacyVars
<1>3. CASE u \in Imports /\ StartImport(t, u)
  BY <1>0, <1>1, <1>3 DEF StartImport, Goto, legacyVars
<1> QED
  BY <1>2, <1>3 DEF Starts

\* The other steps that store or remove no document.
Moves(t) ==
  /\ Step(t)
  /\ \A u : ~Starts(t, u)
  /\ ~Inserts(t) /\ ~DeleteRow(t) /\ ~DeleteSession(t)

\* The files of a request stay, are forgotten with it, or lose their first.
FilesMove(t) ==
  \/ UNCHANGED <<files, kind>>
  \/ files'[t] = <<>> /\ kind'[t] = "text"
  \/ /\ files[t] # <<>> /\ files'[t] = Tail(files[t]) /\ kind'[t] = kind[t]
     /\ pc[t] \in {"refresh", "toponyms"}
     /\ kind[t] = "text" \/ Head(files[t]) \in Rows' \cap annotated'

LEMMA FinishMoves ==
  ASSUME RequestInv, NEW t \in Tabs, Finish(t)
  PROVE  FilesMove(t) /\ Coming(t)' = {} /\ ~Filling(t)'
BY FinishEffect DEF FilesMove, Coming, Filling

LEMMA NextFileMoves ==
  ASSUME RequestInv, NEW t \in Tabs, NextFile(t), pc[t] \in {"refresh", "toponyms"},
         kind[t] = "text" \/ Head(files[t]) \in Rows' \cap annotated'
  PROVE  FilesMove(t) /\ Coming(t)' \subseteq Coming(t) /\ (Filling(t)' => Filling(t))
<1>1. /\ files'[t] = Tail(files[t]) /\ kind'[t] = kind[t]
      /\ pc'[t] \in {"highest", "stored"}
  BY DEF NextFile, Goto, RequestInv
<1>2. files[t] # <<>>
  BY DEF RequestInv
<1>3. Coming(t) = Listed(Tail(files[t]))
  BY DEF Coming
<1>4. Coming(t)' \subseteq Listed(Tail(files[t]))
  BY <1>1 DEF Coming, Listed
<1> QED
  BY <1>1, <1>2, <1>3, <1>4 DEF FilesMove, Filling

LEMMA GotoMoves ==
  ASSUME RequestInv, NEW t \in Tabs, NEW step \in Steps, Goto(t, step), UNCHANGED <<files, kind>>,
         \/ pc[t] \in {"session", "settings", "highest"} /\ step \in {"settings", "highest", "insert"}
         \/ pc[t] = "refresh" /\ step = "toponyms"
         \/ step \in {"unlink", "delete", "reindex", "renumber"}
  PROVE  /\ FilesMove(t) /\ Coming(t)' \subseteq Coming(t)
         /\ Filling(t)' => Filling(t) \/ pc[t] = "session" \/ pc[t] = "idle"
<1>1. pc'[t] = step /\ files' = files /\ kind' = kind
  BY DEF Goto, RequestInv
<1>2. FilesMove(t)
  BY DEF FilesMove
<1>3. Coming(t)' \subseteq Coming(t)
  BY <1>1 DEF Coming, Listed
<1> QED
  BY <1>1, <1>2, <1>3 DEF Filling

LEMMA MoveEffect ==
  ASSUME RequestInv, RowsInv, NEW t \in Tabs, Moves(t)
  PROVE  /\ Rows' = Rows
         /\ UNCHANGED <<unsent, dropped, severed>>
         /\ annotated \subseteq annotated'
         /\ FilesMove(t)
         /\ Coming(t)' \subseteq Coming(t)
         /\ session' = session \/ (InsertSession(t) /\ Accepts(t))
         /\ Filling(t)' => Filling(t) \/ (InsertSession(t) /\ Accepts(t))
         /\ legacy' = legacy \/ Unlink(t)
<1>1. Rows' = Rows
  <2>1. CASE Renumbers(t)
    BY <2>1, RenumberEffect
  <2>2. CASE ~Renumbers(t)
    BY <2>2, IndexUnmoved DEF Moves, Rows
  <2> QED
    BY <2>1, <2>2
<1>2. \/ ReadHighest(t) \/ InsertDocument(t) \/ RefreshDocument(t) \/ InsertSession(t)
      \/ InsertSettings(t) \/ InsertToponyms(t) \/ RefreshSession(t) \/ Unlink(t)
      \/ LoadPage(t) \/ RemoveDocument(t) \/ ReadIndices(t) \/ Renumber(t) \/ Fail(t)
  BY DEF Moves, Step, Starts
<1>3. /\ UNCHANGED <<unsent, dropped, severed>>
      /\ annotated \subseteq annotated'
      /\ session' = session \/ (InsertSession(t) /\ Accepts(t))
      /\ legacy' = legacy \/ Unlink(t)
  <2>1. CASE ReadHighest(t) \/ InsertDocument(t) \/ RefreshDocument(t)
    BY <2>1 DEF ReadHighest, InsertDocument, RefreshDocument, legacyVars
  <2>2. CASE InsertSession(t)
    BY <2>2 DEF InsertSession, legacyVars
  <2>3. CASE InsertSettings(t) \/ RefreshSession(t)
    BY <2>3 DEF InsertSettings, RefreshSession, legacyVars
  <2>4. CASE InsertToponyms(t)
    BY <2>4 DEF InsertToponyms
  <2>5. CASE Unlink(t)
    BY <2>5 DEF Unlink
  <2>6. CASE LoadPage(t) \/ RemoveDocument(t) \/ ReadIndices(t) \/ Renumber(t) \/ Fail(t)
    BY <2>6 DEF LoadPage, RemoveDocument, ReadIndices, Renumber, Fail, legacyVars
  <2> QED
    BY <1>2, <2>1, <2>2, <2>3, <2>4, <2>5, <2>6
<1>4. /\ FilesMove(t)
      /\ Coming(t)' \subseteq Coming(t)
      /\ Filling(t)' => Filling(t) \/ (InsertSession(t) /\ Accepts(t))
  <2>1. CASE Finish(t)
    BY <2>1, FinishMoves
  <2>2. CASE ReadHighest(t) /\ ~Finish(t)
    <3>1. pc[t] = "highest" /\ Goto(t, "insert") /\ UNCHANGED <<files, kind>>
      BY <2>2 DEF ReadHighest
    <3> QED
      BY <3>1, GotoMoves DEF Steps
  <2>3. CASE InsertDocument(t)
    <3>1. session # "live"
      BY <2>3 DEF Moves, Inserts
    <3> QED
      BY <2>1, <2>3, <3>1 DEF InsertDocument
  <2>4. CASE RefreshDocument(t) /\ ~Finish(t)
    <3>1. pc[t] = "refresh"
      BY <2>4 DEF RefreshDocument
    <3>2. \/ Goto(t, "toponyms") /\ UNCHANGED <<files, kind>>
          \/ NextFile(t) /\ kind[t] = "text"
      BY <2>4 DEF RefreshDocument
    <3> QED
      BY <3>1, <3>2, GotoMoves, NextFileMoves DEF Steps
  <2>5. CASE InsertSession(t) /\ ~Finish(t)
    <3>1. pc[t] = "session" /\ Goto(t, "settings") /\ UNCHANGED <<files, kind>> /\ Accepts(t)
      BY <2>5 DEF InsertSession
    <3> QED
      BY <2>5, <3>1, GotoMoves DEF Steps
  <2>6. CASE InsertSettings(t) /\ ~Finish(t)
    <3>1. pc[t] = "settings" /\ Goto(t, "highest") /\ UNCHANGED <<files, kind>>
      BY <2>6 DEF InsertSettings
    <3> QED
      BY <3>1, GotoMoves DEF Steps
  <2>7. CASE InsertToponyms(t) /\ ~Finish(t)
    <3>1. /\ pc[t] = "toponyms" /\ NextFile(t)
          /\ Head(files[t]) \in Rows
          /\ annotated' = annotated \cup {Head(files[t])}
          /\ UNCHANGED index
      BY <2>7 DEF InsertToponyms
    <3>2. Head(files[t]) \in Rows' \cap annotated'
      BY <1>1, <3>1
    <3> QED
      BY <3>1, <3>2, NextFileMoves
  <2>8. CASE RefreshSession(t) /\ ~Finish(t)
    <3>1. pc[t] = "stored" /\ Goto(t, "unlink") /\ UNCHANGED <<files, kind>>
      BY <2>8 DEF RefreshSession
    <3> QED
      BY <3>1, GotoMoves DEF Steps
  <2>9. CASE Unlink(t) \/ Renumber(t) \/ Fail(t)
    BY <2>1, <2>9 DEF Unlink, Renumber, Fail
  <2>10. CASE LoadPage(t)
    <3>1. pc' = pc /\ files' = files /\ kind' = kind
      BY <2>10 DEF LoadPage, requestVars
    <3> QED
      BY <3>1 DEF FilesMove, Coming, Listed, Filling
  <2>11. CASE RemoveDocument(t) \/ ReadIndices(t)
    <3>1. /\ Goto(t, "delete") \/ Goto(t, "renumber")
          /\ UNCHANGED <<files, kind>>
          /\ pc[t] \in {"idle", "reindex"}
      BY <2>11 DEF RemoveDocument, ReadIndices
    <3>2. kind'[t] = "text"
      BY <3>1 DEF RequestInv
    <3>3. FilesMove(t) /\ Coming(t)' \subseteq Coming(t)
      BY <3>1, GotoMoves DEF Steps
    <3> QED
      BY <3>2, <3>3 DEF Filling
  <2> QED
    BY <1>2, <2>1, <2>2, <2>3, <2>4, <2>5, <2>6, <2>7, <2>8, <2>9, <2>10, <2>11
<1> QED
  BY <1>1, <1>3, <1>4

\* Each step starts, moves, inserts or deletes.
LEMMA StepKinds ==
  ASSUME NEW t \in Tabs, Step(t)
  PROVE  \/ \E u : Starts(t, u)
         \/ Moves(t)
         \/ Inserts(t)
         \/ DeleteRow(t)
         \/ DeleteSession(t)
BY DEF Moves

LEMMA OthersComing ==
  ASSUME NEW t \in Tabs, OthersStay(t), NEW b \in Tabs \ {t}
  PROVE  Coming(b)' = Coming(b) /\ Filling(b)' = Filling(b)
BY DEF OthersStay, Coming, Filling, Listed

\* Two of the files sent have no document in common.
LEMMA FilesApart ==
  ASSUME NEW u \in Uploads \cup Imports, NEW v \in Uploads \cup Imports,
         Listed(u) \cap Listed(v) # {}
  PROVE  u = v
<1>1. PICK d \in Listed(u) \cap Listed(v) : TRUE
  OBVIOUS
<1>2. PICK i \in DOMAIN u : d = u[i]
  BY <1>1 DEF Listed
<1>3. PICK j \in DOMAIN v : d = v[j]
  BY <1>1 DEF Listed
<1> QED
  BY <1>2, <1>3, UploadsAssumption

\* A step that takes no more documents on its way and stores no more keeps them apart.
LEMMA ApartMove ==
  ASSUME RequestInv, ApartInv, NEW t \in Tabs, OthersStay(t), UNCHANGED unsent,
         Rows' \subseteq Rows, Coming(t)' \subseteq Coming(t),
         \A i, j \in DOMAIN files'[t] : files'[t][i] = files'[t][j] => i = j
  PROVE  ApartInv'
<1>1. \A b \in Tabs : Coming(b)' \subseteq Coming(b)
  BY OthersComing
<1>2. \A b \in Tabs : \A i, j \in DOMAIN files'[b] : files'[b][i] = files'[b][j] => i = j
  BY DEF ApartInv, OthersStay
<1>3. \A u : Listed(u)' = Listed(u)
  BY DEF Listed
<1> HIDE DEF Coming, Listed, Rows
<1>4. \A b \in Tabs : Coming(b)' \cap Rows' = {}
  BY <1>1 DEF ApartInv
<1>5. \A b, c \in Tabs : b # c => Coming(b)' \cap Coming(c)' = {}
  BY <1>1 DEF ApartInv
<1>6. \A u \in unsent : Listed(u) \cap Rows' = {}
  BY DEF ApartInv
<1>7. \A u \in unsent : \A b \in Tabs : Listed(u) \cap Coming(b)' = {}
  BY <1>1 DEF ApartInv
<1> QED
  BY <1>2, <1>3, <1>4, <1>5, <1>6, <1>7 DEF ApartInv

LEMMA ApartStep ==
  ASSUME TypeOK, RequestInv, RowsInv, ApartInv, NEW t \in Tabs, Step(t)
  PROVE  ApartInv'
<1>0. OthersStay(t) /\ RequestInv'
  BY RequestStep
<1>1. \A i, j \in DOMAIN files[t] : files[t][i] = files[t][j] => i = j
  BY DEF ApartInv
<1>2. ASSUME NEW u, Starts(t, u)
      PROVE  ApartInv'
  <2>1. /\ u \in unsent /\ unsent' = unsent \ {u}
        /\ u \in Uploads \cup Imports
        /\ files'[t] = u /\ pc'[t] \in {"highest", "session"}
        /\ index' = index
    BY <1>2, StartEffect
  <2>2. Coming(t)' = Listed(u) /\ Rows' = Rows
    BY <2>1 DEF Coming, Listed, Rows
  <2>3. \A b \in Tabs \ {t} : Coming(b)' = Coming(b)
    BY <1>0, OthersComing
  <2>4. \A v \in unsent' : v # u /\ v \in Uploads \cup Imports
    BY <2>1 DEF TypeOK
  <2>5. \A v \in unsent' : Listed(v) \cap Listed(u) = {}
    BY <2>1, <2>4, FilesApart
  <2>6. \A b \in Tabs : \A i, j \in DOMAIN files'[b] : files'[b][i] = files'[b][j] => i = j
    <3>1. \A i, j \in DOMAIN u : u[i] = u[j] => i = j
      BY <2>1, UploadsAssumption
    <3> QED
      BY <1>0, <2>1, <3>1 DEF ApartInv, OthersStay
  <2>7. \A v : Listed(v)' = Listed(v)
    BY DEF Listed
  <2> HIDE DEF Coming, Listed, Rows
  <2>8. \A b \in Tabs : Coming(b)' \cap Rows' = {}
    BY <2>1, <2>2, <2>3 DEF ApartInv
  <2>9. \A b, c \in Tabs : b # c => Coming(b)' \cap Coming(c)' = {}
    BY <2>1, <2>2, <2>3 DEF ApartInv
  <2>10. \A v \in unsent' : Listed(v) \cap Rows' = {}
    BY <2>1, <2>2 DEF ApartInv
  <2>11. \A v \in unsent' : \A b \in Tabs : Listed(v) \cap Coming(b)' = {}
    BY <2>1, <2>2, <2>3, <2>5 DEF ApartInv
  <2> QED
    BY <2>6, <2>7, <2>8, <2>9, <2>10, <2>11 DEF ApartInv
<1>3. CASE Moves(t)
  <2>1. Rows' = Rows /\ UNCHANGED unsent /\ Coming(t)' \subseteq Coming(t) /\ FilesMove(t)
    BY <1>3, MoveEffect
  <2>2. files[t] \in Seq(Docs)
    BY DEF RequestInv
  <2>3. \A i, j \in DOMAIN files'[t] : files'[t][i] = files'[t][j] => i = j
    <3>1. CASE files'[t] = files[t]
      BY <1>1, <3>1
    <3>2. CASE files'[t] = <<>>
      BY <3>2
    <3>3. CASE files[t] # <<>> /\ files'[t] = Tail(files[t])
      <4>1. \A i, j \in DOMAIN Tail(files[t]) : Tail(files[t])[i] = Tail(files[t])[j] => i = j
        BY <1>1, <2>2, <3>3, ListedTail
      <4> QED
        BY <3>3, <4>1
    <3> QED
      BY <2>1, <3>1, <3>2, <3>3 DEF FilesMove
  <2> QED
    BY <1>0, <2>1, <2>3, ApartMove
<1>4. CASE DeleteRow(t)
  <2>1. /\ Rows' \subseteq Rows /\ UNCHANGED <<unsent, files>>
        /\ pc'[t] = "reindex"
    BY <1>4, DeleteEffect
  <2>2. Coming(t)' = {}
    BY <2>1 DEF Coming
  <2> QED
    BY <1>0, <1>1, <2>1, <2>2, ApartMove
<1>5. CASE DeleteSession(t)
  <2>1. Rows' = {} /\ UNCHANGED <<unsent, files, pc>>
    BY <1>5, DeleteSessionEffect
  <2>2. Coming(t)' = Coming(t)
    BY <2>1 DEF Coming, Listed
  <2> QED
    BY <1>0, <1>1, <2>1, <2>2, ApartMove
<1>6. CASE Inserts(t)
  <2> DEFINE d == Head(files[t])
  <2>1. /\ pc[t] = "insert" /\ pc'[t] = "refresh"
        /\ Rows' = Rows \cup {d}
        /\ UNCHANGED <<files, unsent>>
    BY <1>6, InsertEffect
  <2>2. files[t] \in Seq(Docs) /\ files[t] # <<>>
    BY <2>1 DEF RequestInv
  <2>3. /\ Listed(files[t]) = {d} \cup Listed(Tail(files[t]))
        /\ d \notin Listed(Tail(files[t]))
    BY <1>1, <2>2, ListedTail
  <2>4. Coming(t) = Listed(files[t]) /\ Coming(t)' = Listed(Tail(files[t]))
    BY <2>1 DEF Coming, Listed
  <2>5. \A b \in Tabs \ {t} : Coming(b)' = Coming(b)
    BY <1>0, OthersComing
  <2>6. \A v : Listed(v)' = Listed(v)
    BY DEF Listed
  <2> HIDE DEF d, Coming, Listed, Rows
  <2>7. \A b \in Tabs : Coming(b)' \cap Rows' = {}
    BY <2>1, <2>3, <2>4, <2>5 DEF ApartInv
  <2>8. \A b, c \in Tabs : b # c => Coming(b)' \cap Coming(c)' = {}
    BY <2>3, <2>4, <2>5 DEF ApartInv
  <2>9. \A v \in unsent : Listed(v) \cap Rows' = {}
    BY <2>1, <2>3, <2>4 DEF ApartInv
  <2>10. \A v \in unsent : \A b \in Tabs : Listed(v) \cap Coming(b)' = {}
    BY <2>3, <2>4, <2>5 DEF ApartInv
  <2> QED
    BY <2>1, <2>6, <2>7, <2>8, <2>9, <2>10 DEF ApartInv
<1> QED
  BY <1>2, <1>3, <1>4, <1>5, <1>6, StepKinds

-----------------------------------------------------------------------------
(***************************************************************************)
(* What an import has accounted for.                                       *)
(***************************************************************************)

\* A document that is accounted for stays so: what is removed is remembered.
LEMMA AccountedStep ==
  ASSUME RequestInv, RowsInv, ApartInv, NEW t \in Tabs, Step(t), NEW d \in Imported, Accounted(d)
  PROVE  Accounted(d)'
<1>1. ASSUME NEW u, Starts(t, u)
      PROVE  Accounted(d)'
  BY <1>1, StartEffect DEF Accounted, Whole, Rows
<1>2. CASE Moves(t)
  BY <1>2, MoveEffect DEF Accounted, Whole
<1>3. CASE Inserts(t)
  BY <1>3, InsertEffect DEF Accounted, Whole
<1>4. CASE DeleteRow(t)
  BY <1>4, DeleteEffect DEF Accounted, Whole
<1>5. CASE DeleteSession(t)
  BY <1>5, DeleteSessionEffect DEF Accounted, Whole
<1> QED
  BY <1>1, <1>2, <1>3, <1>4, <1>5, StepKinds

LEMMA LeftStays ==
  ASSUME NEW u \in Imports, NEW s \in Seq(Docs), LeftOf(s, u),
         \A d \in Imported : Accounted(d) => Accounted(d)'
  PROVE  /\ Len(s) <= Len(u)
         /\ \A i \in DOMAIN s : s[i] = u[Len(u) - Len(s) + i]
         /\ \A i \in 1 .. Len(u) - Len(s) : Accounted(u[i])'
<1>1. u \in Seq(Docs)
  BY UploadsAssumption
<1>2. ASSUME NEW i \in 1 .. Len(u) - Len(s)
      PROVE  u[i] \in Imported
  <2>1. Len(s) \in Nat
    OBVIOUS
  <2>2. i \in DOMAIN u
    BY <1>1, <1>2, <2>1
  <2> QED
    BY <2>2 DEF Imported
<1> QED
  BY <1>2 DEF LeftOf

LEMMA ProgressStep ==
  ASSUME RequestInv, RowsInv, ApartInv, ProgressInv, NEW t \in Tabs, Step(t)
  PROVE  ProgressInv'
<1>0. /\ \A d \in Imported : Accounted(d) => Accounted(d)'
      /\ OthersStay(t) /\ RequestInv'
  BY AccountedStep, RequestStep
<1>K. kind \in [Tabs -> {"text", "json", "legacy"}] /\ files \in [Tabs -> Seq(Docs)]
  BY DEF RequestInv
<1>1. ASSUME NEW b \in Tabs, files'[b] = files[b], kind'[b] = kind[b]
      PROVE  IF kind'[b] = "text" THEN Listed(files'[b]) \cap Imported = {}
                                  ELSE \E u \in Imports : LeftOf(files[b], u)'
  <2>1. CASE kind[b] = "text"
    BY <1>1, <2>1 DEF ProgressInv
  <2>2. CASE kind[b] # "text"
    <3>1. PICK u \in Imports : LeftOf(files[b], u)
      BY <2>2 DEF ProgressInv
    <3>2. /\ Len(files[b]) <= Len(u)
          /\ \A i \in DOMAIN files[b] : files[b][i] = u[Len(u) - Len(files[b]) + i]
          /\ \A i \in 1 .. Len(u) - Len(files[b]) : Accounted(u[i])'
      BY <1>0, <1>K, <3>1, LeftStays
    <3>3. LeftOf(files[b], u)'
      BY <1>1, <3>2 DEF LeftOf
    <3> QED
      BY <1>1, <2>2, <3>3
  <2> QED
    BY <2>1, <2>2
<1>2. ASSUME NEW u, Starts(t, u)
      PROVE  IF kind'[t] = "text" THEN Listed(files'[t]) \cap Imported = {}
                                  ELSE \E v \in Imports : LeftOf(files[t], v)'
  <2>1. /\ u \in Uploads \cup Imports /\ files'[t] = u
        /\ \/ u \in Uploads /\ kind'[t] = "text"
           \/ u \in Imports /\ kind'[t] # "text"
    BY <1>2, StartEffect
  <2>2. CASE u \in Uploads /\ kind'[t] = "text"
    <3>1. ASSUME NEW d \in Listed(u) \cap Imported
          PROVE  FALSE
      <4>1. PICK v \in Imports : d \in {v[i] : i \in DOMAIN v}
        BY <3>1 DEF Imported
      <4>2. PICK j \in DOMAIN u : d = u[j]
        BY <3>1 DEF Listed
      <4>3. u = v
        BY <2>2, <4>1, <4>2, UploadsAssumption
      <4> QED
        BY <2>2, <4>3, ImportsAssumption
    <3> QED
      BY <2>1, <2>2, <3>1
  <2>3. CASE u \in Imports /\ kind'[t] # "text"
    <3>1. u \in Seq(Docs)
      BY <2>1, UploadsAssumption
    <3>2. LeftOf(files[t], u)'
      BY <2>1, <3>1 DEF LeftOf
    <3> QED
      BY <2>3, <3>2
  <2> QED
    BY <2>1, <2>2, <2>3
<1>3. ASSUME Moves(t)
      PROVE  IF kind'[t] = "text" THEN Listed(files'[t]) \cap Imported = {}
                                  ELSE \E u \in Imports : LeftOf(files[t], u)'
  <2>1. FilesMove(t)
    BY <1>3, MoveEffect
  <2>2. CASE UNCHANGED <<files, kind>>
    BY <1>1, <2>2
  <2>3. CASE files'[t] = <<>> /\ kind'[t] = "text"
    <3>1. Listed(files'[t]) = {}
      BY <2>3 DEF Listed
    <3> QED
      BY <2>3, <3>1
  <2>4. CASE /\ files[t] # <<>> /\ files'[t] = Tail(files[t]) /\ kind'[t] = kind[t]
             /\ kind[t] = "text" \/ Head(files[t]) \in Rows' \cap annotated'
    <3>1. files[t] \in Seq(Docs) /\ \A i, j \in DOMAIN files[t] : files[t][i] = files[t][j] => i = j
      BY DEF RequestInv, ApartInv
    <3>2. CASE kind[t] = "text"
      <4>1. Listed(files'[t]) \subseteq Listed(files[t])
        BY <2>4, <3>1, ListedTail
      <4>2. Listed(files[t]) \cap Imported = {}
        BY <3>2 DEF ProgressInv
      <4> QED
        BY <2>4, <3>2, <4>1, <4>2
    <3>3. CASE kind[t] # "text"
      <4>1. PICK u \in Imports : LeftOf(files[t], u)
        BY <3>3 DEF ProgressInv
      <4> DEFINE s == files[t]
                 r == Tail(files[t])
      <4>2. /\ Len(s) <= Len(u)
            /\ \A i \in DOMAIN s : s[i] = u[Len(u) - Len(s) + i]
            /\ \A i \in 1 .. Len(u) - Len(s) : Accounted(u[i])'
        BY <1>0, <3>1, <4>1, LeftStays
      <4>3. /\ s \in Seq(Docs) /\ r \in Seq(Docs) /\ u \in Seq(Docs)
            /\ Len(s) \in Nat /\ Len(r) = Len(s) - 1 /\ Len(u) \in Nat /\ Len(r) \in Nat
            /\ DOMAIN s = 1 .. Len(s) /\ DOMAIN r = 1 .. Len(r)
            /\ Head(s) = s[1]
            /\ \A i \in 1 .. Len(r) : r[i] = s[i + 1]
        BY <2>4, <3>1, HeadTailProperties, UploadsAssumption
      <4> HIDE DEF s, r
      <4>4. Len(r) <= Len(u)
        BY <4>2, <4>3
      <4>5. ASSUME NEW i \in DOMAIN r
            PROVE  r[i] = u[Len(u) - Len(r) + i]
        <5>1. r[i] = s[i + 1] /\ i + 1 \in DOMAIN s
          BY <4>3, <4>5
        <5>2. s[i + 1] = u[Len(u) - Len(s) + (i + 1)]
          BY <4>2, <5>1
        <5>3. Len(u) - Len(s) + (i + 1) = Len(u) - Len(r) + i
          BY <4>3, <4>5
        <5> QED
          BY <5>1, <5>2, <5>3
      <4>6. ASSUME NEW i \in 1 .. Len(u) - Len(r)
            PROVE  Accounted(u[i])'
        <5>1. CASE i \in 1 .. Len(u) - Len(s)
          BY <4>2, <5>1
        <5>2. CASE i \notin 1 .. Len(u) - Len(s)
          <6>1. i = Len(u) - Len(s) + 1
            <7>1. i \in Int /\ 1 <= i /\ i <= Len(u) - (Len(s) - 1)
              BY <4>3, <4>6
            <7>2. ~(i <= Len(u) - Len(s))
              BY <4>3, <5>2, <7>1
            <7>3. ASSUME NEW m \in Nat, NEW n \in Nat, i <= m - (n - 1), ~(i <= m - n)
                  PROVE  i = m - n + 1
              BY <7>1, <7>3
            <7> QED
              BY <4>3, <7>1, <7>2, <7>3
          <6>2. 1 \in DOMAIN s
            BY <4>3
          <6>3. u[i] = Head(s)
            BY <4>2, <4>3, <6>1, <6>2
          <6>4. u[i] \in Rows' \cap annotated'
            BY <2>4, <3>3, <6>3 DEF s
          <6> QED
            BY <6>4 DEF Accounted, Whole
        <5> QED
          BY <5>1, <5>2
      <4>7. files'[t] = r
        BY <2>4 DEF r
      <4>8. LeftOf(files[t], u)'
        BY <4>4, <4>5, <4>6, <4>7 DEF LeftOf
      <4> QED
        BY <2>4, <3>3, <4>8
    <3> QED
      BY <3>2, <3>3
  <2> QED
    BY <2>1, <2>2, <2>3, <2>4 DEF FilesMove
<1>4. IF kind'[t] = "text" THEN Listed(files'[t]) \cap Imported = {}
                           ELSE \E u \in Imports : LeftOf(files[t], u)'
  <2>1. CASE Inserts(t) \/ DeleteRow(t) \/ DeleteSession(t)
    BY <1>1, <2>1, InsertEffect, DeleteEffect, DeleteSessionEffect
  <2> QED
    BY <1>2, <1>3, <2>1, StepKinds
<1>5. ASSUME NEW b \in Tabs \ {t}
      PROVE  IF kind'[b] = "text" THEN Listed(files'[b]) \cap Imported = {}
                                  ELSE \E u \in Imports : LeftOf(files[b], u)'
  BY <1>0, <1>1 DEF OthersStay
<1>6. Imported' = Imported /\ \A s : Listed(s)' = Listed(s)
  BY DEF Imported, Listed
<1> QED
  BY <1>4, <1>5, <1>6 DEF ProgressInv, Listed

-----------------------------------------------------------------------------
(***************************************************************************)
(* One import at a time has its session.                                   *)
(***************************************************************************)

\* The files an import has left are files of one JSON file.
LEMMA LeftListed ==
  ASSUME NEW u \in Imports, NEW s \in Seq(Docs), LeftOf(s, u)
  PROVE  Listed(s) \subseteq Listed(u)
<1>1. u \in Seq(Docs) /\ Len(u) \in Nat /\ Len(s) \in Nat
  BY UploadsAssumption
<1>2. \A i \in DOMAIN s : s[i] = u[Len(u) - Len(s) + i] /\ Len(u) - Len(s) + i \in DOMAIN u
  BY <1>1 DEF LeftOf
<1> QED
  BY <1>2 DEF Listed

\* An import gets its session only when no other has it and nothing is stored.
LEMMA AcceptedAlone ==
  ASSUME RequestInv, RowsInv, ImportInv, ~severed, NEW t \in Tabs, InsertSession(t), Accepts(t)
  PROVE  Rows = {} /\ (\A b \in Tabs : ~Filling(b)) /\ session' = "live"
<1>1. pc[t] = "session" /\ session' = "live" /\ kind[t] \in {"json", "legacy"}
  BY DEF InsertSession, RequestInv
<1>2. session # "live"
  BY DEF Accepts
<1>3. Rows = {}
  BY <1>2 DEF RowsInv
<1>4. ASSUME NEW b \in Tabs, Filling(b)
      PROVE  FALSE
  <2>1. kind[b] \in {"json", "legacy"}
    BY <1>4 DEF Filling, RequestInv
  <2>2. CASE kind[t] = "json"
    BY <1>4, <2>2 DEF Accepts, ImportInv
  <2>3. CASE kind[t] = "legacy"
    <3>1. kind[b] # "legacy"
      BY <1>2, <1>4 DEF ImportInv
    <3>2. kind[b] # "json"
      BY <2>3 DEF ImportInv
    <3> QED
      BY <2>1, <3>1, <3>2
  <2> QED
    BY <1>1, <2>2, <2>3
<1> QED
  BY <1>1, <1>3, <1>4

\* Otherwise no further import gets involved.
LEMMA InvolvedStep ==
  ASSUME RequestInv, RowsInv, ApartInv, ProgressInv, NEW t \in Tabs, Step(t),
         ~(InsertSession(t) /\ Accepts(t))
  PROVE  /\ \A b \in Tabs : Filling(b)' => Filling(b)
         /\ \A u \in Imports : Involved(u)' => Involved(u)
<1>0. \A b \in Tabs \ {t} : Coming(b)' = Coming(b) /\ Filling(b)' = Filling(b)
  BY RequestStep, OthersComing
<1>L. \A u : Listed(u)' = Listed(u)
  BY DEF Listed
<1>1. ASSUME Filling(t)' => Filling(t) /\ Coming(t)' \subseteq Coming(t),
             \A u \in Imports : Listed(u) \cap Rows' # {} => Involved(u)
      PROVE  /\ \A b \in Tabs : Filling(b)' => Filling(b)
             /\ \A u \in Imports : Involved(u)' => Involved(u)
  <2> HIDE DEF Filling, Coming, Listed, Rows
  <2>1. ASSUME NEW u \in Imports, Involved(u)'
        PROVE  Involved(u)
    <3>1. \/ Listed(u) \cap Rows' # {}
          \/ \E b \in Tabs : Filling(b)' /\ Listed(u) \cap Coming(b)' # {}
      BY <1>L, <2>1 DEF Involved
    <3>2. ASSUME NEW b \in Tabs, Filling(b)', Listed(u) \cap Coming(b)' # {}
          PROVE  Filling(b) /\ Listed(u) \cap Coming(b) # {}
      BY <1>0, <1>1, <3>2
    <3> QED
      BY <1>1, <3>1, <3>2 DEF Involved
  <2> QED
    BY <1>0, <1>1, <2>1
<1>2. ASSUME NEW u, Starts(t, u)
      PROVE  ~Filling(t)' /\ Rows' = Rows
  BY <1>2, StartEffect DEF Filling, Rows
<1>3. ASSUME Moves(t)
      PROVE  (Filling(t)' => Filling(t) /\ Coming(t)' \subseteq Coming(t)) /\ Rows' = Rows
  BY <1>3, MoveEffect
<1>4. CASE Inserts(t)
  <2> DEFINE d == Head(files[t])
  <2>1. /\ pc[t] = "insert" /\ pc'[t] = "refresh"
        /\ Rows' = Rows \cup {d}
        /\ UNCHANGED <<files, kind>>
    BY <1>4, InsertEffect
  <2>2. files[t] \in Seq(Docs) /\ files[t] # <<>>
    BY <2>1 DEF RequestInv
  <2>3. Listed(files[t]) = {d} \cup Listed(Tail(files[t]))
    BY <2>2, ListedTail DEF ApartInv
  <2>4. Coming(t) = Listed(files[t]) /\ Coming(t)' = Listed(Tail(files[t]))
    BY <2>1 DEF Coming, Listed
  <2>5. Filling(t)' = Filling(t) /\ (Filling(t) <=> kind[t] # "text")
    BY <2>1 DEF Filling
  <2>6. ASSUME NEW u \in Imports, Listed(u) \cap Rows' # {}
        PROVE  Involved(u)
    <3>1. CASE d \in Listed(u)
      <4>1. d \in Imported
        BY <3>1 DEF Imported, Listed
      <4>2. kind[t] # "text"
        BY <2>3, <4>1 DEF ProgressInv
      <4> QED
        BY <2>3, <2>4, <2>5, <3>1, <4>2 DEF Involved
    <3>2. CASE d \notin Listed(u)
      BY <2>1, <2>6, <3>2 DEF Involved
    <3> QED
      BY <3>1, <3>2
  <2> QED
    BY <1>1, <2>3, <2>4, <2>5, <2>6
<1>5. CASE DeleteRow(t)
  <2>1. Rows' \subseteq Rows /\ pc'[t] = "reindex"
    BY <1>5, DeleteEffect
  <2>2. ~Filling(t)'
    BY <2>1, RequestStep DEF RequestInv, Filling
  <2> QED
    BY <1>1, <2>1, <2>2 DEF Involved
<1>6. CASE DeleteSession(t)
  <2>1. Rows' = {} /\ UNCHANGED <<pc, kind, files>>
    BY <1>6, DeleteSessionEffect
  <2>2. Filling(t)' = Filling(t) /\ Coming(t)' = Coming(t)
    BY <2>1 DEF Filling, Coming, Listed
  <2> QED
    BY <1>1, <2>1, <2>2
<1>7. ASSUME Filling(t)' => Filling(t) /\ Coming(t)' \subseteq Coming(t), Rows' = Rows
      PROVE  /\ \A b \in Tabs : Filling(b)' => Filling(b)
             /\ \A u \in Imports : Involved(u)' => Involved(u)
  BY <1>1, <1>7 DEF Involved
<1> QED
  BY <1>2, <1>3, <1>4, <1>5, <1>6, <1>7, StepKinds

\* How the session and the file an older version left may change.
LEMMA SessionStep ==
  ASSUME RequestInv, RowsInv, ApartInv, NEW t \in Tabs, Step(t)
  PROVE  /\ session' = "absent" => session = "absent"
         /\ severed => severed'
         /\ session = "live" /\ session' # "live" =>
              \A b \in Tabs : kind[b] = "legacy" => severed'
         /\ legacy' = legacy \/ (legacy' = "removed" /\ Unlink(t))
<1>1. ASSUME NEW u, Starts(t, u)
      PROVE  /\ session' = session \/ session' = "live"
             /\ severed' = severed /\ legacy' = legacy
  BY <1>1, StartEffect
<1>2. ASSUME Moves(t)
      PROVE  /\ session' = session \/ session' = "live"
             /\ severed' = severed
             /\ legacy' = legacy \/ (legacy' = "removed" /\ Unlink(t))
  BY <1>2, MoveEffect DEF InsertSession, Unlink
<1>3. ASSUME Inserts(t) \/ DeleteRow(t)
      PROVE  session' = session /\ severed' = severed /\ legacy' = legacy
  BY <1>3, InsertEffect, DeleteEffect
<1>4. ASSUME DeleteSession(t)
      PROVE  /\ session' = "gone" /\ legacy' = legacy
             /\ severed => severed'
             /\ \A b \in Tabs : kind[b] = "legacy" => severed'
  <2>1. session' = "gone" /\ legacy' = legacy
    BY <1>4, DeleteSessionEffect
  <2>2. severed' = (severed \/ \E b \in Tabs : kind[b] = "legacy")
    BY <1>4, DeleteSessionEffect
  <2>3. severed => severed'
    BY <2>2, Zenon
  <2>4. (\E b \in Tabs : kind[b] = "legacy") => severed'
    BY <2>2, Zenon
  <2> QED
    BY <2>1, <2>3, <2>4
<1> QED
  BY <1>1, <1>2, <1>3, <1>4, StepKinds

LEMMA ImportStep ==
  ASSUME RequestInv, RowsInv, ApartInv, ProgressInv, ImportInv, NEW t \in Tabs, Step(t)
  PROVE  ImportInv'
<1>0. RequestInv' /\ OthersStay(t)
  BY RequestStep
<1>K. kind \in [Tabs -> {"text", "json", "legacy"}] /\ files \in [Tabs -> Seq(Docs)]
  BY DEF RequestInv
<1>1. \/ kind'[t] \in {kind[t], "text"} /\ (legacy' = legacy \/ (legacy' = "removed" /\ Unlink(t)))
      \/ kind'[t] = "legacy" /\ legacy = "kept" /\ legacy' = legacy
      \/ kind'[t] = "json" /\ legacy = "none" /\ legacy' = legacy
  <2>1. ASSUME NEW u, Starts(t, u)
        PROVE  \/ kind'[t] = "text" /\ legacy' = legacy
               \/ kind'[t] = "legacy" /\ legacy = "kept" /\ legacy' = legacy
               \/ kind'[t] = "json" /\ legacy = "none" /\ legacy' = legacy
    BY <2>1, StartEffect
  <2>2. ASSUME Moves(t)
        PROVE  kind'[t] \in {kind[t], "text"}
    BY <2>2, MoveEffect DEF FilesMove
  <2>3. ASSUME Inserts(t) \/ DeleteRow(t) \/ DeleteSession(t)
        PROVE  kind' = kind
    BY <2>3, InsertEffect, DeleteEffect, DeleteSessionEffect
  <2> QED
    BY <2>1, <2>2, <2>3, StepKinds, SessionStep
<1>2. Unlink(t) => kind[t] = "legacy" /\ legacy # "none"
  BY DEF Unlink, RequestInv, ImportInv
<1>3. \A b \in Tabs : kind'[b] = "legacy" => legacy' # "none"
  BY <1>0, <1>1, <1>2 DEF OthersStay, ImportInv
<1>4. \A b \in Tabs : kind'[b] = "json" => legacy' = "none"
  BY <1>0, <1>1, <1>2 DEF OthersStay, ImportInv
<1>5. ASSUME ~severed', InsertSession(t), Accepts(t)
      PROVE  /\ \A b \in Tabs : Filling(b)' => session' = "live"
             /\ \A b, c \in Tabs : Filling(b)' /\ Filling(c)' => b = c
             /\ \A u, v \in Imports : Involved(u)' /\ Involved(v)' => u = v
  <2>1. ~severed
    BY <1>5, SessionStep
  <2>2. Rows = {} /\ (\A b \in Tabs : ~Filling(b)) /\ session' = "live"
    BY <1>5, <2>1, AcceptedAlone
  <2>3. \A b \in Tabs : Filling(b)' => b = t
    BY <1>0, <2>2, OthersComing
  <2>4. Rows' = {} /\ Coming(t)' = Listed(files[t])
    <3>1. index' = index /\ files' = files /\ pc'[t] = "settings"
      BY <1>5 DEF InsertSession, Goto, RequestInv
    <3> QED
      BY <2>2, <3>1 DEF Coming, Listed, Rows
  <2>5. kind[t] # "text"
    BY <1>5 DEF InsertSession, RequestInv
  <2>6. PICK w \in Imports : LeftOf(files[t], w)
    BY <2>5 DEF ProgressInv
  <2>7. Listed(files[t]) \subseteq Listed(w)
    BY <1>K, <2>6, LeftListed
  <2>8. \A u : Listed(u)' = Listed(u)
    BY DEF Listed
  <2> HIDE DEF Filling, Coming, Listed, Rows
  <2>9. ASSUME NEW u \in Imports, Involved(u)'
        PROVE  u = w
    <3>1. Listed(u) \cap Listed(w) # {}
      BY <2>3, <2>4, <2>7, <2>8, <2>9 DEF Involved
    <3> QED
      BY <3>1, FilesApart
  <2> QED
    BY <2>2, <2>3, <2>9
<1>6. ASSUME ~severed', ~(InsertSession(t) /\ Accepts(t))
      PROVE  /\ \A b \in Tabs : Filling(b)' => session' # "absent"
             /\ \A b \in Tabs : Filling(b)' /\ kind'[b] = "legacy" => session' = "live"
             /\ \A b, c \in Tabs : Filling(b)' /\ Filling(c)' => b = c
             /\ \A u, v \in Imports : Involved(u)' /\ Involved(v)' => u = v
  <2>1. ~severed
    BY <1>6, SessionStep
  <2>2. /\ \A b \in Tabs : Filling(b)' => Filling(b)
        /\ \A u \in Imports : Involved(u)' => Involved(u)
    BY <1>6, InvolvedStep
  <2>3. \A b \in Tabs : Filling(b)' => session' # "absent"
    BY <2>1, <2>2, SessionStep DEF ImportInv
  <2>4. ASSUME NEW b \in Tabs, Filling(b)', kind'[b] = "legacy"
        PROVE  session' = "live"
    <3>1. Filling(b)
      BY <2>2, <2>4
    <3>2. kind[b] = "legacy"
      <4>1. CASE b = t
        <5>1. pc[t] # "idle"
          BY <3>1, <4>1 DEF Filling, RequestInv
        <5>2. \A u : ~Starts(t, u)
          BY <5>1, StartEffect
        <5>3. kind'[t] \in {kind[t], "text"}
          <6>1. CASE Moves(t)
            BY <6>1, MoveEffect DEF FilesMove
          <6>2. CASE Inserts(t) \/ DeleteRow(t) \/ DeleteSession(t)
            BY <6>2, InsertEffect, DeleteEffect, DeleteSessionEffect
          <6> QED
            BY <5>2, <6>1, <6>2, StepKinds
        <5> QED
          BY <2>4, <4>1, <5>3
      <4>2. CASE b # t
        BY <1>0, <2>4, <4>2 DEF OthersStay
      <4> QED
        BY <4>1, <4>2
    <3>3. session = "live"
      BY <2>1, <3>1, <3>2 DEF ImportInv
    <3>4. session' # "live" => severed'
      BY <3>2, <3>3, SessionStep
    <3> QED
      BY <1>6, <3>4
  <2>5. /\ \A b, c \in Tabs : Filling(b)' /\ Filling(c)' => b = c
        /\ \A u, v \in Imports : Involved(u)' /\ Involved(v)' => u = v
    BY <2>1, <2>2 DEF ImportInv
  <2> QED
    BY <2>3, <2>4, <2>5
<1>7. ASSUME ~severed'
      PROVE  /\ \A b \in Tabs : Filling(b)' => session' # "absent"
             /\ \A b \in Tabs : Filling(b)' /\ kind'[b] = "legacy" => session' = "live"
             /\ \A b, c \in Tabs : Filling(b)' /\ Filling(c)' => b = c
             /\ \A u, v \in Imports : Involved(u)' /\ Involved(v)' => u = v
  BY <1>5, <1>6, <1>7
<1> HIDE DEF Filling, Involved
<1> QED
  BY <1>3, <1>4, <1>7 DEF ImportInv

\* The file is removed when all of the import is accounted for.
LEMMA LegacyStep ==
  ASSUME RequestInv, RowsInv, ApartInv, ProgressInv, ImportInv, LegacyImportedOnce,
         NEW t \in Tabs, Step(t)
  PROVE  LegacyImportedOnce'
<1> DEFINE places == UNION {DOMAIN u : u \in Imports}
<1>1. ASSUME NEW u \in Imports, NEW i \in DOMAIN u, Accounted(u[i])
      PROVE  Accounted(u[i])'
  <2>1. u[i] \in Imported
    BY <1>1 DEF Imported
  <2> QED
    BY <1>1, <2>1, AccountedStep
<1>2. ASSUME legacy = "removed" \/ legacy' = legacy, legacy' = "removed", NEW i \in places
      PROVE  \E u \in Imports : Accounted(u[i])'
  <2>1. PICK u \in Imports : Accounted(u[i])
    BY <1>2 DEF LegacyImportedOnce, Accounted
  <2>2. i \in DOMAIN u
    BY <1>2, ImportsAssumption
  <2> QED
    BY <1>1, <2>1, <2>2
<1>3. ASSUME Unlink(t), NEW i \in places
      PROVE  \E u \in Imports : Accounted(u[i])'
  <2>1. kind[t] # "text" /\ files[t] = <<>>
    BY <1>3 DEF Unlink, RequestInv
  <2>2. PICK u \in Imports : LeftOf(files[t], u)
    BY <2>1 DEF ProgressInv
  <2>3. i \in DOMAIN u /\ u \in Seq(Docs)
    BY <1>3, ImportsAssumption, UploadsAssumption
  <2>4. i \in 1 .. Len(u) - Len(files[t])
    BY <2>1, <2>3
  <2> QED
    BY <1>1, <2>2, <2>3, <2>4 DEF LeftOf
<1>4. ASSUME legacy' = "removed", NEW i \in places
      PROVE  \E u \in Imports : Accounted(u[i])'
  BY <1>2, <1>3, <1>4, SessionStep
<1>5. ASSUME ~severed', NEW u \in Imports, NEW v \in Imports, NEW i \in DOMAIN u, u # v,
             {u[i], v[i]} \subseteq Rows'
      PROVE  FALSE
  <2>1. i \in DOMAIN v
    BY ImportsAssumption
  <2>2. u[i] \in Listed(u) /\ v[i] \in Listed(v)
    BY <2>1 DEF Listed
  <2>3. Listed(u) \cap Rows' # {} /\ Listed(v) \cap Rows' # {}
    BY <1>5, <2>2
  <2>4. Listed(u)' = Listed(u) /\ Listed(v)' = Listed(v)
    BY DEF Listed
  <2>5. Involved(u)' /\ Involved(v)'
    BY <2>3, <2>4 DEF Involved
  <2> QED
    BY <1>5, <2>5, ImportStep DEF ImportInv
<1> QED
  BY <1>4, <1>5 DEF LegacyImportedOnce, Accounted

-----------------------------------------------------------------------------
(***************************************************************************)
(* The theorems.                                                           *)
(***************************************************************************)

LEMMA TypeStep ==
  ASSUME TypeOK, RequestInv, RowsInv, PlanInv, ApartInv, NEW t \in Tabs, Step(t)
  PROVE  TypeOK'
<1>1. RequestInv' /\ RowsInv'
  BY RequestStep, RowsStep
<1>2. session' \in {"absent", "live", "gone"}
  <2>1. ASSUME NEW u, Starts(t, u)
        PROVE  session' = session \/ session' = "live"
    BY <2>1, StartEffect
  <2>2. ASSUME Moves(t)
        PROVE  session' = session \/ session' = "live"
    BY <2>2, MoveEffect DEF InsertSession
  <2>3. ASSUME Inserts(t) \/ DeleteRow(t) \/ DeleteSession(t)
        PROVE  session' = session \/ session' = "gone"
    BY <2>3, InsertEffect, DeleteEffect, DeleteSessionEffect
  <2> QED
    BY <2>1, <2>2, <2>3, StepKinds DEF TypeOK
<1>3. annotated' \subseteq Docs
  <2>1. CASE InsertToponyms(t)
    <3>1. pc[t] = "toponyms"
      BY <2>1 DEF InsertToponyms
    <3>2. Head(files[t]) \in Docs
      BY <3>1, HeadTailProperties DEF RequestInv
    <3> QED
      BY <2>1, <3>2 DEF InsertToponyms, TypeOK
  <2>2. ASSUME NEW u, Starts(t, u)
        PROVE  annotated' = annotated
    BY <2>2, StartEffect
  <2>3. ASSUME Inserts(t) \/ DeleteRow(t) \/ DeleteSession(t)
        PROVE  annotated' \subseteq annotated
    BY <2>3, InsertEffect, DeleteEffect, DeleteSessionEffect
  <2>4. CASE ReadHighest(t) \/ InsertDocument(t) \/ RefreshDocument(t) \/ InsertSession(t)
    BY <2>4 DEF ReadHighest, InsertDocument, RefreshDocument, InsertSession, legacyVars, TypeOK
  <2>5. CASE InsertSettings(t) \/ RefreshSession(t) \/ Unlink(t) \/ LoadPage(t)
    BY <2>5 DEF InsertSettings, RefreshSession, Unlink, LoadPage, legacyVars, TypeOK
  <2>6. CASE RemoveDocument(t) \/ ReadIndices(t) \/ Renumber(t) \/ Fail(t)
    BY <2>6 DEF RemoveDocument, ReadIndices, Renumber, Fail, legacyVars, TypeOK
  <2> QED
    BY <2>1, <2>2, <2>3, <2>4, <2>5, <2>6 DEF Step, Starts, TypeOK
<1>4. legacy' \in {"none", "kept", "removed"}
  BY SessionStep DEF TypeOK
<1>5. unsent' \subseteq Uploads \cup Imports
  <2>1. unsent' \subseteq unsent
    <3>1. ASSUME NEW u, Starts(t, u)
          PROVE  unsent' = unsent \ {u}
      BY <3>1, StartEffect
    <3>2. ASSUME Moves(t) \/ Inserts(t) \/ DeleteRow(t) \/ DeleteSession(t)
          PROVE  unsent' = unsent
      BY <3>2, MoveEffect, InsertEffect, DeleteEffect, DeleteSessionEffect
    <3> QED
      BY <3>1, <3>2, StepKinds
  <2> QED
    BY <2>1 DEF TypeOK
<1>6. \A b \in Tabs : seen'[b] = None \/ seen'[b] \in [document : Docs, index : Nat]
  <2>0. DOMAIN seen = Tabs
    BY DEF RequestInv
  <2>1. CASE LoadPage(t)
    <3>1. PICK d \in Rows : seen' = [seen EXCEPT ![t] = [document |-> d, index |-> index[d]]]
      BY <2>1 DEF LoadPage
    <3>2. d \in Docs /\ index[d] \in Nat
      BY DEF RowsInv
    <3> QED
      BY <2>0, <3>1, <3>2 DEF TypeOK
  <2>2. ASSUME \/ \E u \in Uploads : CreateSession(t, u) \/ AddDocuments(t, u)
               \/ \E u \in Imports : StartImport(t, u)
        PROVE  seen' = seen \/ seen' = [seen EXCEPT ![t] = None]
    BY <2>2 DEF CreateSession, AddDocuments, StartImport
  <2>3. ASSUME \/ ReadHighest(t) \/ InsertDocument(t) \/ RefreshDocument(t) \/ InsertSession(t)
               \/ InsertSettings(t) \/ InsertToponyms(t) \/ RefreshSession(t) \/ Unlink(t)
        PROVE  seen' = seen
    BY <2>3 DEF ReadHighest, InsertDocument, RefreshDocument, InsertSession, InsertSettings,
                InsertToponyms, RefreshSession, Unlink
  <2>4. ASSUME \/ RemoveDocument(t) \/ DeleteRow(t) \/ ReadIndices(t) \/ Renumber(t)
               \/ DeleteSession(t) \/ Fail(t)
        PROVE  seen' = seen \/ seen' = [seen EXCEPT ![t] = None]
    BY <2>4 DEF RemoveDocument, DeleteRow, ReadIndices, Renumber, DeleteSession, Fail
  <2>5. CASE seen' = seen \/ seen' = [seen EXCEPT ![t] = None]
    BY <2>0, <2>5 DEF TypeOK
  <2> QED
    BY <2>1, <2>2, <2>3, <2>4, <2>5 DEF Step
<1>7. overtaken' \subseteq Tabs
  <2>1. CASE Overtakes(t)
    BY <2>1 DEF Overtakes, TypeOK
  <2>2. CASE overtaken' = overtaken \ {t} \/ overtaken' = overtaken
    BY <2>2 DEF TypeOK
  <2>3. ASSUME \/ \E u \in Uploads : CreateSession(t, u) \/ AddDocuments(t, u)
               \/ \E u \in Imports : StartImport(t, u)
        PROVE  overtaken' = overtaken
    BY <2>3 DEF CreateSession, AddDocuments, StartImport, historyVars
  <2>4. ASSUME \/ ReadHighest(t) \/ RefreshDocument(t) \/ InsertSession(t) \/ InsertSettings(t)
               \/ InsertToponyms(t) \/ RefreshSession(t) \/ Unlink(t)
        PROVE  overtaken' = overtaken
    BY <2>4 DEF ReadHighest, RefreshDocument, InsertSession, InsertSettings, InsertToponyms,
                RefreshSession, Unlink, historyVars
  <2>5. ASSUME LoadPage(t) \/ RemoveDocument(t) \/ ReadIndices(t)
        PROVE  overtaken' = overtaken
    BY <2>5 DEF LoadPage, RemoveDocument, ReadIndices, historyVars
  <2>6. ASSUME DeleteRow(t) \/ DeleteSession(t) \/ InsertDocument(t) \/ Renumber(t) \/ Fail(t)
        PROVE  Overtakes(t) \/ overtaken' = overtaken \ {t} \/ overtaken' = overtaken
    BY <2>6 DEF DeleteRow, DeleteSession, InsertDocument, Renumber, Fail
  <2> QED
    BY <2>1, <2>2, <2>3, <2>4, <2>5, <2>6 DEF Step
<1>8. severed' \in BOOLEAN
  <2>0. severed \in BOOLEAN
    BY DEF TypeOK
  <2>1. ASSUME NEW u, Starts(t, u)
        PROVE  severed' = severed
    BY <2>1, StartEffect
  <2>2. ASSUME Moves(t) \/ Inserts(t) \/ DeleteRow(t)
        PROVE  severed' = severed
    BY <2>2, MoveEffect, InsertEffect, DeleteEffect
  <2>3. ASSUME DeleteSession(t)
        PROVE  severed' \in BOOLEAN
    <3>1. severed' = (severed \/ \E b \in Tabs : kind[b] = "legacy")
      BY <2>3, DeleteSessionEffect
    <3> QED
      BY <3>1, Zenon
  <2>4. CASE severed' = severed
    BY <2>0, <2>4
  <2> QED
    BY <2>1, <2>2, <2>3, <2>4, StepKinds
<1> QED
  BY <1>1, <1>2, <1>3, <1>4, <1>5, <1>6, <1>7, <1>8 DEF TypeOK, RequestInv, RowsInv, Steps

\* Without a session there is nothing to be out of order.
LEMMA DocumentsInit ==
  ASSUME Init
  PROVE  DocumentsInv
<1>1. Rows = {} /\ \A t \in Tabs : pc[t] = "idle" /\ kind[t] = "text" /\ files[t] = <<>>
  BY DEF Init, Rows
<1>2. unsent \subseteq Uploads \cup Imports
  BY ScenesAssumption DEF Init
<1>3. TypeOK
  BY <1>1, <1>2 DEF Init, TypeOK
<1>4. RequestInv
  BY DEF Init, RequestInv, Steps
<1>5. RowsInv
  <2>1. index \in [Rows -> Nat]
    BY DEF Init, Rows
  <2> QED
    BY <1>1, <2>1, FS_EmptySet DEF Init, RowsInv
<1>6. PlanInv /\ ReadingInv
  BY <1>1 DEF Init, PlanInv, ReadingInv
<1>7. OrderlyIndices
  <2>1. Cardinality(Rows) = 0
    BY <1>1, FS_EmptySet
  <2>2. 0 .. 0 - 1 = {}
    OBVIOUS
  <2> QED
    BY <1>1, <2>1, <2>2 DEF OrderlyIndices, Dense
<1>8. \A t \in Tabs : Coming(t) = {} /\ Listed(files[t]) = {} /\ ~Filling(t)
  BY <1>1 DEF Coming, Listed, Filling
<1>9. ApartInv
  BY <1>1, <1>8 DEF ApartInv
<1>10. ProgressInv
  BY <1>1, <1>8 DEF ProgressInv
<1>11. ImportInv
  BY <1>1, <1>8 DEF ImportInv, Involved
<1>12. LegacyImportedOnce
  BY <1>1 DEF Init, LegacyImportedOnce
<1> QED
  BY <1>3, <1>4, <1>5, <1>6, <1>7, <1>9, <1>10, <1>11, <1>12 DEF DocumentsInv

LEMMA DocumentsStutter ==
  ASSUME DocumentsInv, UNCHANGED vars
  PROVE  DocumentsInv'
<1>1. UNCHANGED <<session, index, unsent, seen, pc, kind, files, highest, target, plan>>
  BY DEF vars, requestVars
<1>2. UNCHANGED <<annotated, legacy, dropped, severed, overtaken, disorder, raced>>
  BY DEF vars, historyVars, legacyVars
<1>3. TypeOK'
  BY <1>1, <1>2 DEF DocumentsInv, TypeOK, Rows
<1>4. RequestInv' /\ RowsInv' /\ PlanInv'
  BY <1>1, <1>2 DEF DocumentsInv, RequestInv, RowsInv, PlanInv, Rows
<1>5. ReadingInv'
  BY <1>1, <1>2, ReadingsOfIndex DEF DocumentsInv, ReadingInv
<1>6. OrderlyIndices'
  BY <1>1, <1>2 DEF DocumentsInv, OrderlyIndices, Renumbering, Dense, Rows
<1>7. \A t \in Tabs : Coming(t)' = Coming(t) /\ Filling(t)' = Filling(t)
  BY <1>1 DEF Coming, Filling, Listed
<1>8. \A u : Listed(u)' = Listed(u)
  BY DEF Listed
<1>9. Rows' = Rows
  BY <1>1 DEF Rows
<1>10. ApartInv'
  BY <1>1, <1>7, <1>8, <1>9 DEF DocumentsInv, ApartInv
<1>11. \A d : Accounted(d)' = Accounted(d)
  BY <1>1, <1>2 DEF Accounted, Whole, Rows
<1>12. ProgressInv'
  BY <1>1, <1>2 DEF DocumentsInv, ProgressInv, LeftOf, Accounted, Whole, Rows, Listed, Imported
<1>13. \A u : Involved(u)' = Involved(u)
  BY <1>7, <1>8, <1>9 DEF Involved
<1>14. ImportInv'
  BY <1>1, <1>2, <1>7, <1>13 DEF DocumentsInv, ImportInv
<1>15. LegacyImportedOnce'
  BY <1>1, <1>2 DEF DocumentsInv, LegacyImportedOnce, Whole, Rows
<1> QED
  BY <1>3, <1>4, <1>5, <1>6, <1>10, <1>12, <1>14, <1>15 DEF DocumentsInv

LEMMA DocumentsStep ==
  ASSUME DocumentsInv, [Next]_vars
  PROVE  DocumentsInv'
<1>1. CASE UNCHANGED vars
  BY <1>1, DocumentsStutter
<1>2. CASE Next
  <2>1. PICK t \in Tabs : Step(t)
    BY <1>2 DEF Next, Step
  <2>2. TypeOK' /\ RequestInv' /\ RowsInv' /\ PlanInv' /\ ApartInv'
    BY <2>1, TypeStep, RequestStep, RowsStep, PlanStep, ApartStep DEF DocumentsInv
  <2>3. ReadingInv' /\ OrderlyIndices'
    BY <2>1, ReadingStep, OrderlyStep DEF DocumentsInv
  <2>4. ProgressInv' /\ ImportInv' /\ LegacyImportedOnce'
    BY <2>1, ProgressStep, ImportStep, LegacyStep DEF DocumentsInv
  <2> QED
    BY <2>2, <2>3, <2>4 DEF DocumentsInv
<1> QED
  BY <1>1, <1>2

\* The state of the documents, of the requests and of the imports has its shape.
THEOREM TypeCorrect == Spec => []TypeOK
<1>1. Init => DocumentsInv
  BY DocumentsInit
<1>2. DocumentsInv /\ [Next]_vars => DocumentsInv'
  BY DocumentsStep
<1>3. DocumentsInv => TypeOK
  BY DEF DocumentsInv
<1> QED
  BY <1>1, <1>2, <1>3, PTL DEF Spec

\* The stored indices are the positions whenever no removal is under way, unless a
\* request was overtaken or cut off before the renumbering (_reindex_documents).
THEOREM AlwaysOrderly == Spec => []OrderlyIndices
<1>1. Init => DocumentsInv
  BY DocumentsInit
<1>2. DocumentsInv /\ [Next]_vars => DocumentsInv'
  BY DocumentsStep
<1>3. DocumentsInv => OrderlyIndices
  BY DEF DocumentsInv
<1> QED
  BY <1>1, <1>2, <1>3, PTL DEF Spec

\* A session that an older version left comes in once and whole, however often its
\* import is cut off, repeated or run by several tabs at a time.
THEOREM LegacyAlwaysImportedOnce == Spec => []LegacyImportedOnce
<1>1. Init => DocumentsInv
  BY DocumentsInit
<1>2. DocumentsInv /\ [Next]_vars => DocumentsInv'
  BY DocumentsStep
<1>3. DocumentsInv => LegacyImportedOnce
  BY DEF DocumentsInv
<1> QED
  BY <1>1, <1>2, <1>3, PTL DEF Spec

\* While no request has written what it had read too early, the indices keep the
\* documents in the order of their uploads, whatever has failed.
THEOREM OrderAlwaysKept == Spec => OrderKept
<1> DEFINE Kept ==
      ~raced' =>
        /\ \A d, e \in Rows \cap Rows' : index[d] < index[e] => index'[d] < index'[e]
        /\ \A d \in Rows \cap Rows', e \in Rows' \ Rows : index'[d] < index'[e]
<1>1. ASSUME DocumentsInv, NEW t \in Tabs, Step(t)
      PROVE  Kept
  <2>0. TypeOK /\ RequestInv /\ RowsInv /\ ApartInv /\ ReadingInv
    BY <1>1 DEF DocumentsInv
  <2>1. CASE Inserts(t)
    <3>1. /\ pc[t] = "insert"
          /\ Head(files[t]) \notin Rows
          /\ Rows' = Rows \cup {Head(files[t])}
          /\ index' = [e \in Rows' |-> IF e = Head(files[t]) THEN highest[t] + 1 ELSE index[e]]
      BY <1>1, <2>0, <2>1, InsertEffect
    <3>2. ~raced' => t \notin overtaken
      BY <2>1 DEF Inserts, InsertDocument
    <3>3. ~raced' => highest[t] = Highest
      BY <2>0, <3>1, <3>2 DEF ReadingInv
    <3>4. Highest \in Nat \cup {-1} /\ \A d \in Rows : index[d] \in Nat /\ index[d] <= Highest
      BY <2>0, HighestIndex DEF RowsInv
    <3> QED
      BY <3>1, <3>3, <3>4
  <2>2. CASE DeleteRow(t)
    <3>1. Rows' \subseteq Rows /\ \A d \in Rows' : index'[d] = index[d]
      BY <1>1, <2>0, <2>2, DeleteEffect
    <3> QED
      BY <3>1
  <2>3. CASE Renumbers(t)
    <3>1. pc[t] = "renumber" /\ Rows' = Rows
      BY <1>1, <2>0, <2>3, RenumberEffect
    <3>2. ~raced' => t \notin overtaken
      BY <2>3 DEF Renumbers, Renumber
    <3>3. ASSUME ~raced'
          PROVE  \A d, e \in Rows : index[d] < index[e] => index'[d] < index'[e]
      <4>1. PICK rank \in Orders : plan[t] = Changes(rank)
        BY <2>0, <3>1, <3>2, <3>3 DEF ReadingInv
      <4>2. \A d \in Rows : index'[d] = rank[d]
        BY <2>0, <2>3, <4>1, RanksWritten
      <4> QED
        BY <2>0, <4>2, RankFacts
    <3> QED
      BY <3>1, <3>3
  <2>4. CASE DeleteSession(t)
    <3>1. Rows' = {}
      BY <1>1, <2>0, <2>4, DeleteSessionEffect
    <3> QED
      BY <3>1
  <2>5. CASE ~Inserts(t) /\ ~DeleteRow(t) /\ ~Renumbers(t) /\ ~DeleteSession(t)
    <3>1. index' = index /\ Rows' = Rows
      BY <1>1, <2>5, IndexUnmoved DEF Rows
    <3> QED
      BY <3>1
  <2> QED
    BY <2>1, <2>2, <2>3, <2>4, <2>5
<1>2. DocumentsInv /\ [Next]_vars => [Kept]_vars
  <2>1. ASSUME DocumentsInv, Next
        PROVE  Kept
    <3>1. PICK t \in Tabs : Step(t)
      BY <2>1 DEF Next, Step
    <3> QED
      BY <1>1, <2>1, <3>1
  <2> QED
    BY <2>1
<1>3. Init => DocumentsInv
  BY DocumentsInit
<1>4. DocumentsInv /\ [Next]_vars => DocumentsInv'
  BY DocumentsStep
<1> QED
  BY <1>2, <1>3, <1>4, PTL DEF Spec, OrderKept
=============================================================================
