------------------------- MODULE PanxBenchmarkProofs -------------------------
(*****************************************************************************)
(* Proofs about PanxBenchmark and PanxScores, for every set of processes,    *)
(* commits, commands, languages, rows and reports.                           *)
(*                                                                           *)
(* A stopped run may leave any file cut short, and two runs may exchange     *)
(* their temporaries; the invariants say what neither can change.            *)
(*****************************************************************************)
EXTENDS PanxBenchmark, Functions, FiniteSetTheorems, FunctionTheorems, NaturalsInduction,
        WellFoundedInduction, TLAPS

-----------------------------------------------------------------------------
(*****************************************************************************)
(* Numbers, recursive functions, and sums, which count the members of        *)
(* disjoint sets.                                                            *)
(*****************************************************************************)

\* A set of numbers has a least one.
LEMMA LeastNumber ==
  ASSUME NEW S \in SUBSET Nat, S # {}
  PROVE  \E n \in S : \A m \in S : n <= m
<1> DEFINE less == {ss \in Nat \X Nat : ss[1] < ss[2]}
<1>1. IsWellFoundedOn(less, Nat)
  BY NatLessThanWellFounded DEF OpToRel
<1> HIDE DEF less
<1>2. PICK n \in S : \A m \in S : <<m, n>> \notin less
  BY <1>1, WFMin
<1>3. ASSUME NEW m \in S
      PROVE  n <= m
  <2>1. n \in Nat /\ m \in Nat
    OBVIOUS
  <2>2. ~(m < n)
    BY <1>2, <2>1 DEF less
  <2> QED
    BY <2>1, <2>2
<1> QED
  BY <1>3

\* Induction over the numbers, on the set of those that are through.
LEMMA Induct ==
  ASSUME NEW S, 0 \in S, \A n \in Nat : n \in S => n + 1 \in S
  PROVE  Nat \subseteq S
<1>1. SUFFICES ASSUME Nat \ S # {}
               PROVE  FALSE
  OBVIOUS
<1>2. Nat \ S \in SUBSET Nat
  OBVIOUS
<1>3. PICK n \in Nat \ S : \A m \in Nat \ S : n <= m
  BY <1>1, <1>2, LeastNumber
<1>4. n # 0 /\ n \in Nat
  OBVIOUS
<1>5. n - 1 \in Nat /\ n = (n - 1) + 1 /\ ~(n <= n - 1)
  BY <1>4
<1>6. n - 1 \in S
  BY <1>3, <1>5
<1> QED
  BY <1>5, <1>6

-----------------------------------------------------------------------------
\* Recursion.

\* The states of a loop that takes n steps.
Follows(g, start, step, n) ==
  g[0] = start /\ \A i \in 1 .. n : g[i] = step[<<g[i - 1], i>>]

\* A function that starts at start and follows step exists.
LEMMA Recursion ==
  ASSUME NEW n \in Nat, NEW V, NEW start \in V, NEW step,
         \A v \in V, i \in 1 .. n : step[<<v, i>>] \in V
  PROVE  \E g : g \in [0 .. n -> V] /\ Follows(g, start, step, n)
<1> USE DEF Follows
<1> DEFINE through == {m \in Nat : m <= n => \E g \in [0 .. m -> V] : Follows(g, start, step, m)}
<1>1. 0 \in through
  <2>1. [i \in 0 .. 0 |-> start] \in [0 .. 0 -> V] /\ Follows([i \in 0 .. 0 |-> start], start, step, 0)
    OBVIOUS
  <2> QED
    BY <2>1
<1>2. ASSUME NEW m \in Nat, m \in through
      PROVE  m + 1 \in through
  <2>1. SUFFICES ASSUME m + 1 <= n
                 PROVE  \E g \in [0 .. m + 1 -> V] : Follows(g, start, step, m + 1)
    OBVIOUS
  <2>2. PICK g \in [0 .. m -> V] : Follows(g, start, step, m)
    BY <1>2, <2>1
  <2> DEFINE h == [i \in 0 .. m + 1 |-> IF i <= m THEN g[i] ELSE step[<<g[m], m + 1>>]]
  <2>3. g[m] \in V /\ m + 1 \in 1 .. n
    BY <2>1
  <2>4. step[<<g[m], m + 1>>] \in V
    BY <2>3
  <2>5. h \in [0 .. m + 1 -> V]
    BY <2>4
  <2>6. h[0] = start
    BY <2>2
  <2>7. ASSUME NEW i \in 1 .. m + 1
        PROVE  h[i] = step[<<h[i - 1], i>>]
    <3>1. i - 1 \in 0 .. m /\ h[i - 1] = g[i - 1]
      OBVIOUS
    <3>2. CASE i <= m
      BY <2>2, <3>1, <3>2
    <3>3. CASE i = m + 1
      <4>1. ~(m + 1 <= m) /\ m <= m /\ m \in 0 .. m + 1
        BY <2>1
      <4>2. h[m] = g[m] /\ h[m + 1] = step[<<g[m], m + 1>>]
        BY <4>1
      <4>3. i - 1 = m
        BY <3>3
      <4> QED
        BY <3>3, <4>2, <4>3
    <3> QED
      BY <3>2, <3>3
  <2> HIDE DEF h
  <2> QED
    BY <2>5, <2>6, <2>7
<1>3. Nat \subseteq through
  <2> HIDE DEF through
  <2> QED BY <1>1, <1>2, Induct
<1>4. n \in through
  <2> HIDE DEF through
  <2> QED BY <1>3
<1>5. n <= n
  OBVIOUS
<1>6. \E g \in [0 .. n -> V] : Follows(g, start, step, n)
  <2> HIDE DEF Follows
  <2> QED BY <1>4, <1>5
<1> QED
  BY <1>6

-----------------------------------------------------------------------------
\* Numbers of elements.

\* Applying a function to the elements of a finite set leaves it finite.
LEMMA ImageFinite ==
  ASSUME NEW S, IsFiniteSet(S), NEW f
  PROVE  IsFiniteSet({f[x] : x \in S})
<1> DEFINE T == {f[x] : x \in S}
<1> DEFINE g == [x \in S |-> f[x]]
<1>1. g \in Surjection(S, T)
  BY DEF Surjection
<1> QED
  BY <1>1, FS_Surjection

\* A mapping that tells elements apart, and leaves none out.
Matches(f, S, T) ==
  /\ f \in [S -> T]
  /\ \A x, y \in S : f[x] = f[y] => x = y
  /\ \A z \in T : \E x \in S : f[x] = z

\* Then the two sets have one number.
LEMMA SameNumber ==
  ASSUME NEW S, IsFiniteSet(S), NEW T, NEW f, Matches(f, S, T)
  PROVE  IsFiniteSet(T) /\ Cardinality(T) = Cardinality(S)
<1>1. f \in Bijection(S, T)
  BY DEF Matches, Bijection, Injection, Surjection, IsInjective
<1> QED
  BY <1>1, FS_Bijection DEF ExistsBijection

\* The elements of the sets of a family, each with its index.
Family(P, D) == UNION {({x} \X P[x]) : x \in D}

\* What is in a family, said without sets of sets.
LEMMA FamilyMember ==
  ASSUME NEW P, NEW D
  PROVE  \A t : t \in Family(P, D) <=> \E x \in D : \E e \in P[x] : t = <<x, e>>
BY DEF Family

\* Finitely many finite sets make a finite family.
LEMMA FamilyFinite ==
  ASSUME NEW D, IsFiniteSet(D), NEW P, \A x \in D : IsFiniteSet(P[x])
  PROVE  IsFiniteSet(Family(P, D))
<1> DEFINE part == [x \in D |-> {x} \X P[x]]
<1> DEFINE parts == {part[x] : x \in D}
<1>1. IsFiniteSet(parts)
  <2> HIDE DEF part
  <2> QED BY ImageFinite
<1>2. ASSUME NEW x \in D
      PROVE  IsFiniteSet(part[x])
  <2>1. IsFiniteSet({x}) /\ IsFiniteSet(P[x])
    BY FS_Singleton
  <2> QED
    BY <2>1, FS_Product
<1>3. \A S \in parts : IsFiniteSet(S)
  BY <1>2
<1>4. Family(P, D) = UNION parts
  BY DEF Family
<1> HIDE DEF parts
<1> QED
  BY <1>1, <1>3, <1>4, FS_UNION

\* The numbers of two families that share no index add up.
LEMMA FamilySplit ==
  ASSUME NEW D, NEW E, IsFiniteSet(D), IsFiniteSet(E), D \cap E = {},
         NEW P, \A x \in D \cup E : IsFiniteSet(P[x])
  PROVE  Cardinality(Family(P, D \cup E)) = Cardinality(Family(P, D)) + Cardinality(Family(P, E))
<1>1. IsFiniteSet(Family(P, D)) /\ IsFiniteSet(Family(P, E))
  BY FamilyFinite
<1>2. Family(P, D \cup E) = (Family(P, D)) \cup Family(P, E)
  BY DEF Family
<1>3. (Family(P, D)) \cap Family(P, E) = {}
  BY FamilyMember
<1>4. Cardinality((Family(P, D)) \cap Family(P, E)) = 0
  BY <1>3, FS_EmptySet
<1>5. Cardinality(Family(P, D)) \in Nat /\ Cardinality(Family(P, E)) \in Nat
  BY <1>1, FS_CardinalityType
<1>6. Cardinality((Family(P, D)) \cup Family(P, E)) =
        Cardinality(Family(P, D)) + Cardinality(Family(P, E))
          - Cardinality((Family(P, D)) \cap Family(P, E))
  BY <1>1, FS_Union
<1>7. \A a, b \in Nat : a + b - 0 = a + b
  OBVIOUS
<1> QED
  BY <1>2, <1>4, <1>5, <1>6, <1>7, Zenon

\* A family of one set has its number.
LEMMA FamilyOne ==
  ASSUME NEW x, NEW P, IsFiniteSet(P[x])
  PROVE  Cardinality(Family(P, {x})) = Cardinality(P[x])
<1>1. \A t : t \in Family(P, {x}) <=> \E e \in P[x] : t = <<x, e>>
  BY FamilyMember
<1> DEFINE f == [e \in P[x] |-> <<x, e>>]
<1>2. f \in [P[x] -> Family(P, {x})]
  BY <1>1
<1>3. \A z \in Family(P, {x}) : \E e \in P[x] : f[e] = z
  BY <1>1
<1>4. \A d, e \in P[x] : f[d] = f[e] => d = e
  OBVIOUS
<1> HIDE DEF f
<1>5. Matches(f, P[x], Family(P, {x}))
  BY <1>2, <1>3, <1>4 DEF Matches
<1> QED
  BY <1>5, SameNumber

\* A sum of numbers counts what they number.
LEMMA SumCounts ==
  ASSUME NEW D, IsFiniteSet(D), NEW f \in [D -> Nat],
         NEW P, \A x \in D : IsFiniteSet(P[x]) /\ Cardinality(P[x]) = f[x]
  PROVE  FoldFunction(+, 0, f) = Cardinality(Family(P, D))
<1> DEFINE Sums(it) == it = [s \in SUBSET DOMAIN f |->
              IF s = {} THEN 0
              ELSE f[CHOOSE x \in s : TRUE] + it[s \ {CHOOSE x \in s : TRUE}]]
<1> DEFINE count == [s \in SUBSET D |-> Cardinality(Family(P, s))]
<1>1. FoldFunction(+, 0, f) = (CHOOSE it : Sums(it))[DOMAIN f]
  BY Zenon DEF FoldFunction, FoldFunctionOnSet, MapThenFoldSet
<1>2. DOMAIN f = D
  OBVIOUS
<1>3. ASSUME NEW s \in SUBSET D, NEW x \in s
      PROVE  s \ {x} \in SUBSET D /\ count[s] = f[x] + count[s \ {x}]
  <2>2. IsFiniteSet(s) /\ IsFiniteSet({x}) /\ IsFiniteSet(s \ {x})
    BY FS_Subset, FS_Singleton
  <2>3. s = {x} \cup (s \ {x}) /\ {x} \cap (s \ {x}) = {}
    OBVIOUS
  <2>4. Cardinality(Family(P, s)) = Cardinality(Family(P, {x})) + Cardinality(Family(P, s \ {x}))
    <3>1. \A y \in {x} \cup (s \ {x}) : IsFiniteSet(P[y])
      OBVIOUS
    <3> QED
      BY <2>2, <2>3, <3>1, FamilySplit
  <2>5. Cardinality(Family(P, {x})) = f[x]
    BY FamilyOne
  <2> QED
    BY <2>4, <2>5
<1>4. \A s \in SUBSET D : count[s] \in Nat
  <2>1. ASSUME NEW s \in SUBSET D
        PROVE  Cardinality(Family(P, s)) \in Nat
    BY FS_Subset, FamilyFinite, FS_CardinalityType
  <2> QED
    BY <2>1
<1>5. count[{}] = 0
  <2>1. Family(P, {}) = {}
    BY DEF Family
  <2> QED
    BY <2>1, FS_EmptySet
<1> HIDE DEF count
<1>6. Sums(count)
  <2>1. ASSUME NEW s \in SUBSET D, s # {}
        PROVE  count[s] = f[CHOOSE x \in s : TRUE] + count[s \ {CHOOSE x \in s : TRUE}]
    <3>1. (CHOOSE x \in s : TRUE) \in s
      BY <2>1
    <3> QED
      BY <1>3, <3>1
  <2>2. count = [s \in SUBSET D |-> count[s]]
    BY DEF count
  <2> QED
    BY <1>2, <1>5, <2>1, <2>2
<1>7. ASSUME NEW it, Sums(it)
      PROVE  it[D] = count[D]
  <2> DEFINE through == {n \in Nat : \A s \in SUBSET D : Cardinality(s) = n => it[s] = count[s]}
  <2>1. 0 \in through
    <3>1. \A s \in SUBSET D : Cardinality(s) = 0 => s = {}
      BY FS_Subset, FS_EmptySet
    <3>2. it[{}] = 0
      BY <1>2, <1>7
    <3> QED
      BY <1>5, <3>1, <3>2
  <2>2. ASSUME NEW n \in Nat, n \in through
        PROVE  n + 1 \in through
    <3>1. SUFFICES ASSUME NEW s \in SUBSET D, Cardinality(s) = n + 1
                   PROVE  it[s] = count[s]
      BY <2>2
    <3> DEFINE x == CHOOSE x \in s : TRUE
    <3>2. s # {}
      BY <3>1, FS_EmptySet
    <3>3. /\ x \in s /\ s \ {x} \in SUBSET D
          /\ count[s] = f[x] + count[s \ {x}]
      <4>1. x \in s
        BY <3>2
      <4> HIDE DEF x
      <4> QED BY <1>3, <4>1
    <3>4. it[s] = f[x] + it[s \ {x}]
      BY <1>2, <1>7, <3>2
    <3> HIDE DEF x
    <3>5. IsFiniteSet(s)
      BY FS_Subset
    <3>6. Cardinality(s \ {x}) = Cardinality(s) - 1
      BY <3>3, <3>5, FS_RemoveElement
    <3>7. Cardinality(s \ {x}) = n
      BY <3>1, <3>6
    <3> QED
      BY <2>2, <3>3, <3>4, <3>7
  <2>3. Nat \subseteq through
    <3> HIDE DEF through
    <3> QED BY <2>1, <2>2, Induct
  <2> QED
    BY <2>3, FS_CardinalityType
<1>8. Sums(CHOOSE it : Sums(it))
  <2> HIDE DEF Sums
  <2> QED BY <1>6, Zenon
<1>9. count[D] = Cardinality(Family(P, D))
  BY DEF count
<1> HIDE DEF Sums
<1> QED
  BY <1>1, <1>2, <1>7, <1>8, <1>9

\* The numbers up to n are n.
LEMMA UpTo ==
  ASSUME NEW n \in Nat
  PROVE  IsFiniteSet(1 .. n) /\ Cardinality(1 .. n) = n
<1>1. IsFiniteSet(1 .. n) /\ Cardinality(1 .. n) = IF 1 > n THEN 0 ELSE n - 1 + 1
  BY FS_Interval
<1> QED
  BY <1>1

\* A sum of numbers is a number.
LEMMA SumType ==
  ASSUME NEW D, IsFiniteSet(D), NEW f \in [D -> Nat]
  PROVE  FoldFunction(+, 0, f) \in Nat
<1> DEFINE P == [x \in D |-> 1 .. f[x]]
<1>1. \A x \in D : IsFiniteSet(P[x]) /\ Cardinality(P[x]) = f[x]
  <2>1. \A x \in D : f[x] \in Nat
    OBVIOUS
  <2> QED
    BY <2>1, UpTo
<1> HIDE DEF P
<1>2. FoldFunction(+, 0, f) = Cardinality(Family(P, D))
  BY <1>1, SumCounts
<1>3. IsFiniteSet(Family(P, D))
  BY <1>1, FamilyFinite
<1> QED
  BY <1>2, <1>3, FS_CardinalityType

\* A sum with one more term.
LEMMA SumOneMore ==
  ASSUME NEW D, IsFiniteSet(D), NEW x, x \notin D, NEW f, \A y \in D \cup {x} : f[y] \in Nat
  PROVE  FoldFunction(+, 0, [y \in D \cup {x} |-> f[y]]) =
           FoldFunction(+, 0, [y \in D |-> f[y]]) + f[x]
<1> DEFINE all == [y \in D \cup {x} |-> f[y]]
<1> DEFINE some == [y \in D |-> f[y]]
<1> DEFINE P == [y \in D \cup {x} |-> 1 .. f[y]]
<1>1. \A y \in D \cup {x} : IsFiniteSet(P[y]) /\ Cardinality(P[y]) = f[y]
  <2>1. \A y \in D \cup {x} : f[y] \in Nat
    OBVIOUS
  <2> QED
    BY <2>1, UpTo
<1>2. IsFiniteSet({x}) /\ IsFiniteSet(D \cup {x}) /\ D \cap {x} = {}
  BY FS_Singleton, FS_Union
<1>3. all \in [D \cup {x} -> Nat] /\ some \in [D -> Nat]
  OBVIOUS
<1>4. \A y \in D \cup {x} : all[y] = f[y]
  OBVIOUS
<1>5. \A y \in D : some[y] = f[y]
  OBVIOUS
<1> HIDE DEF P, all, some
<1>6. FoldFunction(+, 0, all) = Cardinality(Family(P, D \cup {x}))
  <2>1. \A y \in D \cup {x} : IsFiniteSet(P[y]) /\ Cardinality(P[y]) = all[y]
    BY <1>1, <1>4
  <2> QED
    BY <1>2, <1>3, <2>1, SumCounts
<1>7. FoldFunction(+, 0, some) = Cardinality(Family(P, D))
  <2>1. \A y \in D : IsFiniteSet(P[y]) /\ Cardinality(P[y]) = some[y]
    BY <1>1, <1>5
  <2> QED
    BY <1>3, <2>1, SumCounts
<1>8. Cardinality(Family(P, D \cup {x})) = Cardinality(Family(P, D)) + Cardinality(Family(P, {x}))
  BY <1>1, <1>2, FamilySplit
<1>9. Cardinality(Family(P, {x})) = f[x]
  BY <1>1, FamilyOne
<1> QED
  BY <1>6, <1>7, <1>8, <1>9 DEF all, some

-----------------------------------------------------------------------------
(*****************************************************************************)
(* From tags to spans: the loop over the tags of a row finds its runs.       *)
(*****************************************************************************)

\* A row of tokens that are counted, and of one tag each.
GoodRow(row) ==
  /\ row.tokens \in Seq(Nat) /\ row.tags \in Seq(Tag)
  /\ Len(row.tokens) = Len(row.tags)

\* The words of a sentence follow one another.
LEMMA Starts ==
  ASSUME NEW tokens \in Seq(Nat)
  PROVE  /\ StartOf(tokens, 1) = 0
         /\ \A i \in 1 .. Len(tokens) + 1 : StartOf(tokens, i) \in Nat
         /\ \A i \in 1 .. Len(tokens) :
              StartOf(tokens, i + 1) = StartOf(tokens, i) + tokens[i] + 1
<1>1. \A i \in DOMAIN tokens : tokens[i] \in Nat
  OBVIOUS
<1>2. \A i \in 1 .. Len(tokens) + 1 :
        IsFiniteSet(1 .. i - 1) /\ \A k \in 1 .. i - 1 : k \in DOMAIN tokens
  BY UpTo
<1> DEFINE sum(i) == FoldFunction(+, 0, [k \in 1 .. i - 1 |-> tokens[k]])
<1>3. \A i \in 1 .. Len(tokens) + 1 : sum(i) \in Nat
  <2>1. ASSUME NEW i \in 1 .. Len(tokens) + 1
        PROVE  sum(i) \in Nat
    <3>1. [k \in 1 .. i - 1 |-> tokens[k]] \in [1 .. i - 1 -> Nat]
      BY <1>1, <1>2
    <3> QED
      BY <1>2, <3>1, SumType
  <2> QED
    BY <2>1
<1>4. sum(1) = 0
  <2> DEFINE none == [k \in 1 .. 1 - 1 |-> tokens[k]]
  <2> DEFINE P == [x \in {} |-> {}]
  <2>1. none \in [{} -> Nat]
    OBVIOUS
  <2>2. \A x \in {} : IsFiniteSet(P[x]) /\ Cardinality(P[x]) = none[x]
    OBVIOUS
  <2>3. Family(P, {}) = {}
    BY DEF Family
  <2>4. sum(1) = FoldFunction(+, 0, none)
    OBVIOUS
  <2> HIDE DEF none, P, sum
  <2>5. FoldFunction(+, 0, none) = Cardinality(Family(P, {}))
    BY <2>1, <2>2, SumCounts, FS_EmptySet
  <2> QED
    BY <2>3, <2>4, <2>5, FS_EmptySet
<1>5. ASSUME NEW i \in 1 .. Len(tokens)
      PROVE  sum(i + 1) = sum(i) + tokens[i]
  <2>1. 1 .. (i + 1) - 1 = (1 .. i - 1) \cup {i} /\ i \notin 1 .. i - 1
    OBVIOUS
  <2>2. \A y \in (1 .. i - 1) \cup {i} : tokens[y] \in Nat
    BY <1>1
  <2>3. IsFiniteSet(1 .. i - 1)
    BY <1>2
  <2>4. FoldFunction(+, 0, [y \in (1 .. i - 1) \cup {i} |-> tokens[y]]) =
           FoldFunction(+, 0, [y \in 1 .. i - 1 |-> tokens[y]]) + tokens[i]
    BY <2>1, <2>2, <2>3, SumOneMore
  <2> QED
    BY <2>1, <2>4
<1>6. \A i : StartOf(tokens, i) = sum(i) + i - 1
  BY DEF StartOf, Sum
<1> HIDE DEF sum
<1>7. StartOf(tokens, 1) = 0
  BY <1>4, <1>6
<1>8. \A i \in 1 .. Len(tokens) + 1 : StartOf(tokens, i) \in Nat
  BY <1>3, <1>6
<1>9. ASSUME NEW i \in 1 .. Len(tokens)
      PROVE  StartOf(tokens, i + 1) = StartOf(tokens, i) + tokens[i] + 1
  <2>1. i \in Nat /\ sum(i) \in Nat /\ tokens[i] \in Nat /\ sum(i + 1) = sum(i) + tokens[i]
    BY <1>1, <1>3, <1>5
  <2> QED
    BY <1>6, <2>1
<1> QED
  BY <1>7, <1>8, <1>9

Place(row, i) == <<StartOf(row.tokens, i), StartOf(row.tokens, i) + row.tokens[i]>>

\* TokenOffsets gives each word its place.
LEMMA Offsets ==
  ASSUME NEW row, GoodRow(row)
  PROVE  TokenOffsets(row.tokens) = [i \in DOMAIN row.tokens |-> Place(row, i)]
<1> DEFINE tokens == row.tokens
<1> DEFINE Places(place) == place = [i \in DOMAIN tokens |->
        LET start == IF i = 1 THEN 0 ELSE place[i - 1][2] + 1
        IN  <<start, start + tokens[i]>>]
<1> DEFINE w == [i \in DOMAIN tokens |-> Place(row, i)]
<1>1. TokenOffsets(tokens) = CHOOSE place : Places(place)
  BY DEF TokenOffsets
<1>0. tokens \in Seq(Nat) /\ DOMAIN tokens = 1 .. Len(tokens)
  BY DEF GoodRow
<1>2. ASSUME NEW i \in DOMAIN tokens, i # 1
      PROVE  i - 1 \in DOMAIN tokens /\ StartOf(tokens, i) = Place(row, i - 1)[2] + 1
  <2>1. i - 1 \in 1 .. Len(tokens) /\ (i - 1) + 1 = i
    BY <1>0, <1>2
  <2>2. StartOf(tokens, (i - 1) + 1) = StartOf(tokens, i - 1) + tokens[i - 1] + 1
    BY <1>0, <2>1, Starts
  <2> QED
    BY <1>0, <2>1, <2>2 DEF Place
<1>3. StartOf(tokens, 1) = 0
  BY <1>0, Starts
<1>4. Places(w)
  <2>1. ASSUME NEW i \in DOMAIN tokens
        PROVE  Place(row, i) = LET start == IF i = 1 THEN 0 ELSE w[i - 1][2] + 1
                               IN  <<start, start + tokens[i]>>
    <3>1. CASE i = 1
      BY <1>3, <3>1 DEF Place
    <3>2. CASE i # 1
      BY <1>2, <3>2 DEF Place
    <3> QED
      BY <3>1, <3>2
  <2> QED
    BY <2>1
<1>5. Places(CHOOSE place : Places(place))
  <2> HIDE DEF Places
  <2> QED BY <1>4, Zenon
<1>6. ASSUME NEW place, Places(place)
      PROVE  place = w
  <2> DEFINE through == {n \in Nat : n + 1 \in DOMAIN tokens => place[n + 1] = Place(row, n + 1)}
  <2>1. 0 \in through
    BY <1>3, <1>6 DEF Place
  <2>2. ASSUME NEW n \in Nat, n \in through
        PROVE  n + 1 \in through
    <3>1. SUFFICES ASSUME (n + 1) + 1 \in DOMAIN tokens
                   PROVE  place[(n + 1) + 1] = Place(row, (n + 1) + 1)
      OBVIOUS
    <3>2. n + 1 \in DOMAIN tokens /\ ((n + 1) + 1) - 1 = n + 1 /\ (n + 1) + 1 # 1
      BY <1>0, <3>1
    <3>3. place[n + 1] = Place(row, n + 1)
      BY <2>2, <3>2
    <3>4. StartOf(tokens, (n + 1) + 1) = place[n + 1][2] + 1
      BY <1>2, <3>1, <3>2, <3>3
    <3> QED
      BY <1>6, <3>1, <3>2, <3>4 DEF Place
  <2>3. Nat \subseteq through
    <3> HIDE DEF through
    <3> QED BY <2>1, <2>2, Induct
  <2>4. ASSUME NEW i \in DOMAIN tokens
        PROVE  place[i] = Place(row, i)
    <3>1. i - 1 \in Nat /\ (i - 1) + 1 = i
      BY <1>0
    <3> QED
      BY <2>3, <3>1
  <2>5. place = [i \in DOMAIN tokens |-> place[i]]
    BY <1>6
  <2> QED
    BY <2>4, <2>5
<1> HIDE DEF Places, w
<1>7. TokenOffsets(tokens) = w
  BY <1>1, <1>5, <1>6
<1> QED
  BY <1>7 DEF w


\* The span from the first to the last word of a run.
Span(offsets, run) == <<offsets[run[1]][1], offsets[run[2]][2]>>

\* A run that is open after i tags.
OpenRun(tags, a, i) ==
  /\ a \in 1 .. i /\ Opens(tags, a)
  /\ \A k \in a + 1 .. i : tags[k] = "I-LOC"

\* A run that is open at one tag and the runs that end there.
LEMMA RunToHere ==
  ASSUME NEW tags \in Seq(Tag), NEW i \in 1 .. Len(tags), NEW a, OpenRun(tags, a, i)
  PROVE  /\ InPlace(tags, i)
         /\ \A run \in Runs(tags) : run[2] = i => run[1] = a
<1>1. a \in 1 .. i /\ Opens(tags, a) /\ \A k \in a + 1 .. i : tags[k] = "I-LOC"
  BY DEF OpenRun
<1>2. ASSUME NEW k \in a .. i
      PROVE  InPlace(tags, k)
  <2>1. k \in DOMAIN tags /\ (k = a \/ k \in a + 1 .. i)
    BY <1>1
  <2> QED
    BY <1>1, <2>1 DEF InPlace, Opens
<1>3. ASSUME NEW run \in Runs(tags), run[2] = i
      PROVE  run[1] = a
  <2>1. /\ run[1] \in 1 .. i /\ Opens(tags, run[1])
        /\ \A k \in run[1] + 1 .. i : tags[k] = "I-LOC"
    BY <1>3 DEF Runs
  <2>2. CASE run[1] < a
    <3>1. a \in run[1] + 1 .. i /\ a - 1 \in run[1] .. i
      BY <1>1, <2>1, <2>2
    <3>2. tags[a] = "I-LOC"
      BY <2>1, <3>1
    <3>3. ~InPlace(tags, a - 1)
      BY <1>1, <3>2 DEF Opens
    <3>4. a - 1 \in DOMAIN tags /\ (a - 1 = run[1] \/ a - 1 \in run[1] + 1 .. i)
      BY <2>1, <3>1
    <3> QED
      BY <2>1, <3>3, <3>4 DEF InPlace, Opens
  <2>3. CASE a < run[1]
    <3>1. run[1] \in a + 1 .. i /\ run[1] - 1 \in a .. i
      BY <1>1, <2>1, <2>3
    <3>2. tags[run[1]] = "I-LOC" /\ InPlace(tags, run[1] - 1)
      BY <1>1, <1>2, <3>1
    <3> QED
      BY <2>1, <3>2 DEF Opens
  <2> QED
    BY <1>1, <2>1, <2>2, <2>3
<1>4. i \in a .. i
  BY <1>1
<1> QED
  BY <1>2, <1>3, <1>4

SpanStates == [spans : SUBSET (Nat \X Nat), active : {NoSpan} \cup (Nat \X Nat),
               malformed : SUBSET (Nat \X Nat)]

\* What the state of _LocationSpanState is after i tags.
Through(tags, offsets, i, state) ==
  /\ state.spans = {Span(offsets, run) : run \in {x \in Runs(tags) : x[2] < i}}
  /\ state.malformed = {offsets[k] : k \in {x \in DOMAIN tags :
                          x <= i /\ tags[x] = "I-LOC" /\ ~InPlace(tags, x - 1)}}
  /\ IF InPlace(tags, i)
       THEN \E a \in 1 .. i : OpenRun(tags, a, i) /\ state.active = Span(offsets, <<a, i>>)
       ELSE state.active = NoSpan

\* Close turns the open run into a span.
LEMMA ClosedState ==
  ASSUME NEW tags \in Seq(Tag), NEW offsets \in [1 .. Len(tags) -> Nat \X Nat],
         NEW j \in 1 .. Len(tags) + 1, j <= Len(tags) => tags[j] # "I-LOC",
         NEW state \in SpanStates, Through(tags, offsets, j - 1, state)
  PROVE  /\ Close(state).spans = {Span(offsets, run) : run \in {x \in Runs(tags) : x[2] < j}}
         /\ Close(state).active = NoSpan
         /\ Close(state).malformed = state.malformed
<1> DEFINE i == j - 1
<1>3. i \in 0 .. Len(tags) /\ j = i + 1 /\ (i < Len(tags) => tags[i + 1] # "I-LOC")
  OBVIOUS
<1>4. Through(tags, offsets, i, state)
  OBVIOUS
<1> HIDE DEF i
<1>0. \A x \in Runs(tags) : x[1] \in 1 .. Len(tags) /\ x[2] \in 1 .. Len(tags) /\ x = <<x[1], x[2]>>
  BY DEF Runs
<1>1. CASE InPlace(tags, i)
  <2>1. i \in 1 .. Len(tags)
    BY <1>1 DEF InPlace
  <2>2. PICK a \in 1 .. i : OpenRun(tags, a, i) /\ state.active = Span(offsets, <<a, i>>)
    BY <1>1, <1>4 DEF Through
  <2>3. state.active # NoSpan
    BY <2>2 DEF Span, NoSpan
  <2>4. <<a, i>> \in Runs(tags)
    <3>1. Closes(tags, i)
      BY <1>1, <1>3, <2>1 DEF Closes
    <3> QED
      BY <2>1, <2>2, <3>1 DEF Runs, OpenRun
  <2>5. {x \in Runs(tags) : x[2] < j} = {x \in Runs(tags) : x[2] < i} \cup {<<a, i>>}
    <3>1. \A x \in Runs(tags) : x[2] < j <=> x[2] < i \/ x[2] = i
      <4>1. \A p, q \in Nat : p < q + 1 <=> p < q \/ p = q
        OBVIOUS
      <4>2. i \in Nat /\ j = i + 1
        BY <1>3, <2>1
      <4>3. \A x \in Runs(tags) : x[2] \in Nat
        BY <1>0
      <4> QED
        BY <4>1, <4>2, <4>3, Zenon
    <3>2. \A x \in Runs(tags) : x[2] = i => x = <<a, i>>
      BY <1>0, <2>1, <2>2, RunToHere
    <3> QED
      BY <2>1, <2>4, <3>1, <3>2
  <2>6. /\ Close(state).spans = state.spans \cup {state.active}
        /\ Close(state).active = NoSpan
        /\ Close(state).malformed = state.malformed
    BY <2>3 DEF Close, SpanStates
  <2>7. state.spans = {Span(offsets, run) : run \in {x \in Runs(tags) : x[2] < i}}
    BY <1>4 DEF Through
  <2>8. \A S, T, t : T = S \cup {t} =>
          {Span(offsets, run) : run \in T} = {Span(offsets, run) : run \in S} \cup {Span(offsets, t)}
    OBVIOUS
  <2>9. {Span(offsets, run) : run \in {x \in Runs(tags) : x[2] < j}} =
          {Span(offsets, run) : run \in {x \in Runs(tags) : x[2] < i}} \cup {Span(offsets, <<a, i>>)}
    BY <2>5, <2>8
  <2> QED
    BY <2>2, <2>6, <2>7, <2>9
<1>2. CASE ~InPlace(tags, i)
  <2>1. Close(state) = state /\ state.active = NoSpan
    BY <1>2, <1>4 DEF Close, Through
  <2>2. ASSUME NEW x \in Runs(tags)
        PROVE  x[2] < j <=> x[2] < i
    <3>1. x[2] # i
      BY <1>2 DEF Runs, Closes
    <3> QED
      BY <1>0, <1>3, <3>1
  <2> QED
    BY <1>4, <2>1, <2>2 DEF Through
<1> QED
  BY <1>1, <1>2

\* _LocationSpanState.consume takes the runs one tag further.
LEMMA ConsumeTag ==
  ASSUME NEW tags \in Seq(Tag), NEW offsets \in [1 .. Len(tags) -> Nat \X Nat],
         NEW i \in 1 .. Len(tags),
         NEW state \in SpanStates, Through(tags, offsets, i - 1, state)
  PROVE  Through(tags, offsets, i, Consume(state, tags[i], offsets[i]))
<1> DEFINE next == Consume(state, tags[i], offsets[i])
<1> DEFINE Orphan(x) == tags[x] = "I-LOC" /\ ~InPlace(tags, x - 1)
<1> DEFINE bad(n) == {x \in DOMAIN tags : x <= n /\ tags[x] = "I-LOC" /\ ~InPlace(tags, x - 1)}
<1>0. /\ i - 1 \in 0 .. Len(tags) /\ (i - 1) + 1 = i /\ i \in DOMAIN tags
      /\ DOMAIN tags = 1 .. Len(tags)
      /\ tags[i] \in Tag
      /\ offsets[i] \in Nat \X Nat /\ offsets[i] = <<offsets[i][1], offsets[i][2]>>
  OBVIOUS
<1>1. Orphan(i) => bad(i) = bad(i - 1) \cup {i}
  BY <1>0
<1>2. ~Orphan(i) => bad(i) = bad(i - 1)
  BY <1>0
<1>3. state.malformed = {offsets[k] : k \in bad(i - 1)}
  BY DEF Through
<1>4. CASE tags[i] = "B-LOC"
  <2>1. next = [Close(state) EXCEPT !.active = offsets[i]]
    BY <1>4 DEF Consume
  <2>2. /\ Close(state).spans = {Span(offsets, run) : run \in {x \in Runs(tags) : x[2] < i}}
        /\ Close(state).malformed = state.malformed
    <3>1. i \in 1 .. Len(tags) + 1 /\ (i <= Len(tags) => tags[i] # "I-LOC")
      BY <1>0, <1>4
    <3> QED
      BY <3>1, ClosedState
  <2>3. Close(state) \in SpanStates
    BY DEF Close, SpanStates
  <2>4. next.spans = Close(state).spans /\ next.malformed = state.malformed /\ next.active = offsets[i]
    BY <2>1, <2>2, <2>3 DEF SpanStates
  <2>5. ~Orphan(i) /\ InPlace(tags, i) /\ Opens(tags, i)
    BY <1>0, <1>4 DEF InPlace, Opens
  <2>6. OpenRun(tags, i, i) /\ next.active = Span(offsets, <<i, i>>)
    BY <1>0, <2>4, <2>5 DEF OpenRun, Span
  <2>7. next.malformed = {offsets[k] : k \in bad(i)}
    BY <1>2, <1>3, <2>4, <2>5
  <2> HIDE DEF next
  <2>8. next.spans = {Span(offsets, run) : run \in {x \in Runs(tags) : x[2] < i}}
    BY <2>2, <2>4
  <2>9. i \in 1 .. i
    BY <1>0
  <2>10. Through(tags, offsets, i, next)
    BY <2>5, <2>6, <2>7, <2>8, <2>9, Zenon DEF Through
  <2> QED
    BY <2>10 DEF next
<1>5. CASE tags[i] = "I-LOC"
  <2>1. {x \in Runs(tags) : x[2] < i} = {x \in Runs(tags) : x[2] < i - 1}
    <3>1. ASSUME NEW x \in Runs(tags)
          PROVE  x[2] # i - 1 /\ x[2] \in Nat
      <4>1. Closes(tags, x[2]) /\ x[2] \in 1 .. Len(tags)
        BY DEF Runs
      <4>2. SUFFICES ASSUME x[2] = i - 1
                     PROVE  FALSE
        BY <4>1
      <4>3. i - 1 # Len(tags) /\ tags[(i - 1) + 1] = "I-LOC"
        BY <1>0, <1>5
      <4> QED
        BY <4>1, <4>2, <4>3 DEF Closes
    <3>2. \A n \in Nat : n # i - 1 => (n < i <=> n < i - 1)
      BY <1>0
    <3> QED
      BY <3>1, <3>2
  <2>2. InPlace(tags, i)
    BY <1>0, <1>5 DEF InPlace
  <2>3. CASE InPlace(tags, i - 1)
    <3>1. PICK a \in 1 .. i - 1 : OpenRun(tags, a, i - 1) /\ state.active = Span(offsets, <<a, i - 1>>)
      BY <2>3 DEF Through
    <3>2. state.active # NoSpan
      BY <3>1 DEF Span, NoSpan
    <3>3. next = [state EXCEPT !.active = <<state.active[1], offsets[i][2]>>]
      BY <1>5, <3>2 DEF Consume
    <3>4. /\ next.spans = state.spans /\ next.malformed = state.malformed
          /\ next.active = <<state.active[1], offsets[i][2]>>
      BY <3>3 DEF SpanStates
    <3>5. a \in 1 .. i /\ OpenRun(tags, a, i)
      <4>1. a \in 1 .. i /\ Opens(tags, a) /\ \A k \in a + 1 .. i - 1 : tags[k] = "I-LOC"
        BY <3>1 DEF OpenRun
      <4>2. \A k \in a + 1 .. i : k \in a + 1 .. i - 1 \/ k = i
        BY <4>1
      <4> QED
        BY <1>5, <4>1, <4>2 DEF OpenRun
    <3>6. next.active = Span(offsets, <<a, i>>)
      BY <3>1, <3>4 DEF Span
    <3>7. ~Orphan(i)
      BY <2>3
    <3> QED
      BY <1>2, <1>3, <2>1, <2>2, <3>4, <3>5, <3>6, <3>7 DEF Through
  <2>4. CASE ~InPlace(tags, i - 1)
    <3>1. state.active = NoSpan
      BY <2>4 DEF Through
    <3>2. next = [state EXCEPT !.malformed = state.malformed \cup {offsets[i]}, !.active = offsets[i]]
      BY <1>5, <3>1 DEF Consume
    <3>3. /\ next.spans = state.spans /\ next.malformed = state.malformed \cup {offsets[i]}
          /\ next.active = offsets[i]
      BY <3>2 DEF SpanStates
    <3>4. Orphan(i) /\ Opens(tags, i)
      BY <1>5, <2>4 DEF Opens
    <3>5. OpenRun(tags, i, i) /\ next.active = Span(offsets, <<i, i>>)
      BY <1>0, <3>3, <3>4 DEF OpenRun, Span
    <3>6. next.malformed = {offsets[k] : k \in bad(i)}
      BY <1>1, <1>3, <3>3, <3>4
    <3>7. next.spans = {Span(offsets, run) : run \in {x \in Runs(tags) : x[2] < i}}
      BY <2>1, <3>3 DEF Through
    <3> HIDE DEF next
    <3>8. i \in 1 .. i
      BY <1>0
    <3>9. Through(tags, offsets, i, next)
      BY <2>2, <3>5, <3>6, <3>7, <3>8, Zenon DEF Through
    <3> QED
      BY <3>9 DEF next
  <2> QED
    BY <2>3, <2>4
<1>6. CASE tags[i] \notin {"B-LOC", "I-LOC"}
  <2>1. next = Close(state)
    BY <1>6 DEF Consume
  <2>2. /\ Close(state).spans = {Span(offsets, run) : run \in {x \in Runs(tags) : x[2] < i}}
        /\ Close(state).active = NoSpan
        /\ Close(state).malformed = state.malformed
    <3>1. i \in 1 .. Len(tags) + 1 /\ (i <= Len(tags) => tags[i] # "I-LOC")
      BY <1>0, <1>6
    <3> QED
      BY <3>1, ClosedState
  <2>3. ~Orphan(i) /\ ~InPlace(tags, i)
    BY <1>6 DEF InPlace
  <2> QED
    BY <1>2, <1>3, <2>1, <2>2, <2>3 DEF Through
<1> QED
  BY <1>4, <1>5, <1>6

\* LocationSpans finds the runs of location tags.
LEMMA SpansOfRuns ==
  ASSUME NEW tags \in Seq(Tag), NEW offsets \in [1 .. Len(tags) -> Nat \X Nat]
  PROVE  /\ LocationSpans(tags, offsets).spans = {Span(offsets, run) : run \in Runs(tags)}
         /\ LocationSpans(tags, offsets).malformed =
              {offsets[k] : k \in {x \in DOMAIN tags : tags[x] = "I-LOC" /\ ~InPlace(tags, x - 1)}}
<1> DEFINE n == Len(tags)
<1> DEFINE start == [spans |-> {}, active |-> NoSpan, malformed |-> {}]
<1> DEFINE step == [z \in SpanStates \X (1 .. n) |-> Consume(z[1], tags[z[2]], offsets[z[2]])]
<1> DEFINE States(state) == state = [i \in 0 .. n |->
        IF i = 0 THEN start ELSE Consume(state[i - 1], tags[i], offsets[i])]
<1>1. LocationSpans(tags, offsets) = Close((CHOOSE state : States(state))[n])
  BY DEF LocationSpans
<1>2. n \in Nat /\ DOMAIN tags = 1 .. n
  OBVIOUS
<1>3. start \in SpanStates
  BY DEF SpanStates
<1>4. ASSUME NEW state \in SpanStates, NEW i \in 1 .. n
      PROVE  Consume(state, tags[i], offsets[i]) \in SpanStates
  <2>1. offsets[i] \in Nat \X Nat /\ offsets[i][2] \in Nat
    OBVIOUS
  <2>2. state.active # NoSpan => state.active \in Nat \X Nat
    BY DEF SpanStates
  <2>3. Close(state) \in SpanStates /\ [Close(state) EXCEPT !.active = offsets[i]] \in SpanStates
    BY <2>1, <2>2 DEF Close, SpanStates
  <2>4. [state EXCEPT !.malformed = @ \cup {offsets[i]}, !.active = offsets[i]] \in SpanStates
    BY <2>1 DEF SpanStates
  <2>5. state.active # NoSpan =>
          [state EXCEPT !.active = <<state.active[1], offsets[i][2]>>] \in SpanStates
    BY <2>1, <2>2 DEF SpanStates
  <2> HIDE DEF SpanStates
  <2> QED
    BY <2>3, <2>4, <2>5 DEF Consume
<1>5. step \in [SpanStates \X (1 .. n) -> SpanStates]
  BY <1>4
<1>6. \E g : States(g)
  <2> HIDE DEF start, step
  <2>1. \A v \in SpanStates, i \in 1 .. n : step[<<v, i>>] \in SpanStates
    BY <1>5
  <2>2. PICK g : g \in [0 .. n -> SpanStates] /\ Follows(g, start, step, n)
    BY <1>2, <1>3, <2>1, Recursion
  <2>3. ASSUME NEW i \in 1 .. n
        PROVE  g[i] = Consume(g[i - 1], tags[i], offsets[i])
    <3>1. i - 1 \in 0 .. n
      BY <1>2
    <3>2. g[i - 1] \in SpanStates
      BY <2>2, <3>1
    <3> QED
      BY <2>2, <3>2 DEF step, Follows
  <2>4. ASSUME NEW i \in 0 .. n
        PROVE  g[i] = IF i = 0 THEN start ELSE Consume(g[i - 1], tags[i], offsets[i])
    BY <1>2, <2>2, <2>3 DEF Follows
  <2>5. g = [i \in 0 .. n |-> g[i]]
    BY <2>2
  <2> QED
    BY <2>4, <2>5
<1>7. States(CHOOSE state : States(state))
  <2> HIDE DEF States
  <2> QED BY <1>6, Zenon
<1>8. ASSUME NEW state, States(state)
      PROVE  state[n] \in SpanStates /\ Through(tags, offsets, n, state[n])
  <2> DEFINE through == {i \in Nat : i <= n =>
                           state[i] \in SpanStates /\ Through(tags, offsets, i, state[i])}
  <2>1. 0 \in through
    <3>1. state[0] = start
      BY <1>2, <1>8
    <3>2. ~InPlace(tags, 0)
      BY <1>2 DEF InPlace
    <3>3. {x \in Runs(tags) : x[2] < 0} = {}
      BY <1>2 DEF Runs
    <3>4. {x \in DOMAIN tags : x <= 0 /\ tags[x] = "I-LOC" /\ ~InPlace(tags, x - 1)} = {}
      BY <1>2
    <3>5. Through(tags, offsets, 0, start)
      BY <3>2, <3>3, <3>4 DEF Through
    <3> QED
      BY <1>3, <3>1, <3>5
  <2>2. ASSUME NEW i \in Nat, i \in through
        PROVE  i + 1 \in through
    <3>1. SUFFICES ASSUME i + 1 <= n
                   PROVE  state[i + 1] \in SpanStates /\ Through(tags, offsets, i + 1, state[i + 1])
      OBVIOUS
    <3>2. i + 1 \in 1 .. n /\ i + 1 \in 0 .. n /\ i + 1 # 0 /\ (i + 1) - 1 = i /\ i <= n
      BY <1>2, <3>1
    <3>3. state[i + 1] = Consume(state[(i + 1) - 1], tags[i + 1], offsets[i + 1])
      BY <1>8, <3>2
    <3>4. state[i] \in SpanStates /\ Through(tags, offsets, i, state[i])
      BY <2>2, <3>2
    <3>5. state[(i + 1) - 1] \in SpanStates /\ Through(tags, offsets, (i + 1) - 1, state[(i + 1) - 1])
      BY <3>2, <3>4
    <3> HIDE DEF States
    <3> QED
      BY <1>4, <3>2, <3>3, <3>5, ConsumeTag
  <2>3. n \in through
    <3> HIDE DEF through
    <3> QED BY <1>2, <2>1, <2>2, Induct
  <2> QED
    BY <1>2, <2>3
<1> DEFINE last == (CHOOSE state : States(state))[n]
<1>9. last \in SpanStates /\ Through(tags, offsets, n, last)
  <2> HIDE DEF States
  <2> QED BY <1>7, <1>8
<1> HIDE DEF last
<1>10. LocationSpans(tags, offsets) = Close(last)
  BY <1>1 DEF last
<1>11. n + 1 \in 1 .. Len(tags) + 1 /\ (n + 1) - 1 = n /\ ~(n + 1 <= Len(tags))
  BY <1>2
<1>12. /\ Close(last).spans = {Span(offsets, run) : run \in {x \in Runs(tags) : x[2] < n + 1}}
       /\ Close(last).malformed = last.malformed
  BY <1>9, <1>11, ClosedState
<1>13. {x \in Runs(tags) : x[2] < n + 1} = Runs(tags)
  BY <1>2 DEF Runs
<1>14. {x \in DOMAIN tags : x <= n /\ tags[x] = "I-LOC" /\ ~InPlace(tags, x - 1)} =
         {x \in DOMAIN tags : tags[x] = "I-LOC" /\ ~InPlace(tags, x - 1)}
  BY <1>2
<1>15. last.malformed = {offsets[k] : k \in {x \in DOMAIN tags :
                            x <= n /\ tags[x] = "I-LOC" /\ ~InPlace(tags, x - 1)}}
  BY <1>9 DEF Through
<1> QED
  BY <1>10, <1>12, <1>13, <1>14, <1>15


\* The rows of a language are counted.
LEMMA GoodRows ==
  ASSUME NEW lang \in LanguageSet, NEW i \in DOMAIN RowsOf[lang]
  PROVE  GoodRow(RowsOf[lang][i])
<1>1. RowsOf[lang][i] \in [tokens : Seq(Nat), tags : Seq(Tag)]
  <2> DEFINE T == [tokens : Seq(Nat), tags : Seq(Tag)]
  <2>1. RowsOf[lang] \in Seq(T)
    BY RowsAssumption
  <2> HIDE DEF T
  <2>2. RowsOf[lang][i] \in T
    BY <2>1
  <2> QED
    BY <2>2 DEF T
<1>2. Len(RowsOf[lang][i].tokens) = Len(RowsOf[lang][i].tags)
  BY RowsAssumption
<1> HIDE DEF Tag
<1> QED
  BY <1>1, <1>2 DEF GoodRow

\* A place is a pair of numbers.
LEMMA PlaceIsPair ==
  ASSUME NEW row, GoodRow(row), NEW i \in 1 .. Len(row.tokens)
  PROVE  Place(row, i) \in Nat \X Nat
<1>1. row.tokens \in Seq(Nat) /\ row.tokens[i] \in Nat /\ i \in 1 .. Len(row.tokens) + 1
  BY DEF GoodRow
<1>2. StartOf(row.tokens, i) \in Nat
  BY <1>1, Starts
<1> QED
  BY <1>1, <1>2 DEF Place

\* The length of a sentence: words with a space between two of them.
LengthOf(row) == StartOf(row.tokens, Len(row.tokens) + 1) - 1

\* ExampleFromRow finds the gold spans, and a place for each orphan.
THEOREM RowExample ==
  ASSUME NEW row, GoodRow(row)
  PROVE  /\ ExampleFromRow(row).gold = GoldSpans(row)
         /\ ExampleFromRow(row).malformed = {Place(row, k) : k \in GoldOrphans(row)}
         /\ ExampleFromRow(row).length = IF row.tokens = <<>> THEN 0 ELSE LengthOf(row)
<1> DEFINE offsets == TokenOffsets(row.tokens)
<1> DEFINE found == LocationSpans(row.tags, offsets)
<1>1. /\ row.tokens \in Seq(Nat) /\ row.tags \in Seq(Tag) /\ Len(row.tokens) = Len(row.tags)
      /\ DOMAIN row.tokens = 1 .. Len(row.tokens) /\ DOMAIN row.tags = 1 .. Len(row.tags)
  BY DEF GoodRow
<1>2. offsets = [i \in 1 .. Len(row.tags) |-> Place(row, i)]
  BY <1>1, Offsets
<1>3. offsets \in [1 .. Len(row.tags) -> Nat \X Nat]
  BY <1>1, <1>2, PlaceIsPair
<1>4. \A i \in 1 .. Len(row.tags) : offsets[i] = Place(row, i)
  BY <1>2
<1>5. /\ ExampleFromRow(row).gold = found.spans
      /\ ExampleFromRow(row).malformed = found.malformed
      /\ ExampleFromRow(row).length =
           IF row.tokens = <<>> THEN 0 ELSE offsets[Len(row.tokens)][2]
  BY DEF ExampleFromRow
<1> HIDE DEF offsets
<1>6. /\ found.spans = {Span(offsets, run) : run \in Runs(row.tags)}
      /\ found.malformed =
           {offsets[k] : k \in {x \in DOMAIN row.tags :
                          row.tags[x] = "I-LOC" /\ ~InPlace(row.tags, x - 1)}}
  BY <1>1, <1>3, SpansOfRuns
<1>7. {Span(offsets, run) : run \in Runs(row.tags)} = GoldSpans(row)
  <2>1. ASSUME NEW run \in Runs(row.tags)
        PROVE  Span(offsets, run) =
          <<StartOf(row.tokens, run[1]), StartOf(row.tokens, run[2]) + row.tokens[run[2]]>>
    <3>1. run[1] \in 1 .. Len(row.tags) /\ run[2] \in 1 .. Len(row.tags)
      BY <1>1 DEF Runs
    <3> QED
      BY <1>4, <3>1 DEF Span, Place
  <2> QED
    BY <2>1 DEF GoldSpans
<1>8. found.malformed = {Place(row, k) : k \in GoldOrphans(row)}
  BY <1>1, <1>4, <1>6 DEF GoldOrphans
<1>9. ASSUME row.tokens # <<>>
      PROVE  offsets[Len(row.tokens)][2] = LengthOf(row)
  <2>1. Len(row.tokens) \in 1 .. Len(row.tokens)
    BY <1>1, <1>9
  <2>2. StartOf(row.tokens, Len(row.tokens) + 1) =
          StartOf(row.tokens, Len(row.tokens)) + row.tokens[Len(row.tokens)] + 1
    BY <1>1, <2>1, Starts
  <2>3. StartOf(row.tokens, Len(row.tokens)) \in Nat /\ row.tokens[Len(row.tokens)] \in Nat
    BY <1>1, <2>1, Starts
  <2>4. offsets[Len(row.tokens)][2] =
          StartOf(row.tokens, Len(row.tokens)) + row.tokens[Len(row.tokens)]
    BY <1>1, <1>4, <2>1 DEF Place
  <2>5. \A a, b \in Nat : (a + b + 1) - 1 = a + b
    OBVIOUS
  <2> QED
    BY <2>2, <2>3, <2>4, <2>5, Zenon DEF LengthOf
<1> QED
  BY <1>5, <1>6, <1>7, <1>8, <1>9

\* The places of two words differ.
LEMMA PlacesDiffer ==
  ASSUME NEW row, GoodRow(row), NEW i \in DOMAIN row.tags, NEW k \in DOMAIN row.tags,
         Place(row, i) = Place(row, k)
  PROVE  i = k
<1> DEFINE tokens == row.tokens
<1>1. /\ tokens \in Seq(Nat) /\ i \in 1 .. Len(tokens) /\ k \in 1 .. Len(tokens)
      /\ Len(tokens) \in Nat
  BY DEF GoodRow
<1>2. StartOf(tokens, i) = StartOf(tokens, k)
  BY DEF Place
<1>3. ASSUME NEW a \in 1 .. Len(tokens)
      PROVE  \A b \in 1 .. Len(tokens) : a < b => StartOf(tokens, a) < StartOf(tokens, b)
  <2> DEFINE through == {n \in Nat : a + n + 1 <= Len(tokens) =>
                           StartOf(tokens, a) < StartOf(tokens, a + n + 1)}
  <2>1. ASSUME NEW b \in 1 .. Len(tokens)
        PROVE  /\ StartOf(tokens, b) \in Nat /\ tokens[b] \in Nat
               /\ StartOf(tokens, b + 1) = StartOf(tokens, b) + tokens[b] + 1
    <3>1. tokens[b] \in Nat
      <4>1. \A s \in Seq(Nat) : \A n \in 1 .. Len(s) : s[n] \in Nat
        OBVIOUS
      <4> QED
        BY <1>1, <4>1, Zenon
    <3>2. \A n \in Nat : \A o \in 1 .. n : o \in 1 .. n + 1
      OBVIOUS
    <3>3. b \in 1 .. Len(tokens) + 1
      BY <1>1, <3>2, Zenon
    <3> QED
      BY <1>1, <3>1, <3>3, Starts
  <2>2. 0 \in through
    <3>1. a + 0 + 1 = a + 1
      BY <1>1
    <3>2. StartOf(tokens, a) < StartOf(tokens, a + 1)
      BY <2>1
    <3> QED
      BY <3>1, <3>2
  <2>3. ASSUME NEW n \in Nat, n \in through
        PROVE  n + 1 \in through
    <3>1. SUFFICES ASSUME a + (n + 1) + 1 <= Len(tokens)
                   PROVE  StartOf(tokens, a) < StartOf(tokens, a + (n + 1) + 1)
      OBVIOUS
    <3>2. /\ a + n + 1 \in 1 .. Len(tokens) /\ a + n + 1 <= Len(tokens)
          /\ a + (n + 1) + 1 = (a + n + 1) + 1
      BY <1>1, <3>1
    <3>3. StartOf(tokens, a) < StartOf(tokens, a + n + 1)
      BY <2>3, <3>2
    <3>4. /\ StartOf(tokens, a) \in Nat /\ StartOf(tokens, a + n + 1) \in Nat
          /\ tokens[a + n + 1] \in Nat
          /\ StartOf(tokens, (a + n + 1) + 1) = StartOf(tokens, a + n + 1) + tokens[a + n + 1] + 1
      BY <2>1, <3>2
    <3> QED
      BY <3>2, <3>3, <3>4
  <2>4. Nat \subseteq through
    <3> HIDE DEF through
    <3> QED BY <2>2, <2>3, Induct
  <2>5. ASSUME NEW b \in 1 .. Len(tokens), a < b
        PROVE  StartOf(tokens, a) < StartOf(tokens, b)
    <3>1. b - a - 1 \in Nat /\ a + (b - a - 1) + 1 = b /\ b <= Len(tokens)
      BY <2>5
    <3> QED
      BY <2>4, <3>1
  <2> QED
    BY <2>5
<1>4. StartOf(tokens, i) \in Nat
  <2>1. i \in 1 .. Len(tokens) + 1
    BY <1>1
  <2> QED
    BY <1>1, <2>1, Starts
<1>5. ~(StartOf(tokens, i) < StartOf(tokens, k)) /\ ~(StartOf(tokens, k) < StartOf(tokens, i))
  BY <1>2, <1>4
<1> QED
  BY <1>1, <1>3, <1>5

\* The example of a row is the one its index names.
LEMMA ExampleOf ==
  ASSUME NEW lang \in LanguageSet, NEW i \in DOMAIN RowsOf[lang]
  PROVE  Example(lang, i) = ExampleFromRow(RowsOf[lang][i])
<1> DEFINE Is(e) == e.language = lang /\ e.index = i
<1> DEFINE it == [language |-> lang, index |-> i, example |-> ExampleFromRow(RowsOf[lang][i])]
<1>1. it \in AllExamples /\ Is(it)
  BY DEF AllExamples
<1>2. \A e \in AllExamples : Is(e) => e.example = ExampleFromRow(RowsOf[lang][i])
  BY DEF AllExamples
<1> DEFINE chosen == CHOOSE e \in AllExamples : Is(e)
<1>3. chosen \in AllExamples /\ Is(chosen)
  <2> HIDE DEF Is, it
  <2> QED BY <1>1
<1> HIDE DEF chosen, Is
<1>4. chosen.example = ExampleFromRow(RowsOf[lang][i])
  BY <1>2, <1>3
<1> QED
  BY <1>4 DEF Example, chosen, Is

-----------------------------------------------------------------------------
(*****************************************************************************)
(* Counting: what the batches of a language add up to, and the languages of a *)
(* report.                                                                   *)
(*****************************************************************************)

AllRows == UNION {{lang} \X DOMAIN RowsOf[lang] : lang \in LanguageSet}
Fields == {"tp", "fp", "fn", "sentences", "malformed", "invalid"}

Said(j, m, x) == PredictedSpans(m, Raw[j.commit][m][x[1]][x[2]])
RowAt(x) == RowsOf[x[1]][x[2]]

\* What each count is the number of, in one row.
Parts(j, m, x) ==
  [tp |-> GoldSpans(RowAt(x)) \cap Said(j, m, x),
   fp |-> Said(j, m, x) \ GoldSpans(RowAt(x)),
   fn |-> GoldSpans(RowAt(x)) \ Said(j, m, x),
   sentences |-> {0},
   malformed |-> GoldOrphans(RowAt(x)),
   invalid |-> {s \in Said(j, m, x) : Invalid(s, LengthOf(RowAt(x)))}]

Part(j, m, S, field) == [x \in S |-> Parts(j, m, x)[field]]
CountsOf(j, m, S) == [field \in Fields |-> Cardinality(Family(Part(j, m, S, field), S))]

\* Every row is one of a language, and counted.
LEMMA RowsAreGood ==
  ASSUME NEW x \in AllRows
  PROVE  /\ x[1] \in LanguageSet /\ x[2] \in DOMAIN RowsOf[x[1]] /\ x = <<x[1], x[2]>>
         /\ GoodRow(RowAt(x))
<1>1. x[1] \in LanguageSet /\ x[2] \in DOMAIN RowsOf[x[1]] /\ x = <<x[1], x[2]>>
  BY DEF AllRows
<1> QED
  BY <1>1, GoodRows DEF RowAt

\* The parts of a row are finite.
LEMMA PartsFinite ==
  ASSUME NEW j \in Jobs, NEW m \in DOMAIN BatchSize, NEW x \in AllRows, NEW field \in Fields
  PROVE  IsFiniteSet(Parts(j, m, x)[field])
<1> DEFINE row == RowAt(x)
<1>1. /\ x[1] \in LanguageSet /\ x[2] \in DOMAIN RowsOf[x[1]]
      /\ row.tags \in Seq(Tag) /\ DOMAIN row.tags = 1 .. Len(row.tags)
  BY RowsAreGood DEF GoodRow
<1>2. IsFiniteSet(DOMAIN row.tags)
  BY <1>1, UpTo
<1>3. IsFiniteSet(Runs(row.tags))
  <2>1. IsFiniteSet((DOMAIN row.tags) \X (DOMAIN row.tags))
    BY <1>2, FS_Product
  <2> QED
    BY <2>1, FS_Subset DEF Runs
<1>4. IsFiniteSet(GoldSpans(row))
  <2> DEFINE span == [r \in Runs(row.tags) |->
                       <<StartOf(row.tokens, r[1]), StartOf(row.tokens, r[2]) + row.tokens[r[2]]>>]
  <2>1. GoldSpans(row) = {span[r] : r \in Runs(row.tags)}
    BY DEF GoldSpans
  <2> HIDE DEF span
  <2> QED
    BY <1>3, <2>1, ImageFinite
<1>5. IsFiniteSet(GoldOrphans(row))
  BY <1>2, FS_Subset DEF GoldOrphans
<1>6. IsFiniteSet(Said(j, m, x))
  <2> DEFINE raw == Raw[j.commit][m][x[1]][x[2]]
  <2> DEFINE kept == {e \in raw : e.label \in LocationLabels[m] /\ e.span # NoSpan}
  <2>1. j.commit \in Commits
    BY DEF Jobs
  <2>2. IsFiniteSet(raw)
    BY <1>1, <2>1, RowsAssumption
  <2>3. IsFiniteSet(kept)
    BY <2>2, FS_Subset
  <2> DEFINE span == [e \in kept |-> e.span]
  <2>4. Said(j, m, x) = {span[e] : e \in kept}
    BY DEF Said, PredictedSpans
  <2> HIDE DEF span, kept
  <2> QED
    BY <2>3, <2>4, ImageFinite
<1> HIDE DEF row
<1>7. /\ IsFiniteSet(GoldSpans(row) \cap Said(j, m, x))
      /\ IsFiniteSet(Said(j, m, x) \ GoldSpans(row))
      /\ IsFiniteSet(GoldSpans(row) \ Said(j, m, x))
      /\ IsFiniteSet({s \in Said(j, m, x) : Invalid(s, LengthOf(row))})
  BY <1>4, <1>6, FS_Subset
<1>8. IsFiniteSet({0})
  BY FS_Singleton
<1>9. /\ Parts(j, m, x)["tp"] = GoldSpans(row) \cap Said(j, m, x)
      /\ Parts(j, m, x)["fp"] = Said(j, m, x) \ GoldSpans(row)
      /\ Parts(j, m, x)["fn"] = GoldSpans(row) \ Said(j, m, x)
      /\ Parts(j, m, x)["sentences"] = {0}
      /\ Parts(j, m, x)["malformed"] = GoldOrphans(row)
      /\ Parts(j, m, x)["invalid"] = {s \in Said(j, m, x) : Invalid(s, LengthOf(row))}
  BY DEF Parts, row
<1>10. field \in {"tp", "fp", "fn", "sentences", "malformed", "invalid"}
  BY DEF Fields
<1> QED
  BY <1>5, <1>7, <1>8, <1>9, <1>10, Zenon

\* A count is the number of its parts.
LEMMA FamilyOfParts ==
  ASSUME NEW j \in Jobs, NEW m \in DOMAIN BatchSize, NEW S \in SUBSET AllRows, IsFiniteSet(S),
         NEW field \in Fields
  PROVE  /\ IsFiniteSet(Family(Part(j, m, S, field), S))
         /\ CountsOf(j, m, S)[field] = Cardinality(Family(Part(j, m, S, field), S))
         /\ CountsOf(j, m, S)[field] \in Nat
<1>1. \A x \in S : IsFiniteSet(Part(j, m, S, field)[x])
  BY PartsFinite DEF Part
<1>2. IsFiniteSet(Family(Part(j, m, S, field), S))
  BY <1>1, FamilyFinite
<1>3. CountsOf(j, m, S)[field] = Cardinality(Family(Part(j, m, S, field), S))
  BY DEF CountsOf
<1> QED
  BY <1>2, <1>3, FS_CardinalityType

\* The counts are numbers.
LEMMA CountsType ==
  ASSUME NEW j \in Jobs, NEW m \in DOMAIN BatchSize, NEW S \in SUBSET AllRows, IsFiniteSet(S)
  PROVE  CountsOf(j, m, S) \in Counts
<1>1. \A field \in Fields : CountsOf(j, m, S)[field] \in Nat
  BY FamilyOfParts
<1>2. CountsOf(j, m, S) \in [Fields -> Nat]
  <2>1. CountsOf(j, m, S) = [field \in Fields |-> CountsOf(j, m, S)[field]]
    BY DEF CountsOf
  <2> QED
    BY <1>1, <2>1
<1> QED
  BY <1>2 DEF Counts, Fields

\* Counts of more rows.
LEMMA CountsSplit ==
  ASSUME NEW j \in Jobs, NEW m \in DOMAIN BatchSize,
         NEW S \in SUBSET AllRows, IsFiniteSet(S), NEW R \in SUBSET AllRows, IsFiniteSet(R),
         S \cap R = {}, NEW field \in Fields
  PROVE  CountsOf(j, m, S \cup R)[field] = CountsOf(j, m, S)[field] + CountsOf(j, m, R)[field]
<1> DEFINE P == Part(j, m, S \cup R, field)
<1>1. \A x \in S \cup R : IsFiniteSet(P[x])
  BY PartsFinite DEF Part
<1>2. /\ Family(P, S) = Family(Part(j, m, S, field), S)
      /\ Family(P, R) = Family(Part(j, m, R, field), R)
  BY DEF Family, Part
<1>3. /\ CountsOf(j, m, S \cup R)[field] = Cardinality(Family(P, S \cup R))
      /\ CountsOf(j, m, S)[field] = Cardinality(Family(Part(j, m, S, field), S))
      /\ CountsOf(j, m, R)[field] = Cardinality(Family(Part(j, m, R, field), R))
  BY DEF CountsOf
<1> HIDE DEF P
<1>4. Cardinality(Family(P, S \cup R)) = Cardinality(Family(P, S)) + Cardinality(Family(P, R))
  BY <1>1, FamilySplit
<1> QED
  BY <1>2, <1>3, <1>4

\* Counting starts at nothing.
LEMMA CountsOfNone == ASSUME NEW j, NEW m PROVE CountsOf(j, m, {}) = NoCounts
<1>1. \A field \in Fields : Family(Part(j, m, {}, field), {}) = {}
  BY DEF Family
<1>2. CountsOf(j, m, {}) = [field \in Fields |-> 0]
  BY <1>1, FS_EmptySet DEF CountsOf
<1> QED
  BY <1>2 DEF Fields, NoCounts


\* Q has the elements of P under other names.
Renamed(P, Q, lang, R, place) ==
  /\ \A i \in R : Q[i] = {place[<<i, e>>] : e \in P[<<lang, i>>]}
  /\ \A i \in R : \A d, e \in P[<<lang, i>>] : place[<<i, d>>] = place[<<i, e>>] => d = e

\* The same elements under other names, in the rows of one language.
LEMMA Reindexed ==
  ASSUME NEW lang, NEW R, NEW P, IsFiniteSet(Family(P, {lang} \X R)), NEW Q, NEW place,
         Renamed(P, Q, lang, R, place)
  PROVE  Cardinality(Family(Q, R)) = Cardinality(Family(P, {lang} \X R))
<1> USE DEF Renamed
<1> DEFINE D == {lang} \X R
<1> DEFINE f == [t \in Family(P, D) |-> <<t[1][2], place[<<t[1][2], t[2]>>]>>]
<1>1. \A t \in Family(P, D) : \E i \in R : \E e \in P[<<lang, i>>] : t = <<<<lang, i>>, e>>
  BY FamilyMember
<1>2. ASSUME NEW i \in R, NEW e \in P[<<lang, i>>]
      PROVE  <<<<lang, i>>, e>> \in Family(P, D) /\ <<i, place[<<i, e>>]>> \in Family(Q, R)
  <2>1. <<lang, i>> \in D /\ place[<<i, e>>] \in Q[i]
    OBVIOUS
  <2> QED
    BY <2>1, FamilyMember
<1>3. f \in [Family(P, D) -> Family(Q, R)]
  <2>1. ASSUME NEW t \in Family(P, D)
        PROVE  <<t[1][2], place[<<t[1][2], t[2]>>]>> \in Family(Q, R)
    <3>1. PICK i \in R : \E e \in P[<<lang, i>>] : t = <<<<lang, i>>, e>>
      BY <1>1
    <3>2. PICK e \in P[<<lang, i>>] : t = <<<<lang, i>>, e>>
      BY <3>1
    <3> QED
      BY <1>2, <3>2
  <2> QED
    BY <2>1
<1>4. ASSUME NEW s \in Family(P, D), NEW t \in Family(P, D), f[s] = f[t]
      PROVE  s = t
  <2>1. PICK i \in R : \E e \in P[<<lang, i>>] : s = <<<<lang, i>>, e>>
    BY <1>1
  <2>2. PICK e \in P[<<lang, i>>] : s = <<<<lang, i>>, e>>
    BY <2>1
  <2>3. PICK k \in R : \E d \in P[<<lang, k>>] : t = <<<<lang, k>>, d>>
    BY <1>1
  <2>4. PICK d \in P[<<lang, k>>] : t = <<<<lang, k>>, d>>
    BY <2>3
  <2>5. <<i, place[<<i, e>>]>> = <<k, place[<<k, d>>]>>
    BY <1>4, <2>2, <2>4
  <2> QED
    BY <2>2, <2>4, <2>5
<1>5. ASSUME NEW z \in Family(Q, R)
      PROVE  \E t \in Family(P, D) : f[t] = z
  <2>1. PICK i \in R : \E q \in Q[i] : z = <<i, q>>
    BY FamilyMember
  <2>2. PICK e \in P[<<lang, i>>] : z = <<i, place[<<i, e>>]>>
    BY <2>1
  <2>3. <<<<lang, i>>, e>> \in Family(P, D) /\ f[<<<<lang, i>>, e>>] = z
    BY <1>2, <2>2
  <2> QED
    BY <2>3
<1> HIDE DEF f
<1>6. Matches(f, Family(P, D), Family(Q, R))
  BY <1>3, <1>4, <1>5 DEF Matches
<1> QED
  BY <1>6, SameNumber

\* Some rows of a language are finitely many rows.
LEMMA RowsOfLanguage ==
  ASSUME NEW lang \in LanguageSet, NEW R \in SUBSET DOMAIN RowsOf[lang]
  PROVE  /\ {lang} \X R \in SUBSET AllRows
         /\ IsFiniteSet(R) /\ IsFiniteSet({lang} \X R)
<1>1. RowsOf[lang] \in Seq([tokens : Seq(Nat), tags : Seq(Tag)])
  BY RowsAssumption
<1>2. DOMAIN RowsOf[lang] = 1 .. Len(RowsOf[lang]) /\ Len(RowsOf[lang]) \in Nat
  <2> DEFINE T == [tokens : Seq(Nat), tags : Seq(Tag)]
  <2> HIDE DEF T
  <2> QED BY <1>1 DEF T
<1>3. IsFiniteSet(R)
  BY <1>2, UpTo, FS_Subset
<1>4. IsFiniteSet({lang} \X R)
  BY <1>3, FS_Singleton, FS_Product
<1> QED
  BY <1>3, <1>4 DEF AllRows

\* A report has pairs of numbers for spans.
LEMMA SaidType ==
  ASSUME NEW j \in Jobs, NEW m \in DOMAIN BatchSize, NEW x \in AllRows
  PROVE  Said(j, m, x) \subseteq Int \X Int
<1>1. j.commit \in Commits
  BY DEF Jobs
<1>2. x[1] \in LanguageSet /\ x[2] \in DOMAIN RowsOf[x[1]]
  BY RowsAreGood
<1>3. \A e \in Raw[j.commit][m][x[1]][x[2]] : e.span \in (Int \X Int) \cup {NoSpan}
  BY <1>1, <1>2, RowsAssumption
<1> QED
  BY <1>3 DEF Said, PredictedSpans

\* An empty sentence has no length or the length 0: no span fits in it.
LEMMA InvalidSame ==
  ASSUME NEW row, GoodRow(row), NEW s \in Int \X Int
  PROVE  Invalid(s, ExampleFromRow(row).length) <=> Invalid(s, LengthOf(row))
<1>1. CASE row.tokens # <<>>
  BY <1>1, RowExample
<1>2. CASE row.tokens = <<>>
  <2>1. ExampleFromRow(row).length = 0
    BY <1>2, RowExample
  <2>2. <<>> \in Seq(Nat) /\ Len(<<>>) + 1 = 1
    OBVIOUS
  <2>3. StartOf(<<>>, 1) = 0
    BY <2>2, Starts
  <2>4. LengthOf(row) = 0 - 1
    BY <1>2, <2>2, <2>3 DEF LengthOf
  <2> QED
    BY <2>1, <2>4 DEF Invalid
<1> QED
  BY <1>1, <1>2

Plus(n, c) ==
  [tp |-> n.tp + c.tp, fp |-> n.fp + c.fp, fn |-> n.fn + c.fn,
   sentences |-> n.sentences + c.sentences, malformed |-> n.malformed + c.malformed,
   invalid |-> n.invalid + c.invalid]

Adds(j, m, lang, R, n) ==
  AddCounts(n, Scored(m, j.commit, lang, R)) = Plus(n, CountsOf(j, m, {lang} \X R))

\* Counts.add on a batch counts the parts of its rows.
LEMMA BatchCounts ==
  ASSUME NEW j \in Jobs, NEW m \in DOMAIN BatchSize, NEW lang \in LanguageSet,
         NEW R \in SUBSET DOMAIN RowsOf[lang], NEW n
  PROVE  Adds(j, m, lang, R, n)
<1> DEFINE B == {lang} \X R
<1> DEFINE said(i) == PredictedSpans(m, Raw[j.commit][m][lang][i])
<1> DEFINE Sentence(i) == [index |-> i, example |-> Example(lang, i), predicted |-> said(i)]
<1> DEFINE sentences == Scored(m, j.commit, lang, R)
<1> DEFINE c == CountsOf(j, m, B)
<1>1. sentences = {Sentence(i) : i \in R}
  BY DEF Scored
<1>2. B \in SUBSET AllRows /\ IsFiniteSet(B) /\ IsFiniteSet(R)
  BY RowsOfLanguage
<1>3. \A field \in Fields : /\ IsFiniteSet(Family(Part(j, m, B, field), B))
                            /\ c[field] = Cardinality(Family(Part(j, m, B, field), B))
  BY <1>2, FamilyOfParts
<1>4. ASSUME NEW i \in R
      PROVE  /\ <<lang, i>> \in B /\ RowAt(<<lang, i>>) = RowsOf[lang][i]
             /\ GoodRow(RowsOf[lang][i])
             /\ Said(j, m, <<lang, i>>) = said(i)
             /\ said(i) \subseteq Int \X Int
             /\ Example(lang, i).gold = GoldSpans(RowsOf[lang][i])
             /\ Example(lang, i).malformed =
                  {Place(RowsOf[lang][i], k) : k \in GoldOrphans(RowsOf[lang][i])}
             /\ Example(lang, i).length = ExampleFromRow(RowsOf[lang][i]).length
  <2>1. /\ <<lang, i>> \in B /\ <<lang, i>> \in AllRows
        /\ RowAt(<<lang, i>>) = RowsOf[lang][i]
        /\ Said(j, m, <<lang, i>>) = said(i)
    BY <1>2 DEF RowAt, Said
  <2>2. GoodRow(RowsOf[lang][i]) /\ Example(lang, i) = ExampleFromRow(RowsOf[lang][i])
    BY GoodRows, ExampleOf
  <2>3. said(i) \subseteq Int \X Int
    BY <2>1, SaidType
  <2> QED
    BY <2>1, <2>2, <2>3, RowExample
<1>5. ASSUME NEW field \in {"tp", "fp", "fn", "invalid"}, NEW Q,
             \A i \in R : Q[i] = Parts(j, m, <<lang, i>>)[field]
      PROVE  Cardinality(Family(Q, R)) = c[field]
  <2> DEFINE P == Part(j, m, B, field)
  <2> DEFINE place == [t \in R \X UNION {Q[i] : i \in R} |-> t[2]]
  <2>1. \A i \in R : P[<<lang, i>>] = Q[i]
    BY <1>4, <1>5 DEF Part
  <2>2. \A i \in R : \A e \in Q[i] : place[<<i, e>>] = e
    OBVIOUS
  <2>3. field \in Fields
    BY DEF Fields
  <2>4. IsFiniteSet(Family(P, B)) /\ c[field] = Cardinality(Family(P, B))
    BY <1>3, <2>3
  <2> HIDE DEF P, place, c
  <2>5. ASSUME NEW i \in R
        PROVE  /\ Q[i] = {place[<<i, e>>] : e \in P[<<lang, i>>]}
               /\ \A d, e \in P[<<lang, i>>] : place[<<i, d>>] = place[<<i, e>>] => d = e
    <3>1. P[<<lang, i>>] = Q[i]
      BY <2>1
    <3>2. \A e \in Q[i] : place[<<i, e>>] = e
      BY <2>2
    <3>3. Q[i] = {place[<<i, e>>] : e \in Q[i]}
      BY <3>2
    <3> QED
      BY <3>1, <3>2, <3>3
  <2>7. Renamed(P, Q, lang, R, place)
    BY <2>5 DEF Renamed
  <2>8. Cardinality(Family(Q, R)) = Cardinality(Family(P, B))
    BY <2>4, <2>7, Reindexed
  <2> QED
    BY <2>4, <2>8
<1>6. Over(sentences, LAMBDA t : t.example.gold \cap t.predicted) = c["tp"]
  <2> DEFINE Q == [i \in R |-> GoldSpans(RowsOf[lang][i]) \cap said(i)]
  <2>1. \A i \in R : Q[i] = Parts(j, m, <<lang, i>>)["tp"]
    BY <1>4 DEF Parts
  <2>2. UNION {{t.index} \X (t.example.gold \cap t.predicted) : t \in {Sentence(i) : i \in R}} =
          Family(Q, R)
    <3>1. \A i \in R : Sentence(i).index = i /\ (Sentence(i).example.gold \cap Sentence(i).predicted) = Q[i]
      BY <1>4
    <3> HIDE DEF Q, Sentence
    <3> QED
      BY <3>1 DEF Family
  <2>3. Cardinality(Family(Q, R)) = c["tp"]
    <3> HIDE DEF Q, c
    <3> QED BY <1>5, <2>1
  <2> QED
    BY <1>1, <2>2, <2>3 DEF Over
<1>7. Over(sentences, LAMBDA t : t.predicted \ t.example.gold) = c["fp"]
  <2> DEFINE Q == [i \in R |-> said(i) \ GoldSpans(RowsOf[lang][i])]
  <2>1. \A i \in R : Q[i] = Parts(j, m, <<lang, i>>)["fp"]
    BY <1>4 DEF Parts
  <2>2. UNION {{t.index} \X (t.predicted \ t.example.gold) : t \in {Sentence(i) : i \in R}} =
          Family(Q, R)
    <3>1. \A i \in R : Sentence(i).index = i /\ (Sentence(i).predicted \ Sentence(i).example.gold) = Q[i]
      BY <1>4
    <3> HIDE DEF Q, Sentence
    <3> QED
      BY <3>1 DEF Family
  <2>3. Cardinality(Family(Q, R)) = c["fp"]
    <3> HIDE DEF Q, c
    <3> QED BY <1>5, <2>1
  <2> QED
    BY <1>1, <2>2, <2>3 DEF Over
<1>8. Over(sentences, LAMBDA t : t.example.gold \ t.predicted) = c["fn"]
  <2> DEFINE Q == [i \in R |-> GoldSpans(RowsOf[lang][i]) \ said(i)]
  <2>1. \A i \in R : Q[i] = Parts(j, m, <<lang, i>>)["fn"]
    BY <1>4 DEF Parts
  <2>2. UNION {{t.index} \X (t.example.gold \ t.predicted) : t \in {Sentence(i) : i \in R}} =
          Family(Q, R)
    <3>1. \A i \in R : Sentence(i).index = i /\ (Sentence(i).example.gold \ Sentence(i).predicted) = Q[i]
      BY <1>4
    <3> HIDE DEF Q, Sentence
    <3> QED
      BY <3>1 DEF Family
  <2>3. Cardinality(Family(Q, R)) = c["fn"]
    <3> HIDE DEF Q, c
    <3> QED BY <1>5, <2>1
  <2> QED
    BY <1>1, <2>2, <2>3 DEF Over
<1>9. Over(sentences, LAMBDA t : {s \in t.predicted : Invalid(s, t.example.length)}) = c["invalid"]
  <2> DEFINE Q == [i \in R |-> {s \in said(i) : Invalid(s, LengthOf(RowsOf[lang][i]))}]
  <2>1. \A i \in R : Q[i] = Parts(j, m, <<lang, i>>)["invalid"]
    BY <1>4 DEF Parts
  <2>2. UNION {{t.index} \X {s \in t.predicted : Invalid(s, t.example.length)}
                 : t \in {Sentence(i) : i \in R}} = Family(Q, R)
    <3>1. ASSUME NEW i \in R
          PROVE  {s \in said(i) : Invalid(s, Example(lang, i).length)} = Q[i]
      BY <1>4, InvalidSame
    <3>2. \A i \in R : /\ Sentence(i).index = i
                      /\ {s \in Sentence(i).predicted : Invalid(s, Sentence(i).example.length)} = Q[i]
      BY <3>1
    <3> HIDE DEF Q, Sentence
    <3> QED
      BY <3>2 DEF Family
  <2>3. Cardinality(Family(Q, R)) = c["invalid"]
    <3> HIDE DEF Q, c
    <3> QED BY <1>5, <2>1
  <2> QED
    BY <1>1, <2>2, <2>3 DEF Over
<1>10. Over(sentences, LAMBDA t : t.example.malformed) = c["malformed"]
  <2> DEFINE P == Part(j, m, B, "malformed")
  <2> DEFINE place == [t \in R \X Nat |-> Place(RowsOf[lang][t[1]], t[2])]
  <2> DEFINE Q == [i \in R |-> {Place(RowsOf[lang][i], k) : k \in GoldOrphans(RowsOf[lang][i])}]
  <2>1. \A i \in R : P[<<lang, i>>] = GoldOrphans(RowsOf[lang][i])
    BY <1>4 DEF Part, Parts
  <2>2. ASSUME NEW i \in R, NEW k \in GoldOrphans(RowsOf[lang][i])
        PROVE  k \in DOMAIN RowsOf[lang][i].tags /\ place[<<i, k>>] = Place(RowsOf[lang][i], k)
    <3>1. k \in DOMAIN RowsOf[lang][i].tags
      BY DEF GoldOrphans
    <3>2. k \in Nat
      <4>1. GoodRow(RowsOf[lang][i])
        BY <1>4
      <4> DEFINE tags == RowsOf[lang][i].tags
      <4>2. tags \in Seq(Tag) /\ k \in DOMAIN tags
        BY <3>1, <4>1 DEF GoodRow
      <4> HIDE DEF tags
      <4> QED BY <4>2
    <3> QED
      BY <3>1, <3>2
  <2>3. UNION {{t.index} \X t.example.malformed : t \in {Sentence(i) : i \in R}} = Family(Q, R)
    <3>1. \A i \in R : Sentence(i).index = i /\ Sentence(i).example.malformed = Q[i]
      BY <1>4
    <3> HIDE DEF Q, Sentence
    <3> QED
      BY <3>1 DEF Family
  <2>4. ASSUME NEW i \in R
        PROVE  Q[i] = {place[<<i, e>>] : e \in P[<<lang, i>>]}
    <3>1. /\ P[<<lang, i>>] = GoldOrphans(RowsOf[lang][i])
          /\ Q[i] = {Place(RowsOf[lang][i], k) : k \in GoldOrphans(RowsOf[lang][i])}
      BY <2>1
    <3>2. \A k \in GoldOrphans(RowsOf[lang][i]) : place[<<i, k>>] = Place(RowsOf[lang][i], k)
      BY <2>2
    <3> HIDE DEF P, place, Q
    <3> QED
      BY <3>1, <3>2
  <2>5. ASSUME NEW i \in R, NEW d \in P[<<lang, i>>], NEW e \in P[<<lang, i>>],
               place[<<i, d>>] = place[<<i, e>>]
        PROVE  d = e
    <3> HIDE DEF P, place
    <3>1. Place(RowsOf[lang][i], d) = Place(RowsOf[lang][i], e)
      BY <2>1, <2>2, <2>5
    <3> QED
      <4>1. d \in DOMAIN RowsOf[lang][i].tags /\ e \in DOMAIN RowsOf[lang][i].tags
        BY <2>1, <2>2
      <4>2. GoodRow(RowsOf[lang][i])
        BY <1>4
      <4> HIDE DEF c, B, sentences
      <4> QED
        BY <3>1, <4>1, <4>2, PlacesDiffer
  <2>6. IsFiniteSet(Family(P, B)) /\ c["malformed"] = Cardinality(Family(P, B))
    BY <1>3 DEF Fields
  <2> HIDE DEF P, place, Q, c
  <2>7. Renamed(P, Q, lang, R, place)
    BY <2>4, <2>5 DEF Renamed
  <2>8. Cardinality(Family(Q, R)) = Cardinality(Family(P, B))
    BY <2>6, <2>7, Reindexed
  <2> QED
    BY <1>1, <2>3, <2>6, <2>8 DEF Over
<1>11. Cardinality(sentences) = c["sentences"]
  <2> DEFINE P == Part(j, m, B, "sentences")
  <2> DEFINE place == [t \in R \X {0} |-> 0]
  <2> DEFINE Q == [i \in R |-> {0}]
  <2>1. \A i \in R : P[<<lang, i>>] = {0}
    BY <1>4 DEF Part, Parts
  <2>2. \A i \in R : Q[i] = {place[<<i, e>>] : e \in P[<<lang, i>>]}
    BY <2>1
  <2>3. \A i \in R : \A d, e \in P[<<lang, i>>] : place[<<i, d>>] = place[<<i, e>>] => d = e
    BY <2>1
  <2>4. IsFiniteSet(Family(P, B)) /\ c["sentences"] = Cardinality(Family(P, B))
    BY <1>3 DEF Fields
  <2>5. Cardinality(Family(Q, R)) = Cardinality(R)
    <3> DEFINE f == [i \in R |-> <<i, 0>>]
    <3>1. f \in [R -> Family(Q, R)] /\ \A z \in Family(Q, R) : \E i \in R : f[i] = z
      BY DEF Family
    <3>2. \A i, k \in R : f[i] = f[k] => i = k
      OBVIOUS
    <3> HIDE DEF f, Q
    <3>3. Matches(f, R, Family(Q, R))
      BY <3>1, <3>2 DEF Matches
    <3> QED
      BY <1>2, <3>3, SameNumber
  <2>6. Cardinality(sentences) = Cardinality(R)
    <3> DEFINE f == [i \in R |-> Sentence(i)]
    <3>1. f \in [R -> sentences] /\ \A z \in sentences : \E i \in R : f[i] = z
      BY <1>1
    <3>2. \A i, k \in R : f[i] = f[k] => i = k
      OBVIOUS
    <3> HIDE DEF f, sentences
    <3>3. Matches(f, R, sentences)
      BY <3>1, <3>2 DEF Matches
    <3> QED
      BY <1>2, <3>3, SameNumber
  <2> HIDE DEF P, place, Q, c
  <2>7. Renamed(P, Q, lang, R, place)
    BY <2>2, <2>3 DEF Renamed
  <2>8. Cardinality(Family(Q, R)) = Cardinality(Family(P, B))
    BY <2>4, <2>7, Reindexed
  <2> QED
    BY <2>4, <2>5, <2>6, <2>8
<1> HIDE DEF sentences, c
<1>12. AddCounts(n, sentences) =
         [tp |-> n.tp + c.tp, fp |-> n.fp + c.fp, fn |-> n.fn + c.fn,
          sentences |-> n.sentences + c.sentences,
          malformed |-> n.malformed + c.malformed, invalid |-> n.invalid + c.invalid]
  BY <1>6, <1>7, <1>8, <1>9, <1>10, <1>11 DEF AddCounts
<1> QED
  BY <1>12 DEF Adds, Plus, sentences, c, B


RowPairs(j, langs) == UNION {{lang} \X (1 .. ExampleCount(j.command, lang)) : lang \in langs}

\* There are languages, and finitely many.
LEMMA LanguagesFinite == IsFiniteSet(LanguageSet) /\ LanguageSet # {}
<1>1. Languages \in Seq(LanguageSet) /\ Languages # <<>>
  BY RowsAssumption
<1>2. DOMAIN Languages = 1 .. Len(Languages) /\ Len(Languages) \in Nat \ {0}
  BY <1>1
<1>3. IsFiniteSet(DOMAIN Languages)
  BY <1>2, UpTo
<1>4. 1 \in DOMAIN Languages
  BY <1>2
<1> QED
  BY <1>3, <1>4, ImageFinite DEF LanguageSet

\* A command takes rows that are there.
LEMMA LimitType ==
  ASSUME NEW j \in Jobs, NEW lang \in LanguageSet
  PROVE  /\ ExampleCount(j.command, lang) \in Nat
         /\ ExampleCount(j.command, lang) <= Len(RowsOf[lang])
         /\ Len(RowsOf[lang]) \in Nat
         /\ 1 .. ExampleCount(j.command, lang) \in SUBSET DOMAIN RowsOf[lang]
<1>1. j.command \in Commands
  BY DEF Jobs
<1>2. j.command.limit \in Nat \ {0}
  BY <1>1, CommandsAssumption
<1>3. RowsOf[lang] \in Seq([tokens : Seq(Nat), tags : Seq(Tag)])
  BY RowsAssumption
<1>4. DOMAIN RowsOf[lang] = 1 .. Len(RowsOf[lang]) /\ Len(RowsOf[lang]) \in Nat
  <2> DEFINE T == [tokens : Seq(Nat), tags : Seq(Tag)]
  <2> HIDE DEF T
  <2> QED BY <1>3 DEF T
<1> QED
  BY <1>2, <1>4 DEF ExampleCount, Smaller

\* The rows a command takes are finitely many.
LEMMA RowPairsType ==
  ASSUME NEW j \in Jobs, NEW langs \in SUBSET LanguageSet
  PROVE  RowPairs(j, langs) \in SUBSET AllRows /\ IsFiniteSet(RowPairs(j, langs))
<1>1. \A lang \in langs : {lang} \X (1 .. ExampleCount(j.command, lang)) \subseteq AllRows
  BY LimitType, RowsOfLanguage
<1> DEFINE P == [lang \in langs |-> 1 .. ExampleCount(j.command, lang)]
<1>2. RowPairs(j, langs) = Family(P, langs)
  BY DEF RowPairs, Family
<1>3. \A lang \in langs : IsFiniteSet(P[lang])
  BY LimitType, UpTo
<1>4. IsFiniteSet(langs)
  BY LanguagesFinite, FS_Subset
<1> HIDE DEF P
<1>5. IsFiniteSet(Family(P, langs))
  BY <1>3, <1>4, FamilyFinite
<1>6. RowPairs(j, langs) \subseteq AllRows
  BY <1>1 DEF RowPairs
<1> QED
  BY <1>2, <1>5, <1>6

\* FreshCounts counts the parts of the rows.
LEMMA FreshIsCounts ==
  ASSUME NEW j \in Jobs, NEW m \in DOMAIN BatchSize, NEW langs \in SUBSET LanguageSet
  PROVE  FreshCounts(j, m, langs) = CountsOf(j, m, RowPairs(j, langs))
<1> DEFINE rows == RowPairs(j, langs)
<1> DEFINE gold == UNION {{x} \X GoldSpans(RowsOf[x[1]][x[2]]) : x \in rows}
<1> DEFINE found == UNION {{x} \X PredictedSpans(m, Raw[j.commit][m][x[1]][x[2]]) : x \in rows}
<1> DEFINE orphans == UNION {{x} \X GoldOrphans(RowsOf[x[1]][x[2]]) : x \in rows}
<1> DEFINE c == CountsOf(j, m, rows)
<1> DEFINE all(field) == Family(Part(j, m, rows, field), rows)
<1>1. rows \in SUBSET AllRows /\ IsFiniteSet(rows)
  BY RowPairsType
<1>2. \A field \in Fields : c[field] = Cardinality(all(field))
  BY DEF CountsOf
<1>3. FreshCounts(j, m, langs) =
        [tp |-> Cardinality(gold \cap found), fp |-> Cardinality(found \ gold),
         fn |-> Cardinality(gold \ found), sentences |-> Cardinality(rows),
         malformed |-> Cardinality(orphans),
         invalid |-> Cardinality({f \in found :
                        Invalid(f[2], LengthOf(RowsOf[f[1][1]][f[1][2]]))})]
  BY DEF FreshCounts, LengthOf, RowPairs
<1> HIDE DEF rows, c
<1>4. gold \cap found = all("tp")
  BY DEF Family, Part, Parts, Said, RowAt
<1>5. found \ gold = all("fp")
  BY DEF Family, Part, Parts, Said, RowAt
<1>6. gold \ found = all("fn")
  BY DEF Family, Part, Parts, Said, RowAt
<1>7. orphans = all("malformed")
  BY DEF Family, Part, Parts, Said, RowAt
<1>8. {f \in found : Invalid(f[2], LengthOf(RowsOf[f[1][1]][f[1][2]]))} = all("invalid")
  BY DEF Family, Part, Parts, Said, RowAt
<1>9. Cardinality(rows) = Cardinality(all("sentences"))
  <2> DEFINE f == [x \in rows |-> <<x, 0>>]
  <2>1. \A t : t \in all("sentences") <=> \E x \in rows : t = <<x, 0>>
    BY DEF Family, Part, Parts
  <2>2. f \in [rows -> all("sentences")] /\ \A z \in all("sentences") : \E x \in rows : f[x] = z
    BY <2>1
  <2>3. \A x, y \in rows : f[x] = f[y] => x = y
    OBVIOUS
  <2> HIDE DEF f, all
  <2>4. Matches(f, rows, all("sentences"))
    BY <2>2, <2>3 DEF Matches
  <2> QED
    BY <1>1, <2>4, SameNumber
<1> HIDE DEF gold, found, orphans, all
<1>10. \A field \in Fields : FreshCounts(j, m, langs)[field] = c[field]
  <2>1. /\ c["tp"] = Cardinality(all("tp")) /\ c["fp"] = Cardinality(all("fp"))
        /\ c["fn"] = Cardinality(all("fn")) /\ c["sentences"] = Cardinality(all("sentences"))
        /\ c["malformed"] = Cardinality(all("malformed"))
        /\ c["invalid"] = Cardinality(all("invalid"))
    BY <1>2 DEF Fields
  <2>2. /\ FreshCounts(j, m, langs)["tp"] = c["tp"] /\ FreshCounts(j, m, langs)["fp"] = c["fp"]
        /\ FreshCounts(j, m, langs)["fn"] = c["fn"]
        /\ FreshCounts(j, m, langs)["sentences"] = c["sentences"]
        /\ FreshCounts(j, m, langs)["malformed"] = c["malformed"]
        /\ FreshCounts(j, m, langs)["invalid"] = c["invalid"]
    <3> DEFINE fresh == FreshCounts(j, m, langs)
    <3>1. fresh["tp"] = Cardinality(gold \cap found) /\ fresh["fp"] = Cardinality(found \ gold)
      BY <1>3
    <3>2. fresh["fn"] = Cardinality(gold \ found) /\ fresh["sentences"] = Cardinality(rows)
      BY <1>3
    <3>3. fresh["malformed"] = Cardinality(orphans)
      BY <1>3
    <3>4. fresh["invalid"] = Cardinality({f \in found :
                        Invalid(f[2], LengthOf(RowsOf[f[1][1]][f[1][2]]))})
      BY <1>3
    <3> HIDE DEF fresh
    <3>5. fresh["tp"] = c["tp"] /\ fresh["fp"] = c["fp"] /\ fresh["fn"] = c["fn"]
      BY <1>4, <1>5, <1>6, <2>1, <3>1, <3>2
    <3>6. fresh["sentences"] = c["sentences"] /\ fresh["malformed"] = c["malformed"]
      BY <1>7, <1>9, <2>1, <3>2, <3>3
    <3>7. fresh["invalid"] = c["invalid"]
      BY <1>8, <2>1, <3>4
    <3> QED
      BY <3>5, <3>6, <3>7 DEF fresh
  <2> QED
    BY <2>2 DEF Fields
<1>11. FreshCounts(j, m, langs) = [field \in Fields |-> FreshCounts(j, m, langs)[field]]
  BY <1>3 DEF Fields
<1>12. c = [field \in Fields |-> c[field]]
  BY DEF c, CountsOf
<1> QED
  BY <1>10, <1>11, <1>12 DEF c, rows

\* The counts of some sets of rows that share none add up.
LEMMA SumOfCounts ==
  ASSUME NEW j \in Jobs, NEW m \in DOMAIN BatchSize, NEW field \in Fields,
         NEW D, IsFiniteSet(D), NEW R,
         \A d \in D : R[d] \in SUBSET AllRows /\ IsFiniteSet(R[d]),
         \A d, e \in D : d # e => R[d] \cap R[e] = {}
  PROVE  Sum([d \in D |-> CountsOf(j, m, R[d])[field]]) =
           CountsOf(j, m, UNION {R[d] : d \in D})[field]
<1> DEFINE S == UNION {R[d] : d \in D}
<1> DEFINE P == Part(j, m, S, field)
<1> DEFINE Q == [d \in D |-> Family(P, R[d])]
<1> DEFINE f == [d \in D |-> CountsOf(j, m, R[d])[field]]
<1>1. S \in SUBSET AllRows
  OBVIOUS
<1>2. IsFiniteSet(S)
  <2>1. IsFiniteSet({R[d] : d \in D})
    BY ImageFinite
  <2>2. \A T \in {R[d] : d \in D} : IsFiniteSet(T)
    OBVIOUS
  <2> QED
    BY <2>1, <2>2, FS_UNION
<1>3. ASSUME NEW d \in D
      PROVE  /\ IsFiniteSet(Q[d]) /\ Cardinality(Q[d]) = f[d] /\ f[d] \in Nat
  <2>1. Family(P, R[d]) = Family(Part(j, m, R[d], field), R[d])
    BY DEF Family, Part
  <2>2. /\ IsFiniteSet(Family(Part(j, m, R[d], field), R[d]))
        /\ CountsOf(j, m, R[d])[field] = Cardinality(Family(Part(j, m, R[d], field), R[d]))
        /\ CountsOf(j, m, R[d])[field] \in Nat
    BY FamilyOfParts
  <2> QED
    BY <2>1, <2>2
<1>4. f \in [D -> Nat]
  BY <1>3
<1>5. IsFiniteSet(Family(P, S)) /\ CountsOf(j, m, S)[field] = Cardinality(Family(P, S))
  BY <1>1, <1>2, FamilyOfParts
<1>6. \A d \in D : Q[d] = Family(P, R[d])
  OBVIOUS
<1> HIDE DEF S, P, Q, f
<1>7. FoldFunction(+, 0, f) = Cardinality(Family(Q, D)) /\ IsFiniteSet(Family(Q, D))
  <2>1. \A d \in D : IsFiniteSet(Q[d]) /\ Cardinality(Q[d]) = f[d]
    BY <1>3
  <2>2. FoldFunction(+, 0, f) = Cardinality(Family(Q, D))
    BY <1>4, <2>1, SumCounts
  <2>3. IsFiniteSet(Family(Q, D))
    BY <2>1, FamilyFinite
  <2> QED
    BY <2>2, <2>3
<1>8. Cardinality(Family(P, S)) = Cardinality(Family(Q, D))
  <2> DEFINE g == [t \in Family(Q, D) |-> t[2]]
  <2>1. \A t : t \in Family(Q, D) <=> \E d \in D : \E e \in Family(P, R[d]) : t = <<d, e>>
    BY <1>6, FamilyMember
  <2>2. ASSUME NEW d \in D
        PROVE  \A e : e \in Family(P, R[d]) <=> e \in Family(P, S) /\ e[1] \in R[d]
    <3>1. \A e : e \in Family(P, S) <=> \E x \in S : \E y \in P[x] : e = <<x, y>>
      BY FamilyMember
    <3>2. \A e : e \in Family(P, R[d]) <=> \E x \in R[d] : \E y \in P[x] : e = <<x, y>>
      BY FamilyMember
    <3>3. R[d] \subseteq S
      BY DEF S
    <3> QED
      BY <3>1, <3>2, <3>3
  <2>3. g \in [Family(Q, D) -> Family(P, S)]
    <3>1. ASSUME NEW t \in Family(Q, D)
          PROVE  t[2] \in Family(P, S)
      <4>1. PICK d \in D : \E e \in Family(P, R[d]) : t = <<d, e>>
        BY <2>1
      <4> QED
        BY <2>2, <4>1
    <3> QED
      BY <3>1
  <2>4. ASSUME NEW s \in Family(Q, D), NEW t \in Family(Q, D), g[s] = g[t]
        PROVE  s = t
    <3>1. PICK d \in D : \E e \in Family(P, R[d]) : s = <<d, e>>
      BY <2>1
    <3>2. PICK d2 \in D : \E e \in Family(P, R[d2]) : t = <<d2, e>>
      BY <2>1
    <3>3. s[2] = t[2] /\ s = <<d, s[2]>> /\ t = <<d2, t[2]>>
      BY <2>4, <3>1, <3>2
    <3>4. s[2][1] \in R[d] /\ t[2][1] \in R[d2]
      BY <2>2, <3>1, <3>2
    <3>5. d = d2
      BY <3>3, <3>4
    <3> QED
      BY <3>3, <3>5
  <2>5. ASSUME NEW z \in Family(P, S)
        PROVE  \E t \in Family(Q, D) : g[t] = z
    <3>1. PICK x \in S : \E y \in P[x] : z = <<x, y>>
      BY FamilyMember
    <3>2. PICK d \in D : x \in R[d]
      BY DEF S
    <3>3. z \in Family(P, R[d])
      BY <2>2, <3>1, <3>2
    <3>4. <<d, z>> \in Family(Q, D)
      BY <2>1, <3>3
    <3> QED
      BY <3>4
  <2> HIDE DEF g
  <2>6. Matches(g, Family(Q, D), Family(P, S))
    BY <2>3, <2>4, <2>5 DEF Matches
  <2> QED
    BY <1>7, <2>6, SameNumber
<1>9. Sum(f) = CountsOf(j, m, S)[field]
  BY <1>5, <1>7, <1>8 DEF Sum
<1> QED
  BY <1>9 DEF f, S

\* The totals over some languages are the counts of all their sentences.
THEOREM TotalIsFresh ==
  ASSUME NEW j \in Jobs, NEW m \in DOMAIN BatchSize, NEW langs \in SUBSET LanguageSet
  PROVE  [field \in DOMAIN NoCounts |-> Sum([lang \in langs |-> FreshCounts(j, m, {lang})[field]])]
           = FreshCounts(j, m, langs)
<1> DEFINE R == [lang \in langs |-> RowPairs(j, {lang})]
<1>1. \A lang \in langs : R[lang] = {lang} \X (1 .. ExampleCount(j.command, lang))
  BY DEF RowPairs
<1>2. UNION {R[lang] : lang \in langs} = RowPairs(j, langs)
  BY <1>1 DEF RowPairs
<1>3. \A lang \in langs : R[lang] \in SUBSET AllRows /\ IsFiniteSet(R[lang])
  BY RowPairsType
<1>4. \A d, e \in langs : d # e => R[d] \cap R[e] = {}
  BY <1>1
<1>5. IsFiniteSet(langs)
  BY LanguagesFinite, FS_Subset
<1>6. ASSUME NEW lang \in langs
      PROVE  FreshCounts(j, m, {lang}) = CountsOf(j, m, R[lang])
  BY FreshIsCounts
<1> HIDE DEF R
<1>7. ASSUME NEW field \in Fields
      PROVE  Sum([lang \in langs |-> FreshCounts(j, m, {lang})[field]]) =
               FreshCounts(j, m, langs)[field]
  <2>1. Sum([lang \in langs |-> CountsOf(j, m, R[lang])[field]]) =
          CountsOf(j, m, UNION {R[lang] : lang \in langs})[field]
    BY <1>3, <1>4, <1>5, SumOfCounts
  <2>2. [lang \in langs |-> FreshCounts(j, m, {lang})[field]] =
          [lang \in langs |-> CountsOf(j, m, R[lang])[field]]
    BY <1>6
  <2>3. FreshCounts(j, m, langs) = CountsOf(j, m, UNION {R[lang] : lang \in langs})
    BY <1>2, FreshIsCounts
  <2> QED
    BY <2>1, <2>2, <2>3
<1>8. DOMAIN NoCounts = Fields
  BY DEF NoCounts, Fields
<1>9. FreshCounts(j, m, langs) = [field \in Fields |-> FreshCounts(j, m, langs)[field]]
  <2>1. FreshCounts(j, m, langs) = CountsOf(j, m, RowPairs(j, langs))
    BY FreshIsCounts
  <2> QED
    BY <2>1 DEF CountsOf
<1> QED
  BY <1>7, <1>8, <1>9

-----------------------------------------------------------------------------
(*****************************************************************************)
(* The invariants.  What is computed is right (DataInv) wherever two runs    *)
(* write at once: one rename may take another run's file along, so a run holds*)
(* what its own job and position say, and a file what its name says.  That a *)
(* directory can be resumed (DirectoryInv) depends on who is at work in it.  *)
(*****************************************************************************)

Steps == {"idle", "checkpoints", "open", "close", "replace", "model", "language", "score",
          "json", "json_close", "markdown", "markdown_close"}
Writing == {"open", "close", "replace"}
Reporting == {"json", "json_close", "markdown", "markdown_close"}
Closing == {"close", "json_close", "markdown_close"}
Nothing == [path |-> Absent, temporary |-> Absent]

Values == {Absent, Empty, Mixed} \cup Keys \cup Results
Contents == [path : Values, temporary : Values]
Files == [name : Names \cup {None}, value : Values, at : {"closed", "temporary", "path", "gone"}]
Unmixed == {Absent, Empty} \cup FreshReports
Written == Unmixed \cup {Mixed}

RunnerTypes ==
  /\ pc \in [Runners -> Steps]
  /\ job \in [Runners -> Jobs \cup {None}]
  /\ model \in [Runners -> Nat] /\ language \in [Runners -> Nat]
  /\ offset \in [Runners -> Nat]
  /\ counts = [r \in Runners |-> counts[r]]
  /\ results = [r \in Runners |-> results[r]]
  /\ file \in [Runners -> Files]
DiskTypes == disk \in [Keys -> [Names -> Contents]]
OtherTypes ==
  /\ tree \in Commits \cup {Dirty}
  /\ report \in [json : Written, markdown : Written]
  /\ reported \in SUBSET Jobs /\ marred \in SUBSET Keys
Types == RunnerTypes /\ DiskTypes /\ OtherTypes

\* What a file may hold: nothing, less than all of it, what its name promises, or,
\* but for a manifest, the bytes of two writers.
Whole(k, n) == IF n = Manifest THEN {k} ELSE {Fresh(j, n) : j \in {i \in Jobs : Key(i) = k}}
Rightful(k, n) == {Absent, Empty} \cup Whole(k, n) \cup {x \in {Mixed} : n # Manifest}
FilesRight ==
  \A k \in Keys, n \in Names :
    disk[k][n].path \in Rightful(k, n) /\ disk[k][n].temporary \in Rightful(k, n)

\* The pairs before a position.
Before(j, mo, la) ==
  {<<j.command.models[y[1]], Languages[y[2]]>> :
     y \in {z \in (DOMAIN j.command.models) \X (DOMAIN Languages) :
              z[1] < mo \/ (z[1] = mo /\ z[2] < la)}}

\* The rows of a pair that were scored.
ScoredRows(pair, n) == {pair[2]} \X (1 .. n)

\* What a runner holds is what its job and its position say.
Idle(r) ==
  /\ model[r] = 1 /\ language[r] = 1 /\ results[r] = <<>> /\ file[r] = NoFile
  /\ offset[r] = 0 /\ counts[r] = NoCounts
Position(r) ==
  LET models == job[r].command.models IN
  /\ language[r] \in DOMAIN Languages
  /\ pc[r] \in {"checkpoints", "model"} \cup Reporting => language[r] = 1
  /\ pc[r] = "checkpoints" => model[r] = 1
  /\ pc[r] \in {"model", "language", "score"} => model[r] \in DOMAIN models
  /\ pc[r] \in Reporting => model[r] = Len(models) + 1
Held(r) ==
  /\ pc[r] \notin Writing => file[r] = NoFile
  /\ pc[r] \in Writing =>
       /\ file[r].value \in Whole(DirectoryOf(r), file[r].name)
       /\ file[r].at = "closed" <=> pc[r] = "open"
       /\ \/ file[r].name = Manifest /\ model[r] = 1 /\ language[r] = 1
          \/ /\ model[r] \in DOMAIN job[r].command.models
             /\ file[r].name = Pair(r)
Tally(r) ==
  IF pc[r] = "score"
    THEN LET size == ExampleCount(job[r].command, Pair(r)[2]) IN
         /\ offset[r] <= size
         /\ SupportStatus(Pair(r)[1], Pair(r)[2], job[r].command.transfer)
              # "not_evaluated_english_only"
         /\ counts[r] = CountsOf(job[r], Pair(r)[1], ScoredRows(Pair(r), offset[r]))
    ELSE offset[r] = 0 /\ counts[r] = NoCounts
RunnerRight(r) ==
  IF pc[r] = "idle" THEN Idle(r)
  ELSE /\ job[r] \in Jobs
       /\ results[r] = [x \in Before(job[r], model[r], language[r]) |-> Fresh(job[r], x)]
       /\ Position(r) /\ Held(r) /\ Tally(r)

\* What is computed is right.
DataInv == FilesRight /\ \A r \in Runners : RunnerRight(r)

\* Runners share an open file only where they overlapped, checkpoints only in a
\* directory that two of them work in, and manifests never.
Sharing(r) ==
  pc[r] \in Closing /\ (pc[r] = "close" => file[r].name # Manifest /\ DirectoryOf(r) \in marred)
Together(a, b) ==
  overlaps > 0 /\ (DirectoryOf(a) = DirectoryOf(b) => DirectoryOf(a) \in marred)
ShareInv ==
  /\ overlaps \in Nat
  /\ \A a, b \in Runners : a # b /\ pc[a] # "idle" /\ pc[b] # "idle" => Together(a, b)
  /\ \A r \in shared : r \in Runners /\ Sharing(r)
  /\ shared # {} => overlaps > 0
  /\ overlaps > 0 \/ {report.json, report.markdown} \subseteq Unmixed

Blank(k) == \A n \in Names : disk[k][n] = Nothing
Ready(k) ==
  /\ disk[k][Manifest] = [path |-> k, temporary |-> Absent]
  /\ \A x \in Pairs : disk[k][x].path \notin {Empty, Mixed}
Busy(r, k) == pc[r] # "idle" /\ DirectoryOf(r) = k
Founding(r) == pc[r] \in Writing /\ file[r].name = Manifest

\* A run that founds a directory, and one that works in it.
Founds(r, k) ==
  /\ \A x \in Pairs : disk[k][x] = Nothing
  /\ disk[k][Manifest] =
       [path |-> Absent,
        temporary |-> CASE pc[r] = "open" -> Absent [] pc[r] = "close" -> Empty
                        [] pc[r] = "replace" -> k]
  /\ pc[r] # "open" => file[r].at = "temporary"
WorksIn(r, k) ==
  /\ Ready(k) \/ (pc[r] = "checkpoints" /\ Blank(k))
  /\ pc[r] \in {"close", "replace"} => file[r].at = "temporary"
  /\ pc[r] = "replace" => disk[k][file[r].name].temporary = file[r].value

\* A directory whose one run founds it or works in it, or that is at rest.
Alone(k) == \A a, b \in Runners : Busy(a, k) /\ Busy(b, k) => a = b
AtWork(k) ==
  \A r \in Runners : Busy(r, k) => IF Founding(r) THEN Founds(r, k) ELSE WorksIn(r, k)
AtRest(k) == (\A r \in Runners : ~Busy(r, k)) => Blank(k) \/ Ready(k)
DirectoryRight(k) == Alone(k) /\ AtWork(k) /\ AtRest(k)
DirectoryInv == \A k \in Keys \ marred : DirectoryRight(k)

\* What is true of the directory of a run, in that run's words.
Settled(r, k) ==
  /\ pc[r] # "idle" => /\ DirectoryOf(r) = k
                       /\ IF Founding(r) THEN Founds(r, k) ELSE WorksIn(r, k)
  /\ pc[r] = "idle" => Blank(k) \/ Ready(k)
Untouched(k) == \A n \in Names : disk'[k][n] = disk[k][n]

-----------------------------------------------------------------------------
(*****************************************************************************)
(* Jobs, pairs and positions.                                                *)
(*****************************************************************************)

\* A pair is a model and a language, and no manifest.
LEMMA PairTypes ==
  ASSUME NEW x \in Pairs
  PROVE  /\ x[1] \in DOMAIN BatchSize /\ x[2] \in LanguageSet /\ x = <<x[1], x[2]>>
         /\ x # Manifest /\ x \in Names
<1>1. x[1] \in DOMAIN BatchSize /\ x[2] \in LanguageSet /\ x = <<x[1], x[2]>>
  BY DEF Pairs
<1>2. x[1] # "snapshot"
  BY <1>1, ModelsAssumption DEF LocationLabels
<1> QED
  BY <1>1, <1>2 DEF Manifest, Names

\* A job has a clean commit and at least one model.
LEMMA JobTypes ==
  ASSUME NEW j \in Jobs
  PROVE  /\ j.commit \in Commits /\ j.command \in Commands
         /\ j.command.models \in Seq(DOMAIN BatchSize) /\ j.command.models # <<>>
         /\ DOMAIN j.command.models = 1 .. Len(j.command.models)
         /\ Len(j.command.models) \in Nat \ {0}
         /\ Key(j) \in Keys
<1>1. j.commit \in Commits /\ j.command \in Commands /\ Key(j) \in Keys
  BY DEF Jobs, Keys
<1>2. j.command.models \in Seq(DOMAIN BatchSize) /\ j.command.models # <<>>
  BY <1>1, CommandsAssumption
<1> QED
  BY <1>1, <1>2

\* Languages are numbered from one.
LEMMA LanguageTypes ==
  /\ DOMAIN Languages = 1 .. Len(Languages) /\ Len(Languages) \in Nat \ {0}
  /\ \A i \in DOMAIN Languages : Languages[i] \in LanguageSet
<1>1. Languages \in Seq(LanguageSet) /\ Languages # <<>>
  BY RowsAssumption
<1> QED
  BY <1>1 DEF LanguageSet

\* A fresh count is a count.
LEMMA FreshCountsType ==
  ASSUME NEW j \in Jobs, NEW m \in DOMAIN BatchSize, NEW langs \in SUBSET LanguageSet
  PROVE  FreshCounts(j, m, langs) \in Counts
BY RowPairsType, CountsType, FreshIsCounts

\* Only the English model outside English, without transfer, is not evaluated.
LEMMA SupportType ==
  ASSUME NEW m, NEW lang, NEW transfer
  PROVE  /\ SupportStatus(m, lang, transfer) \in SupportStatuses
         /\ transfer \in BOOLEAN => (SupportStatus(m, lang, transfer) = "not_evaluated_english_only"
              <=> m = "spacy_en" /\ lang # "en" /\ ~transfer)
<1>1. CASE m = "spacy_en" /\ lang = "en"
  BY <1>1 DEF SupportStatus, SupportStatuses
<1>2. CASE m = "spacy_en" /\ lang # "en" /\ ~transfer
  BY <1>2 DEF SupportStatus, SupportStatuses
<1>3. CASE m = "spacy_en" /\ lang # "en" /\ transfer
  BY <1>3 DEF SupportStatus, SupportStatuses
<1>4. CASE m # "spacy_en" /\ Documented[m] = None
  BY <1>4 DEF SupportStatus, SupportStatuses
<1>5. CASE m # "spacy_en" /\ Documented[m] # None /\ lang \in Documented[m]
  BY <1>5 DEF SupportStatus, SupportStatuses
<1>6. CASE m # "spacy_en" /\ Documented[m] # None /\ lang \notin Documented[m]
  BY <1>6 DEF SupportStatus, SupportStatuses
<1> QED
  BY <1>1, <1>2, <1>3, <1>4, <1>5, <1>6

\* A fresh result is a result.
LEMMA ResultType ==
  ASSUME NEW j \in Jobs, NEW x \in Pairs
  PROVE  Fresh(j, x) \in Results
<1>1. FreshCounts(j, x[1], {x[2]}) \in Counts
  BY PairTypes, FreshCountsType
<1>2. ExampleCount(j.command, x[2]) \in Nat
  BY PairTypes, LimitType
<1>3. SupportStatus(x[1], x[2], j.command.transfer) \in SupportStatuses
  BY SupportType
<1>4. Result(j.command, x, FreshCounts(j, x[1], {x[2]})) \in Results
  BY <1>1, <1>2, <1>3 DEF Result, Results
<1>5. NotEvaluated \in Results
  <2>1. 0 \in Nat /\ None \in Counts \cup {None} /\ "not_evaluated_english_only" \in SupportStatuses
    BY DEF SupportStatuses
  <2> QED
    BY <2>1, Zenon DEF NotEvaluated, Results
<1> QED
  BY <1>4, <1>5 DEF Fresh

\* A result is not taken for a missing file, a part of one or a mixed one.
LEMMA ResultIsWhole ==
  ASSUME NEW v \in Results
  PROVE  v \notin {Absent, Empty, Mixed}
BY ValuesAssumption DEF Results

\* Nor is the identity in a manifest.
LEMMA KeyIsWhole ==
  ASSUME NEW k \in Keys
  PROVE  k \notin {Absent, Empty, Mixed}
BY ValuesAssumption

\* A result depends on what the key says, and on nothing else.
LEMMA KeyFresh ==
  ASSUME NEW i \in Jobs, NEW j \in Jobs, Key(i) = Key(j), NEW x \in Pairs
  PROVE  Fresh(i, x) = Fresh(j, x)
<1>1. /\ i.commit = j.commit /\ i.command.limit = j.command.limit
      /\ i.command.transfer = j.command.transfer
  BY DEF Key, Identity
<1>2. \A lang : ExampleCount(i.command, lang) = ExampleCount(j.command, lang)
  BY <1>1 DEF ExampleCount
<1>3. FreshCounts(i, x[1], {x[2]}) = FreshCounts(j, x[1], {x[2]})
  <2>1. RowPairs(i, {x[2]}) = RowPairs(j, {x[2]})
    BY <1>2 DEF RowPairs
  <2>2. \A y : Said(i, x[1], y) = Said(j, x[1], y)
    BY <1>1 DEF Said
  <2>3. \A y : Parts(i, x[1], y) = Parts(j, x[1], y)
    BY <2>2 DEF Parts
  <2>4. \A S, field : Part(i, x[1], S, field) = Part(j, x[1], S, field)
    BY <2>3 DEF Part
  <2>5. \A S : CountsOf(i, x[1], S) = CountsOf(j, x[1], S)
    BY <2>4 DEF CountsOf
  <2>6. /\ FreshCounts(i, x[1], {x[2]}) = CountsOf(i, x[1], RowPairs(i, {x[2]}))
        /\ FreshCounts(j, x[1], {x[2]}) = CountsOf(j, x[1], RowPairs(j, {x[2]}))
    BY PairTypes, FreshIsCounts
  <2> QED
    BY <2>1, <2>5, <2>6
<1>4. Result(i.command, x, FreshCounts(i, x[1], {x[2]}))
        = Result(j.command, x, FreshCounts(j, x[1], {x[2]}))
  BY <1>1, <1>2, <1>3 DEF Result
<1> QED
  BY <1>1, <1>4 DEF Fresh

\* A file has one right content: in a directory, a pair has one fresh result.
LEMMA WholeFiles ==
  /\ \A k : Whole(k, Manifest) = {k}
  /\ \A j \in Jobs, x \in Pairs : Whole(Key(j), x) = {Fresh(j, x)}
  /\ \A k \in Keys, n \in Names : Whole(k, n) \subseteq Values
  /\ \A k \in Keys, n \in Names : \A v \in Whole(k, n) : v \notin {Absent, Empty, Mixed}
<1>1. \A k : Whole(k, Manifest) = {k}
  BY DEF Whole
<1>2. ASSUME NEW j \in Jobs, NEW x \in Pairs
      PROVE  Whole(Key(j), x) = {Fresh(j, x)}
  BY PairTypes, KeyFresh DEF Whole
<1>3. ASSUME NEW k \in Keys, NEW x \in Pairs
      PROVE  /\ Whole(k, x) \subseteq Values
             /\ \A v \in Whole(k, x) : v \notin {Absent, Empty, Mixed}
  <2>1. PICK j \in Jobs : k = Key(j)
    BY DEF Keys
  <2> QED
    BY <1>2, <2>1, ResultType, ResultIsWhole DEF Values
<1>4. ASSUME NEW k \in Keys
      PROVE  /\ Whole(k, Manifest) \subseteq Values
             /\ \A v \in Whole(k, Manifest) : v \notin {Absent, Empty, Mixed}
  BY <1>1, KeyIsWhole DEF Values
<1> QED
  BY <1>1, <1>2, <1>3, <1>4 DEF Names


\* A position names a pair.
LEMMA PairAt ==
  ASSUME NEW j \in Jobs, NEW mo \in DOMAIN j.command.models, NEW la \in DOMAIN Languages
  PROVE  <<j.command.models[mo], Languages[la]>> \in Pairs
<1>1. j.command.models[mo] \in DOMAIN BatchSize
  BY JobTypes
<1>2. Languages[la] \in LanguageSet
  BY LanguageTypes
<1> QED
  BY <1>1, <1>2 DEF Pairs

\* Nothing is before the first position.
LEMMA Beginning == ASSUME NEW j \in Jobs PROVE Before(j, 1, 1) = {}
BY JobTypes, LanguageTypes DEF Before

\* What is before a position are pairs.
LEMMA BeforePairs ==
  ASSUME NEW j \in Jobs, NEW mo, NEW la
  PROVE  Before(j, mo, la) \subseteq Pairs
BY PairAt DEF Before

\* Everything selected is before the position after the last.
LEMMA Ending ==
  ASSUME NEW j \in Jobs
  PROVE  Before(j, Len(j.command.models) + 1, 1) = Selected(j.command) \X LanguageSet
<1> DEFINE models == j.command.models
<1>1. DOMAIN models = 1 .. Len(models) /\ Len(models) \in Nat
  BY JobTypes
<1>2. \A i \in DOMAIN models : i < Len(models) + 1
  BY <1>1
<1> DEFINE All == (DOMAIN models) \X (DOMAIN Languages)
<1>3. {z \in All : z[1] < Len(models) + 1 \/ (z[1] = Len(models) + 1 /\ z[2] < 1)} = All
  BY <1>2
<1>4. Before(j, Len(models) + 1, 1) = {<<models[y[1]], Languages[y[2]]>> : y \in All}
  BY <1>3 DEF Before
<1> HIDE DEF models
<1>5. {<<models[y[1]], Languages[y[2]]>> : y \in All} =
        {models[i] : i \in DOMAIN models} \X {Languages[i] : i \in DOMAIN Languages}
  <2>1. ASSUME NEW i \in DOMAIN models, NEW l \in DOMAIN Languages
        PROVE  <<models[i], Languages[l]>> \in {<<models[y[1]], Languages[y[2]]>> : y \in All}
    <3>1. <<i, l>> \in All /\ <<i, l>>[1] = i /\ <<i, l>>[2] = l
      OBVIOUS
    <3> HIDE DEF All
    <3> QED
      BY <3>1
  <2>2. ASSUME NEW y \in All
        PROVE  <<models[y[1]], Languages[y[2]]>> \in
                 {models[i] : i \in DOMAIN models} \X {Languages[i] : i \in DOMAIN Languages}
    OBVIOUS
  <2> HIDE DEF All
  <2> QED
    BY <2>1, <2>2
<1> QED
  BY <1>4, <1>5 DEF Selected, LanguageSet, models

\* The next position has one pair more before it.
LEMMA OneMore ==
  ASSUME NEW j \in Jobs, NEW mo \in DOMAIN j.command.models, NEW la \in DOMAIN Languages
  PROVE  /\ la < Len(Languages) =>
              Before(j, mo, la + 1) = Before(j, mo, la) \cup {<<j.command.models[mo], Languages[la]>>}
         /\ ~(la < Len(Languages)) =>
              Before(j, mo + 1, 1) = Before(j, mo, la) \cup {<<j.command.models[mo], Languages[la]>>}
<1> DEFINE models == j.command.models
<1> DEFINE All == (DOMAIN models) \X (DOMAIN Languages)
<1> DEFINE Up(z, m, l) == z[1] < m \/ (z[1] = m /\ z[2] < l)
<1>1. /\ DOMAIN models = 1 .. Len(models) /\ Len(models) \in Nat /\ mo \in 1 .. Len(models)
      /\ DOMAIN Languages = 1 .. Len(Languages) /\ Len(Languages) \in Nat
      /\ la \in 1 .. Len(Languages)
  BY JobTypes, LanguageTypes
<1>2. \A m, l : Before(j, m, l) = {<<models[y[1]], Languages[y[2]]>> : y \in {z \in All : Up(z, m, l)}}
  BY DEF Before
<1>3. ASSUME la < Len(Languages)
      PROVE  {z \in All : Up(z, mo, la + 1)} = {z \in All : Up(z, mo, la)} \cup {<<mo, la>>}
  <2>1. \A a \in Nat : a < la + 1 <=> a < la \/ a = la
    BY <1>1
  <2>2. \A z \in All : z[1] \in Nat /\ z[2] \in Nat /\ z = <<z[1], z[2]>>
    BY <1>1
  <2> QED
    BY <1>1, <2>1, <2>2
<1>4. ASSUME ~(la < Len(Languages))
      PROVE  {z \in All : Up(z, mo + 1, 1)} = {z \in All : Up(z, mo, la)} \cup {<<mo, la>>}
  <2>1. la = Len(Languages)
    BY <1>1, <1>4
  <2>2. ASSUME NEW z \in All
        PROVE  Up(z, mo + 1, 1) <=> Up(z, mo, la) \/ z = <<mo, la>>
    <3>1. z[1] \in 1 .. Len(models) /\ z[2] \in 1 .. Len(Languages) /\ z = <<z[1], z[2]>>
      BY <1>1
    <3>2. z[1] < mo + 1 <=> z[1] < mo \/ z[1] = mo
      BY <1>1, <3>1
    <3>3. ~(z[2] < 1) /\ (z[2] < la \/ z[2] = la)
      BY <1>1, <2>1, <3>1
    <3>4. z = <<mo, la>> <=> z[1] = mo /\ z[2] = la
      BY <3>1
    <3>5. z[1] = mo + 1 => ~(z[2] < 1)
      BY <3>3
    <3> QED
      BY <3>2, <3>3, <3>4
  <2>3. <<mo, la>> \in All
    BY <1>1
  <2> HIDE DEF All, Up
  <2> QED
    BY <2>2, <2>3
<1>5. \A S, T, t : T = S \cup {t} =>
        {<<models[y[1]], Languages[y[2]]>> : y \in T} =
          {<<models[y[1]], Languages[y[2]]>> : y \in S} \cup {<<models[t[1]], Languages[t[2]]>>}
  OBVIOUS
<1> HIDE DEF Up, All, models
<1>6. \A m, l : {z \in All : Up(z, m, l)} = {z \in All : Up(z, mo, la)} \cup {<<mo, la>>} =>
        Before(j, m, l) = Before(j, mo, la) \cup {<<models[mo], Languages[la]>>}
  <2>1. SUFFICES ASSUME NEW m, NEW l,
                        {z \in All : Up(z, m, l)} = {z \in All : Up(z, mo, la)} \cup {<<mo, la>>}
                 PROVE  Before(j, m, l) = Before(j, mo, la) \cup {<<models[mo], Languages[la]>>}
    OBVIOUS
  <2> DEFINE S == {z \in All : Up(z, mo, la)}
  <2> DEFINE T == {z \in All : Up(z, m, l)}
  <2> DEFINE t == <<mo, la>>
  <2>2. T = S \cup {t} /\ t[1] = mo /\ t[2] = la
    BY <2>1
  <2>3. /\ Before(j, mo, la) = {<<models[y[1]], Languages[y[2]]>> : y \in S}
        /\ Before(j, m, l) = {<<models[y[1]], Languages[y[2]]>> : y \in T}
    BY <1>2
  <2> HIDE DEF S, T, t
  <2>4. {<<models[y[1]], Languages[y[2]]>> : y \in T} =
          {<<models[y[1]], Languages[y[2]]>> : y \in S} \cup {<<models[t[1]], Languages[t[2]]>>}
    BY <1>5, <2>2
  <2> QED
    BY <2>2, <2>3, <2>4
<1>7. la < Len(Languages) => Before(j, mo, la + 1) = Before(j, mo, la) \cup {<<models[mo], Languages[la]>>}
  BY <1>3, <1>6
<1>8. ~(la < Len(Languages)) =>
        Before(j, mo + 1, 1) = Before(j, mo, la) \cup {<<models[mo], Languages[la]>>}
  BY <1>4, <1>6
<1> QED
  BY <1>7, <1>8 DEF models

\* Nothing that a runner's state is made of changes.
Steady(b) ==
  /\ pc'[b] = pc[b] /\ job'[b] = job[b] /\ model'[b] = model[b] /\ language'[b] = language[b]
  /\ offset'[b] = offset[b] /\ counts'[b] = counts[b] /\ results'[b] = results[b]
  /\ file'[b].name = file[b].name /\ file'[b].value = file[b].value
  /\ file'[b].at = "closed" <=> file[b].at = "closed"
  /\ file[b] = NoFile => file'[b] = NoFile

\* A runner that does not change stays right.
LEMMA SteadyRight ==
  ASSUME NEW b \in Runners, RunnerRight(b), Steady(b)
  PROVE  RunnerRight(b)'
BY DEF RunnerRight, Steady, Idle, Position, Reporting, Held, Tally, DirectoryOf, Pair

\* No file is a file too.
LEMMA FilesType == NoFile \in Files
BY DEF NoFile, Files, Values

\* A runner that is over holds nothing; nobody else is touched.
LEMMA FinishRight ==
  ASSUME RunnerTypes, NEW r \in Runners, Finish(r)
  PROVE  /\ RunnerTypes' /\ RunnerRight(r)'
         /\ pc'[r] = "idle"
         /\ \A b \in Runners \ {r} : Steady(b) /\ file'[b] = file[b]
<1>1. RunnerTypes'
  <2>1. /\ pc' \in [Runners -> Steps] /\ job' \in [Runners -> Jobs \cup {None}]
        /\ model' \in [Runners -> Nat] /\ language' \in [Runners -> Nat]
        /\ offset' \in [Runners -> Nat]
    BY DEF RunnerTypes, Finish, Goto, Steps
  <2>2. file' \in [Runners -> Files]
    BY FilesType DEF RunnerTypes, Finish
  <2>3. counts' = [b \in Runners |-> counts'[b]] /\ results' = [b \in Runners |-> results'[b]]
    BY DEF RunnerTypes, Finish
  <2> QED
    BY <2>1, <2>2, <2>3 DEF RunnerTypes
<1>2. RunnerRight(r)' /\ pc'[r] = "idle"
  BY DEF RunnerTypes, Finish, Goto, RunnerRight, Idle
<1>3. \A b \in Runners \ {r} : Steady(b) /\ file'[b] = file[b]
  BY DEF RunnerTypes, Finish, Goto, Steady
<1> QED
  BY <1>1, <1>2, <1>3


\* The steps.
LEMMA StepsType ==
  /\ "idle" \in Steps /\ "checkpoints" \in Steps /\ "open" \in Steps /\ "close" \in Steps
  /\ "replace" \in Steps /\ "model" \in Steps /\ "language" \in Steps /\ "score" \in Steps
  /\ "json" \in Steps /\ "json_close" \in Steps
  /\ "markdown" \in Steps /\ "markdown_close" \in Steps
BY DEF Steps

\* Advance adds the right result and goes to the right position.
LEMMA AdvanceRight ==
  ASSUME RunnerTypes, NEW r \in Runners, RunnerRight(r), pc[r] \in {"language", "replace"},
         model[r] \in DOMAIN job[r].command.models,
         Advance(r, Fresh(job[r], Pair(r))), UNCHANGED <<job, offset, counts>>,
         file' \in [Runners -> Files], file'[r] = NoFile
  PROVE  /\ RunnerTypes' /\ RunnerRight(r)'
         /\ pc'[r] \in {"language", "model", "json"}
         /\ \A b \in Runners \ {r} : /\ pc'[b] = pc[b] /\ model'[b] = model[b]
                                     /\ language'[b] = language[b] /\ results'[b] = results[b]
<1> DEFINE j == job[r]
<1> DEFINE models == j.command.models
<1>1. /\ j \in Jobs /\ language[r] \in DOMAIN Languages /\ model[r] \in DOMAIN models
      /\ results[r] = [x \in Before(j, model[r], language[r]) |-> Fresh(j, x)]
      /\ offset[r] = 0 /\ counts[r] = NoCounts
  BY DEF RunnerRight, Position, Reporting, Tally
<1>2. /\ DOMAIN models = 1 .. Len(models) /\ Len(models) \in Nat
      /\ DOMAIN Languages = 1 .. Len(Languages) /\ Len(Languages) \in Nat \ {0}
      /\ model[r] \in 1 .. Len(models) /\ language[r] \in 1 .. Len(Languages)
  BY <1>1, JobTypes, LanguageTypes
<1>3. /\ pc \in [Runners -> Steps] /\ model \in [Runners -> Nat] /\ language \in [Runners -> Nat]
      /\ results = [b \in Runners |-> results[b]]
  BY DEF RunnerTypes
<1>4. /\ results' = [results EXCEPT ![r] =
           [x \in (DOMAIN results[r]) \cup {Pair(r)} |->
              IF x = Pair(r) THEN Fresh(j, Pair(r)) ELSE results[r][x]]]
      /\ NextPosition(r)
  BY DEF Advance
<1>5. results'[r] = [x \in Before(j, model[r], language[r]) \cup {Pair(r)} |-> Fresh(j, x)]
  <2>1. results'[r] = [x \in (DOMAIN results[r]) \cup {Pair(r)} |->
              IF x = Pair(r) THEN Fresh(j, Pair(r)) ELSE results[r][x]]
    BY <1>3, <1>4
  <2>2. DOMAIN results[r] = Before(j, model[r], language[r])
    BY <1>1
  <2>3. \A x \in Before(j, model[r], language[r]) : results[r][x] = Fresh(j, x)
    BY <1>1
  <2> QED
    BY <2>1, <2>2, <2>3
<1>6. results' = [b \in Runners |-> results'[b]] /\ \A b \in Runners \ {r} : results'[b] = results[b]
  BY <1>3, <1>4
<1>7. Pair(r) = <<models[model[r]], Languages[language[r]]>>
  BY DEF Pair
<1>8. CASE language[r] < Len(Languages)
  <2>1. /\ language' = [language EXCEPT ![r] = language[r] + 1] /\ model' = model
        /\ pc' = [pc EXCEPT ![r] = "language"]
    BY <1>4, <1>8 DEF NextPosition, Goto
  <2>2. /\ language'[r] = language[r] + 1 /\ model'[r] = model[r] /\ pc'[r] = "language"
        /\ pc' \in [Runners -> Steps] /\ language' \in [Runners -> Nat] /\ model' \in [Runners -> Nat]
    BY <1>2, <1>3, <2>1, StepsType
  <2>3. \A b \in Runners \ {r} : pc'[b] = pc[b] /\ model'[b] = model[b] /\ language'[b] = language[b]
    BY <1>3, <2>1
  <2>4. RunnerTypes'
    BY <1>6, <2>2 DEF RunnerTypes
  <2>5. results'[r] = [x \in Before(j, model'[r], language'[r]) |-> Fresh(j, x)]
    BY <1>1, <1>5, <1>7, <1>8, <2>2, OneMore
  <2>6. language'[r] \in DOMAIN Languages
    BY <1>2, <1>8, <2>2
  <2>7. RunnerRight(r)'
    BY <1>1, <2>2, <2>5, <2>6 DEF RunnerRight, Position, Reporting, Held, Tally, Writing
  <2> QED
    BY <1>6, <2>2, <2>3, <2>4, <2>7
<1>9. CASE ~(language[r] < Len(Languages))
  <2> DEFINE step == IF model[r] < Len(models) THEN "model" ELSE "json"
  <2>1. /\ language' = [language EXCEPT ![r] = 1] /\ model' = [model EXCEPT ![r] = model[r] + 1]
        /\ pc' = [pc EXCEPT ![r] = step]
    BY <1>4, <1>9 DEF NextPosition, Goto
  <2>2. /\ language'[r] = 1 /\ model'[r] = model[r] + 1 /\ pc'[r] = step
        /\ pc' \in [Runners -> Steps] /\ language' \in [Runners -> Nat] /\ model' \in [Runners -> Nat]
    BY <1>2, <1>3, <2>1, StepsType
  <2>3. \A b \in Runners \ {r} : pc'[b] = pc[b] /\ model'[b] = model[b] /\ language'[b] = language[b]
    BY <1>3, <2>1
  <2>4. RunnerTypes'
    BY <1>6, <2>2 DEF RunnerTypes
  <2>5. results'[r] = [x \in Before(j, model'[r], language'[r]) |-> Fresh(j, x)]
    BY <1>1, <1>5, <1>7, <1>9, <2>2, OneMore
  <2>6. /\ language'[r] \in DOMAIN Languages
        /\ step = "model" => model'[r] \in DOMAIN models
        /\ step = "json" => model'[r] = Len(models) + 1
    <3>1. 1 \in DOMAIN Languages
      BY <1>2
    <3>2. \A a, n \in Nat : 
      (a \in 1 .. n) => ((a < n => a + 1 \in 1 .. n) /\ (~(a < n) => a + 1 = n + 1))
      OBVIOUS
    <3>3. /\ model[r] < Len(models) => model[r] + 1 \in DOMAIN models
          /\ ~(model[r] < Len(models)) => model[r] + 1 = Len(models) + 1
      BY <1>2, <3>2
    <3>4. /\ step = "model" => model[r] < Len(models)
          /\ step = "json" => ~(model[r] < Len(models))
      OBVIOUS
    <3> HIDE DEF step
    <3> QED
      BY <2>2, <3>1, <3>3, <3>4
  <2>7. step \in {"model", "json"}
    OBVIOUS
  <2> HIDE DEF step
  <2>8. RunnerRight(r)'
    BY <1>1, <2>2, <2>5, <2>6, <2>7 DEF RunnerRight, Position, Reporting, Held, Tally, Writing
  <2> QED
    BY <1>6, <2>2, <2>3, <2>4, <2>7, <2>8
<1> QED
  BY <1>8, <1>9

\* A file is to be written.
LEMMA StartWriteRight ==
  ASSUME RunnerTypes, NEW r \in Runners, NEW name \in Names, NEW value \in Values,
         StartWrite(r, name, value), UNCHANGED <<job, model, language, results>>,
         offset' \in [Runners -> Nat], counts' = [b \in Runners |-> counts'[b]]
  PROVE  /\ RunnerTypes'
         /\ pc'[r] = "open" /\ file'[r] = [name |-> name, value |-> value, at |-> "closed"]
         /\ \A b \in Runners \ {r} : pc'[b] = pc[b] /\ file'[b] = file[b]
<1>1. [name |-> name, value |-> value, at |-> "closed"] \in Files
  BY DEF Files
<1>2. /\ file' = [file EXCEPT ![r] = [name |-> name, value |-> value, at |-> "closed"]]
      /\ pc' = [pc EXCEPT ![r] = "open"]
  BY DEF StartWrite, Goto
<1>3. pc \in [Runners -> Steps] /\ file \in [Runners -> Files]
  BY DEF RunnerTypes
<1>4. pc' \in [Runners -> Steps] /\ file' \in [Runners -> Files]
  BY <1>1, <1>2, <1>3, StepsType
<1>5. RunnerTypes'
  BY <1>4 DEF RunnerTypes
<1>6. /\ pc'[r] = "open" /\ file'[r] = [name |-> name, value |-> value, at |-> "closed"]
      /\ \A b \in Runners \ {r} : pc'[b] = pc[b] /\ file'[b] = file[b]
  BY <1>2, <1>3
<1> QED
  BY <1>5, <1>6

\* A step elsewhere in the program.
LEMMA GotoRight ==
  ASSUME RunnerTypes, NEW r \in Runners, NEW step \in Steps, Goto(r, step)
  PROVE  /\ pc' \in [Runners -> Steps] /\ pc'[r] = step
         /\ \A b \in Runners \ {r} : pc'[b] = pc[b]
BY DEF RunnerTypes, Goto

\* The files that a rename carries along keep their name and value.
LEMMA CarriedRight ==
  ASSUME RunnerTypes, NEW r \in Runners
  PROVE  /\ Carried(r) \in [Runners -> Files]
         /\ \A b \in Runners :
              /\ Carried(r)[b].name = file[b].name /\ Carried(r)[b].value = file[b].value
              /\ Carried(r)[b].at = "closed" <=> file[b].at = "closed"
              /\ b = r \/ ~Busy(b, DirectoryOf(r)) => Carried(r)[b] = file[b]
              /\ file[b] = NoFile => Carried(r)[b] = NoFile
<1>1. \A b \in Runners : file[b] \in Files
  BY DEF RunnerTypes
<1>2. ASSUME NEW b \in Runners
      PROVE  /\ Carried(r)[b] \in Files
             /\ Carried(r)[b].name = file[b].name /\ Carried(r)[b].value = file[b].value
             /\ Carried(r)[b].at = "closed" <=> file[b].at = "closed"
             /\ b = r \/ ~Busy(b, DirectoryOf(r)) => Carried(r)[b] = file[b]
             /\ file[b] = NoFile => Carried(r)[b] = NoFile
  <2>1. CASE Carried(r)[b] = file[b]
    BY <1>1, <2>1
  <2>2. CASE Carried(r)[b] # file[b]
    <3>1. /\ \/ Carried(r)[b] = [file[b] EXCEPT !.at = "path"]
             \/ Carried(r)[b] = [file[b] EXCEPT !.at = "gone"]
          /\ b # r /\ Busy(b, DirectoryOf(r)) /\ file[b].at # "closed"
      BY <2>2 DEF Carried, Busy
    <3>2. file[b] # NoFile
      BY <3>1 DEF NoFile
    <3>3. file[b] \in Files
      BY <1>1
    <3> QED
      BY <3>1, <3>2, <3>3 DEF Files
  <2> QED
    BY <2>1, <2>2
<1>3. Carried(r) \in [Runners -> Files]
  BY <1>2 DEF Carried
<1> QED
  BY <1>2, <1>3

-----------------------------------------------------------------------------
(*****************************************************************************)
(* The steps keep what is computed right.                                    *)
(*****************************************************************************)

\* The others are not touched, but for a file that a rename carries along.
Others(r) ==
  \A b \in Runners \ {r} :
    Steady(b) /\ (file'[b] = file[b] \/ Busy(b, DirectoryOf(r)))

\* What a file may hold is a value.
LEMMA RightfulType ==
  ASSUME NEW k \in Keys, NEW n \in Names
  PROVE  Rightful(k, n) \subseteq Values
BY WholeFiles DEF Rightful, Values

Rewrites(k, n, p, t) == disk' = [disk EXCEPT ![k][n] = [path |-> p, temporary |-> t]]

\* One file is changed.
LEMMA DiskChanged ==
  ASSUME DiskTypes, FilesRight, NEW k \in Keys, NEW n \in Names,
         NEW p \in Rightful(k, n), NEW t \in Rightful(k, n),
         Rewrites(k, n, p, t)
  PROVE  /\ DiskTypes' /\ FilesRight'
         /\ disk'[k][n] = [path |-> p, temporary |-> t]
         /\ \A i \in Keys, x \in Names : i # k \/ x # n => disk'[i][x] = disk[i][x]
<1>1. disk \in [Keys -> [Names -> Contents]]
  BY DEF DiskTypes
<1>2. [path |-> p, temporary |-> t] \in Contents
  BY RightfulType DEF Contents
<1>3. /\ disk' \in [Keys -> [Names -> Contents]]
      /\ disk'[k][n] = [path |-> p, temporary |-> t]
      /\ \A i \in Keys, x \in Names : i # k \/ x # n => disk'[i][x] = disk[i][x]
  BY <1>1, <1>2 DEF Rewrites
<1>4. ASSUME NEW i \in Keys, NEW x \in Names
      PROVE  disk'[i][x].path \in Rightful(i, x) /\ disk'[i][x].temporary \in Rightful(i, x)
  <2>1. CASE i = k /\ x = n
    BY <1>3, <2>1
  <2>2. CASE i # k \/ x # n
    <3>1. disk'[i][x] = disk[i][x]
      BY <1>3, <2>2
    <3> QED
      BY <3>1 DEF FilesRight
  <2> QED
    BY <2>1, <2>2
<1>5. FilesRight'
  BY <1>4 DEF FilesRight
<1> QED
  BY <1>3, <1>5 DEF DiskTypes

\* A temporary is opened or closed.
LEMMA TemporaryChanged ==
  ASSUME DiskTypes, FilesRight, NEW k \in Keys, NEW n \in Names, NEW v \in Rightful(k, n),
         disk' = [disk EXCEPT ![k][n].temporary = v]
  PROVE  /\ DiskTypes' /\ FilesRight'
         /\ disk'[k][n] = [path |-> disk[k][n].path, temporary |-> v]
         /\ \A i \in Keys, x \in Names : i # k \/ x # n => disk'[i][x] = disk[i][x]
<1> DEFINE p == disk[k][n].path
<1>1. disk[k][n] \in Contents /\ p \in Rightful(k, n)
  BY DEF DiskTypes, FilesRight
<1>2. [disk[k][n] EXCEPT !.temporary = v] = [path |-> p, temporary |-> v]
  BY <1>1 DEF Contents
<1>3. Rewrites(k, n, p, v)
  BY <1>2 DEF Rewrites
<1> HIDE DEF p
<1>4. /\ DiskTypes' /\ FilesRight'
      /\ disk'[k][n] = [path |-> p, temporary |-> v]
      /\ \A i \in Keys, x \in Names : i # k \/ x # n => disk'[i][x] = disk[i][x]
  BY <1>1, <1>3, DiskChanged
<1> QED
  BY <1>4 DEF p

\* A file is closed after another run renamed it.
LEMMA PathChanged ==
  ASSUME DiskTypes, FilesRight, NEW k \in Keys, NEW n \in Names, NEW v \in Rightful(k, n),
         disk' = [disk EXCEPT ![k][n].path = v]
  PROVE  /\ DiskTypes' /\ FilesRight'
         /\ disk'[k][n] = [path |-> v, temporary |-> disk[k][n].temporary]
         /\ \A i \in Keys, x \in Names : i # k \/ x # n => disk'[i][x] = disk[i][x]
<1> DEFINE t == disk[k][n].temporary
<1>1. disk[k][n] \in Contents /\ t \in Rightful(k, n)
  BY DEF DiskTypes, FilesRight
<1>2. [disk[k][n] EXCEPT !.path = v] = [path |-> v, temporary |-> t]
  BY <1>1 DEF Contents
<1>3. Rewrites(k, n, v, t)
  BY <1>2 DEF Rewrites
<1> HIDE DEF t
<1>4. /\ DiskTypes' /\ FilesRight'
      /\ disk'[k][n] = [path |-> v, temporary |-> t]
      /\ \A i \in Keys, x \in Names : i # k \/ x # n => disk'[i][x] = disk[i][x]
  BY <1>1, <1>3, DiskChanged
<1> QED
  BY <1>4 DEF t

\* No file is changed.
LEMMA DiskKept ==
  ASSUME DiskTypes, FilesRight, UNCHANGED disk
  PROVE  DiskTypes' /\ FilesRight'
BY DEF DiskTypes, FilesRight

\* A step of one runner keeps everything right if it keeps its own state and the files right.
LEMMA Combine ==
  ASSUME DataInv, NEW r \in Runners, RunnerTypes', RunnerRight(r)', Others(r),
         DiskTypes', FilesRight', OtherTypes'
  PROVE  Types' /\ DataInv'
<1>1. \A b \in Runners \ {r} : RunnerRight(b)'
  BY SteadyRight DEF DataInv, Others
<1> QED
  BY <1>1 DEF Types, DataInv

\* What DataInv says of a runner at work.
LEMMA AtJob ==
  ASSUME RunnerTypes, NEW r \in Runners, RunnerRight(r), pc[r] # "idle"
  PROVE  /\ job[r] \in Jobs /\ DirectoryOf(r) \in Keys
         /\ model[r] \in DOMAIN job[r].command.models =>
              Pair(r) \in Pairs /\ Whole(DirectoryOf(r), Pair(r)) = {Fresh(job[r], Pair(r))}
<1>1. job[r] \in Jobs /\ language[r] \in DOMAIN Languages
  BY DEF RunnerRight, Position, Reporting
<1> QED
  BY <1>1, JobTypes, PairAt, WholeFiles DEF DirectoryOf, Pair

\* main starts a run with nothing computed.
LEMMA InvokeRight ==
  ASSUME Types, DataInv, NEW r \in Runners, NEW c \in Commands, Invoke(r, c)
  PROVE  Types' /\ DataInv' /\ Others(r)
<1> DEFINE j == [commit |-> tree, command |-> c]
<1>1. j \in Jobs /\ Key(j) \in Keys
  BY DEF Types, OtherTypes, Invoke, Jobs, Keys
<1>2. RunnerTypes /\ pc[r] = "idle" /\ Idle(r)
  BY DEF Types, DataInv, RunnerRight, Invoke
<1>3. /\ job' = [job EXCEPT ![r] = j] /\ Goto(r, "checkpoints")
      /\ UNCHANGED <<tree, disk, report, positionVars, results, file, reported>>
  BY DEF Invoke
<1>4. pc' \in [Runners -> Steps] /\ pc'[r] = "checkpoints" /\ \A b \in Runners \ {r} : pc'[b] = pc[b]
  BY <1>2, <1>3, GotoRight, StepsType
<1>5. /\ job' \in [Runners -> Jobs \cup {None}] /\ job'[r] = j
      /\ \A b \in Runners \ {r} : job'[b] = job[b]
  BY <1>1, <1>2, <1>3 DEF RunnerTypes
<1>6. RunnerTypes'
  BY <1>2, <1>3, <1>4, <1>5 DEF RunnerTypes, positionVars
<1>7. Others(r)
  BY <1>3, <1>4, <1>5 DEF Others, Steady, positionVars
<1>8. RunnerRight(r)'
  <2>1. /\ model'[r] = 1 /\ language'[r] = 1 /\ results'[r] = <<>> /\ file'[r] = NoFile
        /\ offset'[r] = 0 /\ counts'[r] = NoCounts
    BY <1>2, <1>3 DEF Idle, positionVars
  <2>2. results'[r] = [x \in Before(j, 1, 1) |-> Fresh(j, x)]
    BY <1>1, <2>1, Beginning
  <2>3. 1 \in DOMAIN Languages
    BY LanguageTypes
  <2> HIDE DEF j
  <2> QED
    BY <1>1, <1>4, <1>5, <2>1, <2>2, <2>3 DEF RunnerRight, Position, Reporting, Held, Tally, Writing
<1>9. DiskTypes' /\ FilesRight'
  BY <1>3, DiskKept DEF Types, DataInv
<1>10. OtherTypes'
  BY <1>1, <1>3 DEF Types, OtherTypes, Invoke
<1> QED
  BY <1>6, <1>7, <1>8, <1>9, <1>10, Combine

\* ModelLanguageCheckpoints.__init__ writes the identity of the run, or nothing.
LEMMA OpenCheckpointsRight ==
  ASSUME Types, DataInv, NEW r \in Runners, OpenCheckpoints(r)
  PROVE  Types' /\ DataInv' /\ Others(r)
<1>1. /\ RunnerTypes /\ pc[r] = "checkpoints" /\ RunnerRight(r)
      /\ UNCHANGED <<tree, disk, report, reported, marred>>
  BY DEF Types, DataInv, OpenCheckpoints
<1>2. /\ job[r] \in Jobs /\ DirectoryOf(r) \in Keys
      /\ results[r] = [x \in Before(job[r], model[r], language[r]) |-> Fresh(job[r], x)]
      /\ model[r] = 1 /\ language[r] = 1 /\ language[r] \in DOMAIN Languages
      /\ 1 \in DOMAIN job[r].command.models /\ file[r] = NoFile
      /\ offset[r] = 0 /\ counts[r] = NoCounts
  BY <1>1, AtJob, JobTypes DEF RunnerRight, Position, Reporting, Held, Tally, Writing
<1>3. DiskTypes' /\ FilesRight' /\ OtherTypes'
  BY <1>1, DiskKept DEF Types, DataInv, OtherTypes
<1>4. CASE Goto(r, "model") /\ UNCHANGED <<job, positionVars, results, file>>
  <2>1. pc' \in [Runners -> Steps] /\ pc'[r] = "model" /\ \A b \in Runners \ {r} : pc'[b] = pc[b]
    BY <1>1, <1>4, GotoRight, StepsType
  <2>2. RunnerTypes' /\ Others(r)
    BY <1>1, <1>4, <2>1 DEF RunnerTypes, Others, Steady, positionVars
  <2>3. RunnerRight(r)'
    BY <1>2, <1>4, <2>1 DEF RunnerRight, Position, Reporting, Held, Tally, Writing, positionVars
  <2> QED
    BY <1>3, <2>2, <2>3, Combine
<1>5. CASE StartWrite(r, Manifest, DirectoryOf(r)) /\ UNCHANGED <<job, positionVars, results>>
  <2>1. Manifest \in Names /\ DirectoryOf(r) \in Values
    BY <1>2 DEF Names, Values
  <2>2. /\ RunnerTypes'
        /\ pc'[r] = "open"
        /\ file'[r] = [name |-> Manifest, value |-> DirectoryOf(r), at |-> "closed"]
        /\ \A b \in Runners \ {r} : pc'[b] = pc[b] /\ file'[b] = file[b]
    <3>1. /\ UNCHANGED <<job, model, language, results>>
          /\ offset' \in [Runners -> Nat] /\ counts' = [b \in Runners |-> counts'[b]]
      BY <1>1, <1>5 DEF RunnerTypes, positionVars
    <3> QED
      BY <1>1, <1>5, <2>1, <3>1, StartWriteRight
  <2>3. Others(r)
    BY <1>5, <2>2 DEF Others, Steady, positionVars
  <2>4. DirectoryOf(r)' = DirectoryOf(r) /\ DirectoryOf(r) \in Whole(DirectoryOf(r), Manifest)
    BY <1>2, <1>5, WholeFiles DEF DirectoryOf
  <2>5. RunnerRight(r)'
    BY <1>2, <1>5, <2>2, <2>4 DEF RunnerRight, Position, Reporting, Held, Tally, Writing, positionVars
  <2> QED
    BY <1>3, <2>2, <2>3, <2>5, Combine
<1>6. CASE Finish(r)
  <2>1. RunnerTypes' /\ RunnerRight(r)' /\ Others(r)
    BY <1>1, <1>6, FinishRight DEF Others
  <2> QED
    BY <1>3, <2>1, Combine
<1> QED
  BY <1>4, <1>5, <1>6 DEF OpenCheckpoints

\* Loading a model changes no result.
LEMMA LoadModelRight ==
  ASSUME Types, DataInv, NEW r \in Runners, LoadModel(r)
  PROVE  Types' /\ DataInv' /\ Others(r)
<1>1. /\ RunnerTypes /\ pc[r] = "model" /\ RunnerRight(r) /\ Goto(r, "language")
      /\ UNCHANGED <<tree, disk, report, job, positionVars, results, file, reported, marred>>
  BY DEF Types, DataInv, LoadModel
<1>2. DiskTypes' /\ FilesRight' /\ OtherTypes'
  BY <1>1, DiskKept DEF Types, DataInv, OtherTypes
<1>3. pc' \in [Runners -> Steps] /\ pc'[r] = "language" /\ \A b \in Runners \ {r} : pc'[b] = pc[b]
  BY <1>1, GotoRight, StepsType
<1>4. RunnerTypes' /\ Others(r)
  BY <1>1, <1>3 DEF RunnerTypes, Others, Steady, positionVars
<1>5. RunnerRight(r)'
  BY <1>1, <1>3 DEF RunnerRight, Position, Reporting, Held, Tally, Writing, positionVars
<1> QED
  BY <1>2, <1>4, <1>5, Combine


\* One batch more.
Grows(j, m, lang, D, R) ==
  AddCounts(CountsOf(j, m, {lang} \X D), Scored(m, j.commit, lang, R))
    = CountsOf(j, m, {lang} \X (D \cup R))

\* Rows are counted once.
LEMMA MoreRows ==
  ASSUME NEW j \in Jobs, NEW m \in DOMAIN BatchSize, NEW lang \in LanguageSet,
         NEW D \in SUBSET DOMAIN RowsOf[lang], NEW R \in SUBSET DOMAIN RowsOf[lang], D \cap R = {}
  PROVE  Grows(j, m, lang, D, R)
<1> DEFINE old == CountsOf(j, m, {lang} \X D)
<1> DEFINE new == CountsOf(j, m, {lang} \X R)
<1> DEFINE all == CountsOf(j, m, {lang} \X (D \cup R))
<1>1. {lang} \X D \in SUBSET AllRows /\ IsFiniteSet({lang} \X D)
  BY RowsOfLanguage
<1>2. {lang} \X R \in SUBSET AllRows /\ IsFiniteSet({lang} \X R)
  BY RowsOfLanguage
<1>3. /\ {lang} \X (D \cup R) = ({lang} \X D) \cup ({lang} \X R)
      /\ ({lang} \X D) \cap ({lang} \X R) = {}
  OBVIOUS
<1>4. \A field \in Fields : all[field] = old[field] + new[field]
  BY <1>1, <1>2, <1>3, CountsSplit
<1>5. all = [field \in Fields |-> all[field]]
  BY DEF CountsOf
<1>6. AddCounts(old, Scored(m, j.commit, lang, R)) = Plus(old, new)
  <2>1. Adds(j, m, lang, R, old)
    <3> HIDE DEF old
    <3> QED BY BatchCounts
  <2> QED
    BY <2>1 DEF Adds
<1> HIDE DEF old, new, all
<1>7. /\ all.tp = old.tp + new.tp /\ all.fp = old.fp + new.fp /\ all.fn = old.fn + new.fn
      /\ all.sentences = old.sentences + new.sentences
      /\ all.malformed = old.malformed + new.malformed
      /\ all.invalid = old.invalid + new.invalid
  BY <1>4 DEF Fields
<1>8. all = [tp |-> all.tp, fp |-> all.fp, fn |-> all.fn, sentences |-> all.sentences,
             malformed |-> all.malformed, invalid |-> all.invalid]
  BY <1>5 DEF Fields
<1>9. Plus(old, new) = all
  BY <1>7, <1>8 DEF Plus
<1> QED
  BY <1>6, <1>9 DEF Grows, old, all

ScoresOn(j, x, a, b) ==
  AddCounts(CountsOf(j, x[1], ScoredRows(x, a)), Scored(x[1], j.commit, x[2], a + 1 .. b))
    = CountsOf(j, x[1], ScoredRows(x, b))

\* A batch adds its rows to those that are counted, whatever the batch size.
THEOREM BatchMore ==
  ASSUME NEW j \in Jobs, NEW x \in Pairs, NEW a \in Nat, NEW b \in Nat, a <= b,
         b <= ExampleCount(j.command, x[2])
  PROVE  ScoresOn(j, x, a, b)
<1> DEFINE m == x[1]
<1> DEFINE lang == x[2]
<1> DEFINE size == ExampleCount(j.command, x[2])
<1> DEFINE D == 1 .. a
<1> DEFINE R == a + 1 .. b
<1>1. m \in DOMAIN BatchSize /\ lang \in LanguageSet
  BY PairTypes
<1>2. size \in Nat /\ b <= size /\ 1 .. size \in SUBSET DOMAIN RowsOf[lang]
  BY <1>1, LimitType
<1>3. D \subseteq 1 .. size /\ R \subseteq 1 .. size
  <2> HIDE DEF size
  <2> QED BY <1>2
<1>4. D \cup R = 1 .. b /\ D \cap R = {}
  OBVIOUS
<1>5. /\ ScoredRows(x, a) = {lang} \X D /\ ScoredRows(x, b) = {lang} \X (D \cup R)
  BY <1>4 DEF ScoredRows
<1>6. D \in SUBSET DOMAIN RowsOf[lang] /\ R \in SUBSET DOMAIN RowsOf[lang]
  BY <1>2, <1>3
<1>7. R = a + 1 .. b
  OBVIOUS
<1> HIDE DEF D, R, m, lang
<1>8. Grows(j, m, lang, D, R)
  BY <1>1, <1>4, <1>6, MoreRows
<1> QED
  BY <1>5, <1>7, <1>8 DEF Grows, ScoresOn, m, lang

\* Scoring ends with the result of all the rows at once.
LEMMA ScoredWhole ==
  ASSUME NEW j \in Jobs, NEW x \in Pairs,
         SupportStatus(x[1], x[2], j.command.transfer) # "not_evaluated_english_only"
  PROVE  Result(j.command, x, CountsOf(j, x[1], ScoredRows(x, ExampleCount(j.command, x[2]))))
           = Fresh(j, x)
<1>1. j.command.transfer \in BOOLEAN
  BY JobTypes, CommandsAssumption
<1>2. ~(x[1] = "spacy_en" /\ x[2] # "en" /\ ~j.command.transfer)
  BY <1>1, SupportType
<1>3. ScoredRows(x, ExampleCount(j.command, x[2])) = RowPairs(j, {x[2]})
  BY DEF ScoredRows, RowPairs
<1>4. FreshCounts(j, x[1], {x[2]}) = CountsOf(j, x[1], RowPairs(j, {x[2]}))
  BY PairTypes, FreshIsCounts
<1> QED
  BY <1>2, <1>3, <1>4 DEF Fresh

\* What is not evaluated has no counts.
LEMMA NotScored ==
  ASSUME NEW j \in Jobs, NEW x \in Pairs,
         SupportStatus(x[1], x[2], j.command.transfer) = "not_evaluated_english_only"
  PROVE  Fresh(j, x) = NotEvaluated
<1>1. j.command.transfer \in BOOLEAN
  BY JobTypes, CommandsAssumption
<1> QED
  BY <1>1, SupportType DEF Fresh

\* load_language takes a stored result for the fresh one, which it is.
LEMMA LoadLanguageRight ==
  ASSUME Types, DataInv, NEW r \in Runners, LoadLanguage(r)
  PROVE  Types' /\ DataInv' /\ Others(r)
<1> DEFINE stored == disk[DirectoryOf(r)][Pair(r)].path
<1> DEFINE support == SupportStatus(Pair(r)[1], Pair(r)[2], job[r].command.transfer)
<1>1. /\ RunnerTypes /\ pc[r] = "language" /\ RunnerRight(r)
      /\ UNCHANGED <<tree, disk, report, reported, marred>>
  BY DEF Types, DataInv, LoadLanguage
<1>2. /\ job[r] \in Jobs /\ DirectoryOf(r) \in Keys
      /\ results[r] = [x \in Before(job[r], model[r], language[r]) |-> Fresh(job[r], x)]
      /\ model[r] \in DOMAIN job[r].command.models /\ language[r] \in DOMAIN Languages
      /\ file[r] = NoFile /\ offset[r] = 0 /\ counts[r] = NoCounts
      /\ Pair(r) \in Pairs /\ Whole(DirectoryOf(r), Pair(r)) = {Fresh(job[r], Pair(r))}
  BY <1>1, AtJob DEF RunnerRight, Position, Reporting, Held, Tally, Writing
<1>3. stored \in {Absent, Empty, Mixed, Fresh(job[r], Pair(r))}
  BY <1>2, PairTypes DEF DataInv, FilesRight, Rightful
<1>4. DiskTypes' /\ FilesRight' /\ OtherTypes'
  BY <1>1, DiskKept DEF Types, DataInv, OtherTypes
<1> HIDE DEF stored, support
<1>5. CASE stored \notin {Absent, Empty, Mixed} /\ Advance(r, stored) /\ UNCHANGED <<job, offset, counts, file>>
  <2>1. stored = Fresh(job[r], Pair(r)) /\ file' \in [Runners -> Files] /\ file'[r] = NoFile
    BY <1>1, <1>2, <1>3, <1>5 DEF RunnerTypes
  <2>2. /\ RunnerTypes' /\ RunnerRight(r)'
        /\ \A b \in Runners \ {r} : /\ pc'[b] = pc[b] /\ model'[b] = model[b]
                                    /\ language'[b] = language[b] /\ results'[b] = results[b]
    BY <1>1, <1>2, <1>5, <2>1, AdvanceRight
  <2>3. Others(r)
    BY <1>5, <2>2 DEF Others, Steady
  <2> QED
    BY <1>4, <2>2, <2>3, Combine
<1>6. CASE Finish(r)
  <2>1. RunnerTypes' /\ RunnerRight(r)' /\ Others(r)
    BY <1>1, <1>6, FinishRight DEF Others
  <2> QED
    BY <1>4, <2>1, Combine
<1>7. CASE /\ support = "not_evaluated_english_only"
           /\ StartWrite(r, Pair(r), NotEvaluated) /\ UNCHANGED <<job, positionVars, results>>
  <2>1. NotEvaluated = Fresh(job[r], Pair(r))
    BY <1>2, <1>7, NotScored DEF support
  <2>2. NotEvaluated \in Values /\ Pair(r) \in Names
    BY <1>2, <2>1, ResultType, PairTypes DEF Values
  <2>3. /\ RunnerTypes'
        /\ pc'[r] = "open"
        /\ file'[r] = [name |-> Pair(r), value |-> NotEvaluated, at |-> "closed"]
        /\ \A b \in Runners \ {r} : pc'[b] = pc[b] /\ file'[b] = file[b]
    <3>1. /\ UNCHANGED <<job, model, language, results>>
          /\ offset' \in [Runners -> Nat] /\ counts' = [b \in Runners |-> counts'[b]]
      BY <1>1, <1>7 DEF RunnerTypes, positionVars
    <3> QED
      BY <1>1, <1>7, <2>2, <3>1, StartWriteRight
  <2>4. Others(r)
    BY <1>7, <2>3 DEF Others, Steady, positionVars
  <2>5. /\ DirectoryOf(r)' = DirectoryOf(r) /\ Pair(r)' = Pair(r)
        /\ NotEvaluated \in Whole(DirectoryOf(r), Pair(r))
    BY <1>2, <1>7, <2>1 DEF DirectoryOf, Pair, positionVars
  <2>6. RunnerRight(r)'
    BY <1>2, <1>7, <2>3, <2>5 DEF RunnerRight, Position, Reporting, Held, Tally, Writing, positionVars
  <2> QED
    BY <1>4, <2>3, <2>4, <2>6, Combine
<1>8. CASE /\ support # "not_evaluated_english_only"
           /\ Goto(r, "score") /\ UNCHANGED <<job, positionVars, results, file>>
  <2>1. pc' \in [Runners -> Steps] /\ pc'[r] = "score" /\ \A b \in Runners \ {r} : pc'[b] = pc[b]
    BY <1>1, <1>8, GotoRight, StepsType
  <2>2. RunnerTypes' /\ Others(r)
    BY <1>1, <1>8, <2>1 DEF RunnerTypes, Others, Steady, positionVars
  <2>3. NoCounts = CountsOf(job[r], Pair(r)[1], ScoredRows(Pair(r), 0))
    <3>1. ScoredRows(Pair(r), 0) = {}
      BY DEF ScoredRows
    <3> QED
      BY <3>1, CountsOfNone
  <2>4. 0 <= ExampleCount(job[r].command, Pair(r)[2])
    <3>1. ExampleCount(job[r].command, Pair(r)[2]) \in Nat
      BY <1>2, PairTypes, LimitType
    <3>2. \A n \in Nat : 0 <= n
      OBVIOUS
    <3> QED
      BY <3>1, <3>2, Zenon
  <2>5. Tally(r)'
    BY <1>2, <1>8, <2>1, <2>3, <2>4 DEF Tally, support, positionVars, Pair
  <2>6. RunnerRight(r)'
    BY <1>2, <1>8, <2>1, <2>5 DEF RunnerRight, Position, Reporting, Held, Writing, positionVars
  <2> QED
    BY <1>4, <2>2, <2>6, Combine
<1> QED
  BY <1>5, <1>6, <1>7, <1>8 DEF LoadLanguage, stored, support


\* The last batch completes the counts of the language.
LEMMA ScoreBatchRight ==
  ASSUME Types, DataInv, NEW r \in Runners, ScoreBatch(r)
  PROVE  Types' /\ DataInv' /\ Others(r)
<1> DEFINE m == Pair(r)[1]
<1> DEFINE lang == Pair(r)[2]
<1> DEFINE size == ExampleCount(job[r].command, lang)
<1> DEFINE last == Smaller(offset[r] + BatchSize[m], size)
<1> DEFINE total == AddCounts(counts[r], Scored(m, job[r].commit, lang, offset[r] + 1 .. last))
<1>1. /\ RunnerTypes /\ pc[r] = "score" /\ RunnerRight(r)
      /\ UNCHANGED <<tree, disk, report, job, model, language, results, reported, marred>>
  BY DEF Types, DataInv, ScoreBatch
<1>2. /\ job[r] \in Jobs /\ DirectoryOf(r) \in Keys
      /\ results[r] = [x \in Before(job[r], model[r], language[r]) |-> Fresh(job[r], x)]
      /\ model[r] \in DOMAIN job[r].command.models /\ language[r] \in DOMAIN Languages
      /\ file[r] = NoFile
      /\ Pair(r) \in Pairs /\ Whole(DirectoryOf(r), Pair(r)) = {Fresh(job[r], Pair(r))}
  BY <1>1, AtJob DEF RunnerRight, Position, Reporting, Held, Writing
<1>3. /\ offset[r] <= size
      /\ SupportStatus(Pair(r)[1], Pair(r)[2], job[r].command.transfer) # "not_evaluated_english_only"
      /\ counts[r] = CountsOf(job[r], Pair(r)[1], ScoredRows(Pair(r), offset[r]))
  BY <1>1 DEF RunnerRight, Tally
<1>4. offset[r] \in Nat /\ size \in Nat /\ BatchSize[m] \in Nat \ {0}
  BY <1>1, <1>2, PairTypes, LimitType, ModelsAssumption DEF RunnerTypes
<1>5. last \in Nat /\ offset[r] <= last /\ last <= size /\ (~(last < size) => last = size)
  <2> DEFINE o == offset[r]
  <2> DEFINE b == BatchSize[m]
  <2>1. \A i, k, s \in Nat : 
    (i <= s) => (/\ Smaller(i + k, s) \in Nat /\ i <= Smaller(i + k, s)
                 /\ Smaller(i + k, s) <= s
                 /\ (~(Smaller(i + k, s) < s) => Smaller(i + k, s) = s))
    BY DEF Smaller
  <2>2. o \in Nat /\ b \in Nat /\ size \in Nat /\ o <= size
    BY <1>3, <1>4
  <2> HIDE DEF o, b, size
  <2>3. /\ Smaller(o + b, size) \in Nat /\ o <= Smaller(o + b, size)
        /\ Smaller(o + b, size) <= size
        /\ ~(Smaller(o + b, size) < size) => Smaller(o + b, size) = size
    BY <2>1, <2>2
  <2> QED
    BY <2>3 DEF o, b
<1>6. total = CountsOf(job[r], Pair(r)[1], ScoredRows(Pair(r), last))
  <2>1. ScoresOn(job[r], Pair(r), offset[r], last)
    <3> HIDE DEF last
    <3> QED
      BY <1>2, <1>4, <1>5, BatchMore
  <2> QED
    BY <1>3, <2>1 DEF ScoresOn
<1>7. DiskTypes' /\ FilesRight' /\ OtherTypes'
  BY <1>1, DiskKept DEF Types, DataInv, OtherTypes
<1>8. /\ counts = [b \in Runners |-> counts[b]] /\ offset \in [Runners -> Nat]
      /\ pc \in [Runners -> Steps] /\ file \in [Runners -> Files]
  BY <1>1 DEF RunnerTypes
<1>9. \/ /\ last < size
         /\ counts' = [counts EXCEPT ![r] = total] /\ offset' = [offset EXCEPT ![r] = last]
         /\ UNCHANGED <<pc, file>>
      \/ /\ ~(last < size)
         /\ counts' = [counts EXCEPT ![r] = NoCounts] /\ offset' = [offset EXCEPT ![r] = 0]
         /\ StartWrite(r, Pair(r), Result(job[r].command, Pair(r), total))
  BY DEF ScoreBatch
<1>10. DirectoryOf(r)' = DirectoryOf(r) /\ Pair(r)' = Pair(r)
  BY <1>1 DEF DirectoryOf, Pair
<1>11. CASE /\ last < size
            /\ counts' = [counts EXCEPT ![r] = total] /\ offset' = [offset EXCEPT ![r] = last]
            /\ UNCHANGED <<pc, file>>
  <2> HIDE DEF last, total, size
  <2>1. /\ counts'[r] = total /\ offset'[r] = last
        /\ counts' = [b \in Runners |-> counts'[b]] /\ offset' \in [Runners -> Nat]
        /\ \A b \in Runners \ {r} : counts'[b] = counts[b] /\ offset'[b] = offset[b]
    BY <1>5, <1>8, <1>11
  <2>2. RunnerTypes' /\ Others(r)
    BY <1>1, <1>11, <2>1 DEF RunnerTypes, Others, Steady
  <2>3. Tally(r)'
    <3>1. ExampleCount(job[r].command, Pair(r)[2]) = size
      BY DEF size
    <3> QED
      BY <1>1, <1>3, <1>5, <1>6, <1>10, <1>11, <2>1, <3>1 DEF Tally
  <2>4. RunnerRight(r)'
    BY <1>1, <1>10, <1>11, <2>3 DEF RunnerRight, Position, Reporting, Held, Writing
  <2> QED
    BY <1>7, <2>2, <2>4, Combine
<1>12. CASE /\ ~(last < size)
            /\ counts' = [counts EXCEPT ![r] = NoCounts] /\ offset' = [offset EXCEPT ![r] = 0]
            /\ StartWrite(r, Pair(r), Result(job[r].command, Pair(r), total))
  <2>1. Result(job[r].command, Pair(r), total) = Fresh(job[r], Pair(r))
    <3>1. last = ExampleCount(job[r].command, Pair(r)[2])
      BY <1>5, <1>12
    <3> HIDE DEF last, total, size
    <3>2. total = CountsOf(job[r], Pair(r)[1], ScoredRows(Pair(r), ExampleCount(job[r].command, Pair(r)[2])))
      BY <1>6, <3>1
    <3>3. Result(job[r].command, Pair(r),
                 CountsOf(job[r], Pair(r)[1],
                          ScoredRows(Pair(r), ExampleCount(job[r].command, Pair(r)[2]))))
            = Fresh(job[r], Pair(r))
      BY <1>2, <1>3, ScoredWhole
    <3> QED
      BY <3>2, <3>3
  <2> HIDE DEF last, total, size
  <2>2. /\ StartWrite(r, Pair(r), Fresh(job[r], Pair(r)))
        /\ Fresh(job[r], Pair(r)) \in Values /\ Pair(r) \in Names
    BY <1>2, <1>12, <2>1, ResultType, PairTypes DEF Values
  <2>3. /\ counts'[r] = NoCounts /\ offset'[r] = 0
        /\ counts' = [b \in Runners |-> counts'[b]] /\ offset' \in [Runners -> Nat]
        /\ \A b \in Runners \ {r} : counts'[b] = counts[b] /\ offset'[b] = offset[b]
    BY <1>8, <1>12
  <2>4. /\ RunnerTypes'
        /\ pc'[r] = "open"
        /\ file'[r] = [name |-> Pair(r), value |-> Fresh(job[r], Pair(r)), at |-> "closed"]
        /\ \A b \in Runners \ {r} : pc'[b] = pc[b] /\ file'[b] = file[b]
    BY <1>1, <2>2, <2>3, StartWriteRight
  <2>5. Others(r)
    BY <1>1, <2>3, <2>4 DEF Others, Steady
  <2>6. RunnerRight(r)'
    <3>1. Tally(r)' /\ Position(r)'
      BY <1>1, <1>2, <2>3, <2>4 DEF Tally, Position, Reporting
    <3>2. Held(r)'
      BY <1>1, <1>2, <1>10, <2>4 DEF Held, Writing
    <3> QED
      BY <1>1, <1>2, <2>4, <3>1, <3>2 DEF RunnerRight
  <2> QED
    BY <1>7, <2>4, <2>5, <2>6, Combine
<1> QED
  BY <1>9, <1>11, <1>12


\* What DataInv says of a runner that writes a file.
LEMMA AtFile ==
  ASSUME Types, DataInv, NEW r \in Runners, pc[r] \in Writing
  PROVE  /\ job[r] \in Jobs /\ DirectoryOf(r) \in Keys /\ file[r].name \in Names
         /\ results[r] = [x \in Before(job[r], model[r], language[r]) |-> Fresh(job[r], x)]
         /\ language[r] \in DOMAIN Languages /\ offset[r] = 0 /\ counts[r] = NoCounts
         /\ file[r].value \in Whole(DirectoryOf(r), file[r].name)
         /\ file[r].at = "closed" <=> pc[r] = "open"
         /\ \/ file[r].name = Manifest /\ model[r] = 1 /\ language[r] = 1
            \/ /\ model[r] \in DOMAIN job[r].command.models
               /\ file[r].name = Pair(r) /\ Pair(r) \in Pairs
               /\ Whole(DirectoryOf(r), Pair(r)) = {Fresh(job[r], Pair(r))}
         /\ file[r] \in Files
         /\ file[r] = [name |-> file[r].name, value |-> file[r].value, at |-> file[r].at]
         /\ disk[DirectoryOf(r)][file[r].name].path \in Rightful(DirectoryOf(r), file[r].name)
         /\ disk[DirectoryOf(r)][file[r].name].temporary \in Rightful(DirectoryOf(r), file[r].name)
<1>1. RunnerTypes /\ RunnerRight(r) /\ pc[r] # "idle" /\ pc[r] # "score"
  BY DEF Types, DataInv, Writing
<1>2. job[r] \in Jobs /\ DirectoryOf(r) \in Keys
  BY <1>1, AtJob
<1>3. /\ results[r] = [x \in Before(job[r], model[r], language[r]) |-> Fresh(job[r], x)]
      /\ language[r] \in DOMAIN Languages /\ offset[r] = 0 /\ counts[r] = NoCounts
      /\ file[r].value \in Whole(DirectoryOf(r), file[r].name)
      /\ file[r].at = "closed" <=> pc[r] = "open"
      /\ \/ file[r].name = Manifest /\ model[r] = 1 /\ language[r] = 1
         \/ /\ model[r] \in DOMAIN job[r].command.models
            /\ file[r].name = Pair(r)
  BY <1>1 DEF RunnerRight, Position, Reporting, Tally, Held
<1>4. model[r] \in DOMAIN job[r].command.models =>
        Pair(r) \in Pairs /\ Whole(DirectoryOf(r), Pair(r)) = {Fresh(job[r], Pair(r))}
  BY <1>1, AtJob
<1>5. file[r].name \in Names
  BY <1>3, <1>4 DEF Names
<1>6. /\ file[r] \in Files
      /\ file[r] = [name |-> file[r].name, value |-> file[r].value, at |-> file[r].at]
  BY <1>1 DEF RunnerTypes, Files
<1>7. /\ disk[DirectoryOf(r)][file[r].name].path \in Rightful(DirectoryOf(r), file[r].name)
      /\ disk[DirectoryOf(r)][file[r].name].temporary \in Rightful(DirectoryOf(r), file[r].name)
  BY <1>2, <1>5 DEF DataInv, FilesRight
<1> QED
  BY <1>2, <1>3, <1>4, <1>5, <1>6, <1>7

\* Opening a temporary leaves every file right: it is cut short, not wrong.
LEMMA OpenTemporaryRight ==
  ASSUME Types, DataInv, NEW r \in Runners, OpenTemporary(r)
  PROVE  Types' /\ DataInv' /\ Others(r)
<1> DEFINE k == DirectoryOf(r)
<1> DEFINE n == file[r].name
<1>1. /\ RunnerTypes /\ pc[r] = "open" /\ pc[r] \in Writing
      /\ Goto(r, "close") /\ file' = [file EXCEPT ![r].at = "temporary"]
      /\ UNCHANGED <<tree, report, job, positionVars, results, reported, marred>>
      /\ disk' = [disk EXCEPT ![k][n].temporary = Empty]
  BY DEF Types, OpenTemporary, Writing
<1>2. /\ k \in Keys /\ n \in Names /\ file[r] \in Files
      /\ file[r] = [name |-> n, value |-> file[r].value, at |-> file[r].at]
      /\ disk[k][n].path \in Rightful(k, n) /\ Empty \in Rightful(k, n)
  BY <1>1, AtFile DEF Rightful
<1>3. DiskTypes' /\ FilesRight'
  <2> HIDE DEF k, n
  <2> QED
    BY <1>1, <1>2, TemporaryChanged DEF Types, DataInv
<1>4. OtherTypes'
  BY <1>1 DEF Types, OtherTypes
<1>5. pc' \in [Runners -> Steps] /\ pc'[r] = "close" /\ \A b \in Runners \ {r} : pc'[b] = pc[b]
  BY <1>1, GotoRight, StepsType
<1>6. /\ file' \in [Runners -> Files]
      /\ file'[r] = [name |-> n, value |-> file[r].value, at |-> "temporary"]
      /\ \A b \in Runners \ {r} : file'[b] = file[b]
  <2>1. [file[r] EXCEPT !.at = "temporary"] = [name |-> n, value |-> file[r].value, at |-> "temporary"]
    BY <1>2
  <2>2. [name |-> n, value |-> file[r].value, at |-> "temporary"] \in Files
    BY <1>2 DEF Files
  <2>3. file \in [Runners -> Files]
    BY <1>1 DEF RunnerTypes
  <2> QED
    BY <1>1, <2>1, <2>2, <2>3
<1>7. RunnerTypes' /\ Others(r)
  BY <1>1, <1>5, <1>6 DEF RunnerTypes, Others, Steady, positionVars
<1>8. RunnerRight(r)'
  <2>1. DirectoryOf(r)' = DirectoryOf(r) /\ Pair(r)' = Pair(r)
    BY <1>1 DEF DirectoryOf, Pair, positionVars
  <2>2. Held(r)'
    <3>1. /\ file'[r].name = n /\ file'[r].value = file[r].value /\ file'[r].at = "temporary"
          /\ model' = model /\ language' = language /\ job' = job
      BY <1>1, <1>6 DEF positionVars
    <3>2. /\ file[r].value \in Whole(k, n)
          /\ \/ n = Manifest /\ model[r] = 1 /\ language[r] = 1
             \/ model[r] \in DOMAIN job[r].command.models /\ n = Pair(r)
      BY <1>1, AtFile
    <3> QED
      BY <1>5, <2>1, <3>1, <3>2 DEF Held, Writing
  <2>3. Tally(r)' /\ Position(r)'
    BY <1>1, <1>5, AtFile DEF Tally, Position, Reporting, positionVars
  <2> QED
    BY <1>1, <1>5, <2>2, <2>3, AtFile DEF RunnerRight, positionVars
<1> QED
  BY <1>3, <1>4, <1>7, <1>8, Combine

\* What a runner may leave of the file it has open is right under either name.
LEMMA PutRight ==
  ASSUME Types, DataInv, NEW r \in Runners, pc[r] \in Writing, pc[r] # "open",
         NEW v \in Rightful(DirectoryOf(r), file[r].name), Put(r, v)
  PROVE  /\ DiskTypes' /\ FilesRight'
         /\ \A k \in Keys, n \in Names :
              k # DirectoryOf(r) \/ n # file[r].name => disk'[k][n] = disk[k][n]
         /\ file[r].at = "temporary" =>
              disk'[DirectoryOf(r)][file[r].name] =
                [path |-> disk[DirectoryOf(r)][file[r].name].path, temporary |-> v]
<1>1. PICK k \in Keys, n \in Names : k = DirectoryOf(r) /\ n = file[r].name
  BY AtFile
<1>2. /\ v \in Rightful(k, n) /\ file[r].at \in {"temporary", "path", "gone"}
      /\ file[r].at = "temporary" => disk' = [disk EXCEPT ![k][n].temporary = v]
      /\ file[r].at = "path" => disk' = [disk EXCEPT ![k][n].path = v]
      /\ file[r].at = "gone" => disk' = disk
  BY <1>1, AtFile DEF Put, Files
<1>3. CASE file[r].at = "temporary"
  BY <1>1, <1>2, <1>3, TemporaryChanged DEF Types, DataInv
<1>4. CASE file[r].at = "path"
  <2>1. /\ DiskTypes /\ FilesRight /\ disk' = [disk EXCEPT ![k][n].path = v]
        /\ v \in Rightful(k, n)
    BY <1>2, <1>4 DEF Types, DataInv
  <2>2. /\ DiskTypes' /\ FilesRight'
        /\ disk'[k][n] = [path |-> v, temporary |-> disk[k][n].temporary]
        /\ \A i \in Keys, x \in Names : i # k \/ x # n => disk'[i][x] = disk[i][x]
    BY <2>1, PathChanged
  <2> QED
    BY <1>1, <1>4, <2>2
<1>5. CASE file[r].at = "gone"
  BY <1>2, <1>5, DiskKept DEF Types, DataInv
<1> QED
  BY <1>2, <1>3, <1>4, <1>5

\* What is written at the close is right under either name.
LEMMA CloseTemporaryRight ==
  ASSUME Types, DataInv, ShareInv, NEW r \in Runners, CloseTemporary(r)
  PROVE  Types' /\ DataInv' /\ Others(r)
<1>1. /\ RunnerTypes /\ pc[r] = "close" /\ pc[r] \in Writing
      /\ Goto(r, "replace")
      /\ UNCHANGED <<tree, report, job, positionVars, results, file, reported, marred>>
  BY DEF Types, CloseTemporary, Writing
<1>2. PICK v \in Left(r, file[r].value) : Put(r, v)
  BY DEF CloseTemporary
<1>3. DiskTypes' /\ FilesRight'
  <2>1. file[r].value \in Whole(DirectoryOf(r), file[r].name)
    BY <1>1, AtFile
  <2>2. v = file[r].value \/ (v = Mixed /\ file[r].name # Manifest)
    BY <1>1, <1>2 DEF Left, ShareInv, Sharing
  <2>3. v \in Rightful(DirectoryOf(r), file[r].name)
    BY <2>1, <2>2 DEF Rightful
  <2> QED
    BY <1>1, <1>2, <2>3, PutRight
<1>4. OtherTypes'
  BY <1>1 DEF Types, OtherTypes
<1>5. pc' \in [Runners -> Steps] /\ pc'[r] = "replace" /\ \A b \in Runners \ {r} : pc'[b] = pc[b]
  BY <1>1, GotoRight, StepsType
<1>6. RunnerTypes' /\ Others(r)
  BY <1>1, <1>5 DEF RunnerTypes, Others, Steady, positionVars
<1>7. RunnerRight(r)'
  <2>1. DirectoryOf(r)' = DirectoryOf(r) /\ Pair(r)' = Pair(r)
    BY <1>1 DEF DirectoryOf, Pair, positionVars
  <2>2. Held(r)'
    BY <1>1, <1>5, <2>1, AtFile DEF Held, Writing, positionVars
  <2>3. Tally(r)' /\ Position(r)'
    BY <1>1, <1>5, AtFile DEF Tally, Position, Reporting, positionVars
  <2> QED
    BY <1>1, <1>5, <2>2, <2>3, AtFile DEF RunnerRight, positionVars
<1> QED
  BY <1>3, <1>4, <1>6, <1>7, Combine


\* A rename puts a right value in place, the writer's own or another's.
LEMMA ReplaceRight ==
  ASSUME Types, DataInv, NEW r \in Runners, Replace(r)
  PROVE  Types' /\ DataInv' /\ Others(r)
<1> DEFINE k == DirectoryOf(r)
<1> DEFINE n == file[r].name
<1> DEFINE t == disk[k][n].temporary
<1>1. /\ RunnerTypes /\ pc[r] = "replace" /\ pc[r] \in Writing /\ RunnerRight(r)
      /\ UNCHANGED <<tree, report, reported, marred>>
  BY DEF Types, DataInv, Replace, Writing
<1>2. /\ k \in Keys /\ n \in Names /\ t \in Rightful(k, n) /\ Absent \in Rightful(k, n)
  BY <1>1, AtFile DEF Rightful
<1>3. OtherTypes'
  BY <1>1 DEF Types, OtherTypes
<1>4. CASE t = Absent
  <2>1. Finish(r) /\ UNCHANGED disk
    BY <1>4 DEF Replace
  <2>2. RunnerTypes' /\ RunnerRight(r)' /\ Others(r)
    BY <1>1, <2>1, FinishRight DEF Others
  <2>3. DiskTypes' /\ FilesRight'
    BY <2>1, DiskKept DEF Types, DataInv
  <2> QED
    BY <1>3, <2>2, <2>3, Combine
<1>5. CASE t # Absent
  <2>1. /\ Rewrites(k, n, t, Absent)
        /\ file' = [Carried(r) EXCEPT ![r] = NoFile]
        /\ UNCHANGED <<job, offset, counts>>
    BY <1>5 DEF Replace, Rewrites
  <2>2. /\ n = Manifest => Goto(r, "model") /\ UNCHANGED <<model, language, results>>
        /\ n # Manifest => Advance(r, file[r].value)
    BY <1>5 DEF Replace
  <2>3. DiskTypes' /\ FilesRight'
    <3> HIDE DEF k, n, t
    <3> QED
      BY <1>2, <2>1, DiskChanged DEF Types, DataInv
  <2>4. /\ file' \in [Runners -> Files] /\ file'[r] = NoFile
        /\ \A b \in Runners \ {r} : file'[b] = Carried(r)[b]
    BY <1>1, <2>1, CarriedRight, FilesType
  <2>5. ASSUME NEW b \in Runners \ {r}
        PROVE  /\ file'[b].name = file[b].name /\ file'[b].value = file[b].value
               /\ file'[b].at = "closed" <=> file[b].at = "closed"
               /\ file[b] = NoFile => file'[b] = NoFile
               /\ file'[b] = file[b] \/ Busy(b, DirectoryOf(r))
    BY <1>1, <2>4, CarriedRight
  <2>6. CASE n = Manifest
    <3>1. model[r] = 1 /\ language[r] = 1
      BY <1>1, <2>6, AtFile, PairTypes
    <3>2. pc' \in [Runners -> Steps] /\ pc'[r] = "model" /\ \A b \in Runners \ {r} : pc'[b] = pc[b]
      BY <1>1, <2>2, <2>6, GotoRight, StepsType
    <3>3. RunnerTypes'
      BY <1>1, <2>1, <2>2, <2>4, <2>6, <3>2 DEF RunnerTypes
    <3>4. Others(r)
      BY <2>1, <2>2, <2>5, <2>6, <3>2 DEF Others, Steady
    <3>5. RunnerRight(r)'
      <4>1. /\ job'[r] \in Jobs /\ 1 \in DOMAIN job'[r].command.models
            /\ model'[r] = 1 /\ language'[r] = 1 /\ language'[r] \in DOMAIN Languages
            /\ results'[r] = [x \in Before(job'[r], model'[r], language'[r]) |-> Fresh(job'[r], x)]
            /\ offset'[r] = 0 /\ counts'[r] = NoCounts
        <5>1. /\ job' = job /\ model' = model /\ language' = language /\ results' = results
              /\ offset' = offset /\ counts' = counts
          BY <2>1, <2>2, <2>6
        <5>2. /\ job[r] \in Jobs /\ language[r] \in DOMAIN Languages
              /\ results[r] = [x \in Before(job[r], model[r], language[r]) |-> Fresh(job[r], x)]
              /\ offset[r] = 0 /\ counts[r] = NoCounts
          BY <1>1, AtFile
        <5>3. 1 \in DOMAIN job[r].command.models
          BY <5>2, JobTypes
        <5> QED
          BY <3>1, <5>1, <5>2, <5>3
      <4> QED
        BY <2>4, <3>2, <4>1 DEF RunnerRight, Position, Reporting, Held, Tally, Writing
    <3> QED
      BY <1>3, <2>3, <3>3, <3>4, <3>5, Combine
  <2>7. CASE n # Manifest
    <3>1. model[r] \in DOMAIN job[r].command.models /\ file[r].value = Fresh(job[r], Pair(r))
      BY <1>1, <2>7, AtFile
    <3>2. Advance(r, Fresh(job[r], Pair(r)))
      BY <2>2, <2>7, <3>1
    <3>3. /\ RunnerTypes' /\ RunnerRight(r)'
          /\ \A b \in Runners \ {r} : /\ pc'[b] = pc[b] /\ model'[b] = model[b]
                                      /\ language'[b] = language[b] /\ results'[b] = results[b]
      <4>1. pc[r] \in {"language", "replace"}
        BY <1>1
      <4> QED
        BY <1>1, <2>1, <2>4, <3>1, <3>2, <4>1, AdvanceRight
    <3>4. Others(r)
      BY <2>1, <2>5, <3>3 DEF Others, Steady
    <3> QED
      BY <1>3, <2>3, <3>3, <3>4, Combine
  <2> QED
    BY <2>6, <2>7
<1> QED
  BY <1>4, <1>5

\* A report has two files.
LEMMA ReportKept ==
  ASSUME NEW v \in Written, report \in [json : Written, markdown : Written]
  PROVE  /\ [report EXCEPT !.json = v] \in [json : Written, markdown : Written]
         /\ [report EXCEPT !.markdown = v] \in [json : Written, markdown : Written]
OBVIOUS

\* A report is written when every pair of the job has its result.
LEMMA OwnReport ==
  ASSUME NEW r \in Runners, RunnerRight(r), pc[r] \in Reporting
  PROVE  [job |-> job[r], rows |-> results[r]] \in FreshReports
<1>1. /\ job[r] \in Jobs /\ model[r] = Len(job[r].command.models) + 1 /\ language[r] = 1
      /\ results[r] = [x \in Before(job[r], model[r], language[r]) |-> Fresh(job[r], x)]
  BY DEF RunnerRight, Position, Reporting
<1>2. Before(job[r], model[r], language[r]) = Selected(job[r].command) \X LanguageSet
  BY <1>1, Ending
<1>3. results[r] = FreshRows(job[r])
  BY <1>1, <1>2 DEF FreshRows
<1> QED
  BY <1>1, <1>3 DEF FreshReports

\* So what it leaves is a report, or the bytes of two.
LEMMA ReportRight ==
  ASSUME NEW r \in Runners, RunnerRight(r), pc[r] \in Reporting
  PROVE  Left(r, [job |-> job[r], rows |-> results[r]]) \subseteq Written
BY OwnReport DEF Written, Unmixed, Left

\* A report that is opened is empty.
LEMMA OpenReportRight ==
  ASSUME Types, DataInv, NEW r \in Runners, OpenReport(r)
  PROVE  Types' /\ DataInv' /\ Others(r)
<1>1. PICK step \in {"json_close", "markdown_close"} : Goto(r, step)
  BY DEF OpenReport, CloseOf
<1>2. /\ RunnerTypes /\ pc[r] \in {"json", "markdown"} /\ RunnerRight(r)
      /\ \/ report' = [report EXCEPT !.json = Empty]
         \/ report' = [report EXCEPT !.markdown = Empty]
      /\ UNCHANGED <<tree, disk, job, positionVars, results, file, reported, marred>>
  BY DEF Types, DataInv, OpenReport, CloseOf
<1>3. DiskTypes' /\ FilesRight'
  BY <1>2, DiskKept DEF Types, DataInv
<1>4. OtherTypes'
  <2>1. Empty \in Written
    BY DEF Written, Unmixed
  <2> QED
    BY <1>2, <2>1, ReportKept DEF Types, OtherTypes
<1>5. pc' \in [Runners -> Steps] /\ pc'[r] = step /\ \A b \in Runners \ {r} : pc'[b] = pc[b]
  BY <1>1, <1>2, GotoRight, StepsType
<1>6. RunnerTypes' /\ Others(r)
  BY <1>2, <1>5 DEF RunnerTypes, Others, Steady, positionVars
<1>7. RunnerRight(r)'
  BY <1>2, <1>5 DEF RunnerRight, Position, Reporting, Held, Tally, Writing, positionVars
<1> QED
  BY <1>3, <1>4, <1>6, <1>7, Combine

\* report.json says what the results are, or mixes what two runs say.
LEMMA CloseJsonRight ==
  ASSUME Types, DataInv, NEW r \in Runners, CloseJson(r)
  PROVE  Types' /\ DataInv' /\ Others(r)
<1>1. /\ RunnerTypes /\ pc[r] = "json_close" /\ RunnerRight(r) /\ Goto(r, "markdown")
      /\ \E v \in Left(r, [job |-> job[r], rows |-> results[r]]) :
           report' = [report EXCEPT !.json = v]
      /\ UNCHANGED <<tree, disk, job, positionVars, results, file, reported, marred>>
  BY DEF Types, DataInv, CloseJson
<1>2. DiskTypes' /\ FilesRight'
  BY <1>1, DiskKept DEF Types, DataInv
<1>3. OtherTypes'
  <2>1. pc[r] \in Reporting
    BY <1>1 DEF Reporting
  <2> QED
    BY <1>1, <2>1, ReportRight, ReportKept DEF Types, OtherTypes
<1>4. pc' \in [Runners -> Steps] /\ pc'[r] = "markdown" /\ \A b \in Runners \ {r} : pc'[b] = pc[b]
  BY <1>1, GotoRight, StepsType
<1>5. RunnerTypes' /\ Others(r)
  BY <1>1, <1>4 DEF RunnerTypes, Others, Steady, positionVars
<1>6. RunnerRight(r)'
  BY <1>1, <1>4 DEF RunnerRight, Position, Reporting, Held, Tally, Writing, positionVars
<1> QED
  BY <1>2, <1>3, <1>5, <1>6, Combine

\* So does report.md.
LEMMA CloseMarkdownRight ==
  ASSUME Types, DataInv, NEW r \in Runners, CloseMarkdown(r)
  PROVE  Types' /\ DataInv' /\ Others(r)
<1>1. /\ RunnerTypes /\ pc[r] = "markdown_close" /\ RunnerRight(r) /\ Finish(r) /\ job[r] \in Jobs
      /\ \E v \in Left(r, [job |-> job[r], rows |-> results[r]]) :
           report' = [report EXCEPT !.markdown = v]
      /\ reported' = reported \cup {job[r]}
      /\ UNCHANGED <<tree, disk, marred>>
  BY DEF Types, DataInv, CloseMarkdown, RunnerRight
<1>2. DiskTypes' /\ FilesRight'
  BY <1>1, DiskKept DEF Types, DataInv
<1>3. OtherTypes'
  <2>1. pc[r] \in Reporting
    BY <1>1 DEF Reporting
  <2> QED
    BY <1>1, <2>1, ReportRight, ReportKept DEF Types, OtherTypes
<1>4. RunnerTypes' /\ RunnerRight(r)' /\ Others(r)
  BY <1>1, FinishRight DEF Others
<1> QED
  BY <1>2, <1>3, <1>4, Combine

\* A run that is killed leaves right files behind.
LEMMA StopRight ==
  ASSUME Types, DataInv, ShareInv, NEW r \in Runners, Stop(r)
  PROVE  Types' /\ DataInv' /\ Others(r)
<1>1. /\ RunnerTypes /\ pc[r] # "idle" /\ RunnerRight(r) /\ Finish(r) /\ DirectoryOf(r) \in Keys
      /\ marred' \subseteq marred \cup {DirectoryOf(r)}
      /\ UNCHANGED <<tree, reported>>
  BY AtJob DEF Types, DataInv, Stop
<1>2. DiskTypes' /\ FilesRight'
  <2>1. CASE UNCHANGED disk
    BY <2>1, DiskKept DEF Types, DataInv
  <2>2. CASE r \in shared /\ pc[r] = "close" /\ Put(r, Mixed)
    <3>1. Mixed \in Rightful(DirectoryOf(r), file[r].name)
      BY <2>2 DEF ShareInv, Sharing, Rightful
    <3> QED
      BY <2>2, <3>1, PutRight DEF Writing
  <2> QED
    BY <2>1, <2>2 DEF Stop
<1>3. OtherTypes'
  <2>1. report \in [json : Written, markdown : Written] /\ Mixed \in Written
    BY DEF Types, OtherTypes, Written, Unmixed
  <2>2. \/ report' = report
        \/ report' = [report EXCEPT !.json = Mixed]
        \/ report' = [report EXCEPT !.markdown = Mixed]
    BY DEF Stop
  <2>3. report' \in [json : Written, markdown : Written]
    BY <2>1, <2>2, ReportKept
  <2> QED
    BY <1>1, <2>3 DEF Types, OtherTypes
<1>4. RunnerTypes' /\ RunnerRight(r)' /\ Others(r)
  BY <1>1, FinishRight DEF Others
<1> QED
  BY <1>2, <1>3, <1>4, Combine

\* An edit of the work tree changes no run that has begun.
LEMMA EditRight ==
  ASSUME Types, DataInv, Edit
  PROVE  Types' /\ DataInv'
<1>1. /\ tree' \in Commits \cup {Dirty}
      /\ UNCHANGED <<disk, report, runVars, reported, marred>>
  BY DEF Edit
<1>2. Types'
  BY <1>1 DEF Types, RunnerTypes, DiskTypes, OtherTypes, runVars, positionVars
<1>3. FilesRight'
  BY <1>1 DEF DataInv, FilesRight
<1>4. \A r \in Runners : RunnerRight(r)'
  <2> SUFFICES ASSUME NEW r \in Runners PROVE RunnerRight(r)'
    OBVIOUS
  <2>1. Steady(r)
    BY <1>1 DEF Steady, runVars, positionVars
  <2> QED
    BY <2>1, SteadyRight DEF DataInv
<1> QED
  BY <1>2, <1>3, <1>4 DEF DataInv

\* A step keeps ShareInv if it lets in none but runners with a file open, and
\* mixes nothing where no run overlapped.
LEMMA ShareKept ==
  ASSUME ShareInv, NEW r \in Runners, pc[r] # "idle", Others(r), UNCHANGED overlaps,
         marred \subseteq marred', pc'[r] = "idle" \/ job'[r] = job[r],
         \A b \in shared' \ {r} : b \in Runners /\ Sharing(b),
         r \in shared' => Sharing(r)',
         shared' # {} => overlaps > 0,
         overlaps > 0 \/ {report'.json, report'.markdown} \subseteq Unmixed
  PROVE  ShareInv'
<1>1. ASSUME NEW b \in Runners, pc'[b] # "idle"
      PROVE  pc[b] # "idle" /\ DirectoryOf(b)' = DirectoryOf(b)
  BY <1>1 DEF Others, Steady, DirectoryOf
<1>2. ASSUME NEW a \in Runners, NEW b \in Runners, a # b, pc'[a] # "idle", pc'[b] # "idle"
      PROVE  Together(a, b)'
  <2>1. Together(a, b)
    BY <1>1, <1>2 DEF ShareInv
  <2> QED
    BY <1>1, <1>2, <2>1 DEF Together
<1>3. ASSUME NEW b \in shared'
      PROVE  b \in Runners /\ Sharing(b)'
  <2>1. CASE b # r
    <3>1. b \in Runners /\ Sharing(b) /\ Steady(b)
      BY <2>1 DEF Others
    <3> QED
      BY <3>1 DEF Sharing, Steady, DirectoryOf
  <2>2. CASE b = r
    BY <2>2
  <2> QED
    BY <2>1, <2>2
<1>4. overlaps' = overlaps /\ overlaps \in Nat
  BY DEF ShareInv
<1> QED
  BY <1>2, <1>3, <1>4 DEF ShareInv

\* A step that opens nothing and leaves its own file, if it had one open.
LEMMA ShareLeft ==
  ASSUME ShareInv, NEW r \in Runners, pc[r] # "idle", Others(r), UNCHANGED overlaps,
         marred \subseteq marred', pc'[r] = "idle" \/ job'[r] = job[r],
         shared' = shared, pc[r] \notin Closing, UNCHANGED report
  PROVE  ShareInv'
<1>1. r \notin shared
  BY DEF ShareInv, Sharing
<1>2. /\ \A b \in shared' \ {r} : b \in Runners /\ Sharing(b)
      /\ shared' # {} => overlaps > 0
      /\ overlaps > 0 \/ {report'.json, report'.markdown} \subseteq Unmixed
  BY DEF ShareInv
<1> QED
  BY <1>1, <1>2, ShareKept

\* A step that closes a file, or stops, mixes what it wrote only if it shared it.
LEMMA ShareClosed ==
  ASSUME Types, ShareInv, NEW r \in Runners, pc[r] # "idle", Others(r), UNCHANGED overlaps,
         marred \subseteq marred', pc'[r] = "idle" \/ job'[r] = job[r],
         shared' = shared \ {r}, NEW v, v \in Unmixed \/ r \in shared,
         \/ UNCHANGED report
         \/ report' = [report EXCEPT !.json = v]
         \/ report' = [report EXCEPT !.markdown = v]
  PROVE  ShareInv'
<1>1. /\ \A b \in shared' \ {r} : b \in Runners /\ Sharing(b)
      /\ shared # {} => overlaps > 0
      /\ overlaps > 0 \/ {report.json, report.markdown} \subseteq Unmixed
  BY DEF ShareInv
<1>2. report \in [json : Written, markdown : Written]
  BY DEF Types, OtherTypes
<1>3. {report'.json, report'.markdown} \subseteq {report.json, report.markdown, v}
  BY <1>2
<1>4. shared' # {} => overlaps > 0
  BY <1>1
<1>5. overlaps > 0 \/ {report'.json, report'.markdown} \subseteq Unmixed
  BY <1>1, <1>3
<1>6. r \notin shared'
  OBVIOUS
<1> QED
  BY <1>1, <1>4, <1>5, <1>6, ShareKept

\* A step that opens what others have open: they overlap, and work in one directory
\* if it is a checkpoint.
LEMMA ShareGrown ==
  ASSUME ShareInv, NEW r \in Runners, pc[r] # "idle", pc[r] \notin Closing, Others(r),
         UNCHANGED <<overlaps, marred>>, job'[r] = job[r],
         NEW others \in SUBSET (Runners \ {r}), Share(r, others),
         \A b \in others : pc[b] \in Closing /\ (pc[b] = "close" =>
           file[b].name # Manifest /\ DirectoryOf(b) = DirectoryOf(r)),
         pc'[r] \in Closing,
         pc'[r] = "close" => /\ file'[r].name = file[r].name
                             /\ \A b \in others : pc[b] = "close" /\ file[b].name = file[r].name,
         {report'.json, report'.markdown} \subseteq {report.json, report.markdown, Empty}
  PROVE  ShareInv'
<1>1. /\ r \notin shared
      /\ overlaps > 0 \/ {report'.json, report'.markdown} \subseteq Unmixed
  BY DEF ShareInv, Sharing, Unmixed
<1>2. ASSUME NEW b \in others
      PROVE  /\ b \in Runners /\ Sharing(b) /\ overlaps > 0
             /\ pc'[r] = "close" => file'[r].name # Manifest /\ DirectoryOf(r)' \in marred
  <2>1. Together(b, r)
    BY DEF ShareInv, Closing
  <2>2. DirectoryOf(r)' = DirectoryOf(r)
    BY DEF DirectoryOf
  <2> QED
    BY <2>1, <2>2 DEF Together, Sharing
<1>3. CASE others = {}
  <2>1. shared' = shared
    BY <1>3 DEF Share
  <2>2. /\ \A b \in shared' \ {r} : b \in Runners /\ Sharing(b)
        /\ shared' # {} => overlaps > 0
    BY <2>1 DEF ShareInv
  <2> QED
    BY <1>1, <2>1, <2>2, ShareKept
<1>4. CASE others # {}
  <2>1. shared' = shared \cup others \cup {r}
    BY <1>4 DEF Share
  <2>2. PICK b \in others : TRUE
    BY <1>4
  <2>3. overlaps > 0 /\ Sharing(r)'
    BY <1>2, <2>2 DEF Sharing
  <2>4. \A a \in shared' \ {r} : a \in Runners /\ Sharing(a)
    BY <1>2, <2>1 DEF ShareInv
  <2> QED
    BY <1>1, <2>3, <2>4, ShareKept
<1> QED
  BY <1>3, <1>4

\* A run that starts beside others overlaps with them.
LEMMA InvokeShares ==
  ASSUME Types, DataInv, ShareInv, NEW r \in Runners, NEW c \in Commands, Invoke(r, c)
  PROVE  ShareInv'
<1> DEFINE d == Key([commit |-> tree, command |-> c])
<1> DEFINE others == {b \in Runners : pc[b] # "idle"}
<1>1. /\ RunnerTypes /\ pc[r] = "idle" /\ UNCHANGED <<report, shared>>
      /\ job' = [job EXCEPT ![r] = [commit |-> tree, command |-> c]] /\ Goto(r, "checkpoints")
      /\ overlaps' = IF others = {} THEN overlaps ELSE overlaps + 1
      /\ marred' = marred \cup ({d} \cap {DirectoryOf(b) : b \in others})
  BY DEF Types, Invoke
<1>2. /\ DirectoryOf(r)' = d
      /\ \A b \in Runners \ {r} : Steady(b) /\ DirectoryOf(b)' = DirectoryOf(b)
  BY <1>1, InvokeRight DEF RunnerTypes, DirectoryOf, Others, Steady
<1>3. /\ overlaps \in Nat /\ overlaps' \in Nat
      /\ overlaps > 0 => overlaps' > 0
      /\ others # {} => overlaps' > 0
  <2>1. overlaps \in Nat
    BY DEF ShareInv
  <2>2. \A n \in Nat : n + 1 \in Nat /\ n + 1 > 0
    OBVIOUS
  <2> HIDE DEF others
  <2> QED
    BY <1>1, <2>1, <2>2
<1>4. \A b \in Runners \ {r} : pc'[b] = pc[b] /\ (pc[b] # "idle" => b \in others)
  BY <1>2 DEF Steady
<1>5. ASSUME NEW b \in Runners \ {r}, pc[b] # "idle"
      PROVE  overlaps' > 0 /\ (DirectoryOf(b) = d => d \in marred')
  <2>1. b \in others
    BY <1>5
  <2> HIDE DEF others, d
  <2> QED
    BY <1>1, <1>3, <2>1
<1> HIDE DEF d, others
<1>6. ASSUME NEW a \in Runners, NEW b \in Runners, a # b, pc'[a] # "idle", pc'[b] # "idle"
      PROVE  Together(a, b)'
  <2>1. CASE a = r
    BY <1>2, <1>4, <1>5, <1>6, <2>1 DEF Together
  <2>2. CASE b = r
    BY <1>2, <1>4, <1>5, <1>6, <2>2 DEF Together
  <2>3. CASE a # r /\ b # r
    <3>1. Together(a, b)
      BY <1>4, <1>6, <2>3 DEF ShareInv
    <3> QED
      BY <1>1, <1>2, <1>3, <2>3, <3>1 DEF Together
  <2> QED
    BY <2>1, <2>2, <2>3
<1>7. ASSUME NEW b \in shared'
      PROVE  b \in Runners /\ Sharing(b)'
  <2>1. b \in Runners /\ Sharing(b) /\ b # r
    BY <1>1, <1>7 DEF ShareInv, Sharing, Closing
  <2>2. Steady(b) /\ DirectoryOf(b)' = DirectoryOf(b) /\ marred \subseteq marred'
    BY <1>1, <1>2, <2>1
  <2> QED
    BY <2>1, <2>2 DEF Sharing, Steady
<1>8. /\ shared' # {} => overlaps' > 0
      /\ overlaps' > 0 \/ {report'.json, report'.markdown} \subseteq Unmixed
  BY <1>1, <1>3 DEF ShareInv
<1> QED
  BY <1>3, <1>6, <1>7, <1>8 DEF ShareInv

\* A run at work keeps its job until it is over.
LEMMA JobKept ==
  ASSUME Types, NEW r \in Runners, RunStep(r)
  PROVE  pc'[r] = "idle" \/ job'[r] = job[r]
<1>1. Finish(r) => pc'[r] = "idle"
  BY DEF Types, RunnerTypes, Finish, Goto
<1> QED
  BY <1>1 DEF RunStep, OpenCheckpoints, LoadModel, LoadLanguage, ScoreBatch, OpenTemporary,
              CloseTemporary, Replace, OpenReport, CloseJson, CloseMarkdown

\* The steps of a run share files only as ShareInv says.
LEMMA RunShares ==
  ASSUME Types, DataInv, ShareInv, NEW r \in Runners, RunStep(r)
  PROVE  ShareInv'
<1>1. pc'[r] = "idle" \/ job'[r] = job[r]
  BY JobKept
<1>2. CASE OpenCheckpoints(r) \/ LoadModel(r) \/ LoadLanguage(r) \/ ScoreBatch(r) \/ Replace(r)
  <2>1. /\ pc[r] # "idle" /\ pc[r] \notin Closing /\ shared' = shared
        /\ UNCHANGED <<overlaps, report, marred>>
    BY <1>2 DEF OpenCheckpoints, LoadModel, LoadLanguage, ScoreBatch, Replace, Closing, counters
  <2>2. Others(r)
    BY <1>2, OpenCheckpointsRight, LoadModelRight, LoadLanguageRight, ScoreBatchRight, ReplaceRight
  <2> QED
    BY <1>1, <2>1, <2>2, ShareLeft
<1>3. CASE OpenTemporary(r)
  <2> DEFINE others == {b \in Runners \ {r} :
                          /\ pc[b] = "close" /\ DirectoryOf(b) = DirectoryOf(r)
                          /\ file[b].name = file[r].name /\ file[b].at = "temporary"
                          /\ file[r].name # Manifest}
  <2>1. /\ pc[r] = "open" /\ Goto(r, "close") /\ file' = [file EXCEPT ![r].at = "temporary"]
        /\ UNCHANGED <<overlaps, report, marred, job>> /\ Share(r, others)
    BY <1>3 DEF OpenTemporary, counters
  <2>2. pc'[r] = "close" /\ file'[r].name = file[r].name
    BY <2>1 DEF Types, RunnerTypes, Files, Goto
  <2>3. Others(r)
    BY <1>3, OpenTemporaryRight
  <2>4. /\ others \in SUBSET (Runners \ {r})
        /\ \A b \in others : /\ pc[b] = "close" /\ file[b].name # Manifest
                             /\ file[b].name = file[r].name /\ DirectoryOf(b) = DirectoryOf(r)
    OBVIOUS
  <2> HIDE DEF others
  <2> QED
    BY <2>1, <2>2, <2>3, <2>4, ShareGrown DEF Closing
<1>4. CASE OpenReport(r)
  <2>1. PICK step \in {"json_close", "markdown_close"} :
          /\ Goto(r, step)
          /\ Share(r, {b \in Runners \ {r} : pc[b] = step})
    BY <1>4 DEF OpenReport, CloseOf
  <2> DEFINE others == {b \in Runners \ {r} : pc[b] = step}
  <2>2. /\ pc[r] \in {"json", "markdown"} /\ UNCHANGED <<overlaps, marred, job>>
        /\ \/ report' = [report EXCEPT !.json = Empty]
           \/ report' = [report EXCEPT !.markdown = Empty]
    BY <1>4 DEF OpenReport, CloseOf, counters
  <2>3. pc'[r] = step
    BY <2>1 DEF Types, RunnerTypes, Goto
  <2>4. Others(r)
    BY <1>4, OpenReportRight
  <2>5. {report'.json, report'.markdown} \subseteq {report.json, report.markdown, Empty}
    BY <2>2 DEF Types, OtherTypes
  <2>6. /\ others \in SUBSET (Runners \ {r}) /\ Share(r, others)
        /\ \A b \in others : pc[b] = step
    BY <2>1
  <2> HIDE DEF others
  <2> QED
    BY <2>1, <2>2, <2>3, <2>4, <2>5, <2>6, ShareGrown DEF Closing
<1>5. CASE CloseTemporary(r)
  <2>1. /\ pc[r] = "close" /\ shared' = shared \ {r} /\ UNCHANGED <<overlaps, report, marred>>
    BY <1>5 DEF CloseTemporary, counters
  <2>2. Others(r)
    BY <1>5, CloseTemporaryRight
  <2>3. Empty \in Unmixed
    BY DEF Unmixed
  <2> QED
    BY <1>1, <2>1, <2>2, <2>3, ShareClosed
<1>6. CASE CloseJson(r)
  <2>1. PICK v \in Left(r, [job |-> job[r], rows |-> results[r]]) :
          report' = [report EXCEPT !.json = v]
    BY <1>6 DEF CloseJson
  <2>2. /\ pc[r] = "json_close" /\ shared' = shared \ {r} /\ UNCHANGED <<overlaps, marred>>
    BY <1>6 DEF CloseJson, counters
  <2>3. Others(r)
    BY <1>6, CloseJsonRight
  <2>4. v \in Unmixed \/ r \in shared
    BY <2>1, <2>2, OwnReport DEF DataInv, Reporting, Left, Unmixed
  <2> QED
    BY <1>1, <2>1, <2>2, <2>3, <2>4, ShareClosed
<1>7. CASE CloseMarkdown(r)
  <2>1. PICK v \in Left(r, [job |-> job[r], rows |-> results[r]]) :
          report' = [report EXCEPT !.markdown = v]
    BY <1>7 DEF CloseMarkdown
  <2>2. /\ pc[r] = "markdown_close" /\ shared' = shared \ {r} /\ UNCHANGED <<overlaps, marred>>
    BY <1>7 DEF CloseMarkdown, counters
  <2>3. Others(r)
    BY <1>7, CloseMarkdownRight
  <2>4. v \in Unmixed \/ r \in shared
    BY <2>1, <2>2, OwnReport DEF DataInv, Reporting, Left, Unmixed
  <2> QED
    BY <1>1, <2>1, <2>2, <2>3, <2>4, ShareClosed
<1> QED
  BY <1>2, <1>3, <1>4, <1>5, <1>6, <1>7 DEF RunStep

\* A run that is killed mixes a file only if it shared it.
LEMMA StopShares ==
  ASSUME Types, DataInv, ShareInv, NEW r \in Runners, Stop(r)
  PROVE  ShareInv'
<1>1. /\ pc[r] # "idle" /\ pc'[r] = "idle" /\ shared' = shared \ {r}
      /\ UNCHANGED overlaps /\ marred \subseteq marred'
  BY DEF Stop, Types, RunnerTypes, Finish, Goto
<1>2. Others(r)
  BY StopRight
<1>3. Empty \in Unmixed
  BY DEF Unmixed
<1>4. \/ UNCHANGED report
      \/ /\ r \in shared
         /\ \/ report' = [report EXCEPT !.json = Mixed]
            \/ report' = [report EXCEPT !.markdown = Mixed]
  BY DEF Stop
<1>5. CASE UNCHANGED report
  BY <1>1, <1>2, <1>3, <1>5, ShareClosed
<1>6. CASE /\ r \in shared
           /\ \/ report' = [report EXCEPT !.json = Mixed]
              \/ report' = [report EXCEPT !.markdown = Mixed]
  BY <1>1, <1>2, <1>6, ShareClosed
<1> QED
  BY <1>4, <1>5, <1>6

-----------------------------------------------------------------------------
(*****************************************************************************)
(* What follows for every run.                                               *)
(*****************************************************************************)

\* What a report says of one model and one language.
LEMMA RowOfReport ==
  ASSUME NEW j \in Jobs, NEW m \in Selected(j.command), NEW lang \in LanguageSet
  PROVE  /\ m \in DOMAIN BatchSize
         /\ FreshRows(j)[<<m, lang>>].counts # None =>
              /\ FreshRows(j)[<<m, lang>>].counts = FreshCounts(j, m, {lang})
              /\ FreshRows(j)[<<m, lang>>].evaluated = ExampleCount(j.command, lang)
              /\ ~(m = "spacy_en" /\ lang # "en" /\ ~j.command.transfer)
         /\ FreshRows(j)[<<m, lang>>].counts = None => FreshRows(j)[<<m, lang>>].evaluated = 0
<1> DEFINE x == <<m, lang>>
<1>1. m \in DOMAIN BatchSize
  BY JobTypes DEF Selected
<1>2. FreshRows(j)[x] = Fresh(j, x) /\ x[1] = m /\ x[2] = lang
  BY DEF FreshRows
<1>3. FreshCounts(j, m, {lang}) # None
  BY <1>1, FreshCountsType, ValuesAssumption
<1> HIDE DEF x
<1>4. CASE m = "spacy_en" /\ lang # "en" /\ ~j.command.transfer
  <2>1. Fresh(j, x) = NotEvaluated
    BY <1>2, <1>4 DEF Fresh
  <2>2. NotEvaluated.counts = None /\ NotEvaluated.evaluated = 0
    BY DEF NotEvaluated
  <2> QED
    BY <1>1, <1>2, <2>1, <2>2 DEF x
<1>5. CASE ~(m = "spacy_en" /\ lang # "en" /\ ~j.command.transfer)
  <2>1. Fresh(j, x) = Result(j.command, x, FreshCounts(j, m, {lang}))
    BY <1>2, <1>5 DEF Fresh
  <2>2. /\ Result(j.command, x, FreshCounts(j, m, {lang})).counts = FreshCounts(j, m, {lang})
        /\ Result(j.command, x, FreshCounts(j, m, {lang})).evaluated = ExampleCount(j.command, lang)
    BY <1>2 DEF Result
  <2> QED
    BY <1>1, <1>2, <1>3, <1>5, <2>1, <2>2 DEF x
<1> QED
  BY <1>4, <1>5

\* The rows a command takes, language by language.
LEMMA RowsOfFamily ==
  ASSUME NEW j, NEW langs
  PROVE  RowPairs(j, langs) =
           Family([lang \in langs |-> 1 .. ExampleCount(j.command, lang)], langs)
BY DEF RowPairs, Family

\* A row is a sentence.
LEMMA SentencesOf ==
  ASSUME NEW j, NEW m, NEW langs
  PROVE  FreshCounts(j, m, langs).sentences = Cardinality(RowPairs(j, langs))
BY DEF FreshCounts, RowPairs

\* write_reports: a report of fresh results adds up to the counts of all its rows.
LEMMA Totals == ASSUME OtherTypes PROVE TotalsOfAllSentences
<1> SUFFICES ASSUME NEW written \in {report.json, report.markdown} \ {Absent, Empty, Mixed},
                    NEW m \in Selected(written.job.command)
             PROVE  LET j == written.job
                        all == ReportOf(j, written.rows)[m]
                        ran == {lang \in LanguageSet : written.rows[<<m, lang>>].counts # None}
                        whole == FreshCounts(j, m, ran)
                    IN  /\ all.micro = Scores(whole)
                        /\ all.evaluated = whole.sentences /\ whole.sentences <= all.matrix
  BY DEF TotalsOfAllSentences
<1>1. PICK j \in Jobs : written = [job |-> j, rows |-> FreshRows(j)]
  BY DEF OtherTypes, Written, Unmixed, FreshReports
<1>2. written.job = j /\ written.rows = FreshRows(j) /\ m \in Selected(j.command)
  BY <1>1
<1> DEFINE row(lang) == FreshRows(j)[<<m, lang>>]
<1> DEFINE ran == {lang \in LanguageSet : row(lang).counts # None}
<1> DEFINE whole == FreshCounts(j, m, ran)
<1> DEFINE metrics == [lang \in ran |-> Scores(row(lang).counts)]
<1> DEFINE matrix == IF m = "spacy_en" /\ ~j.command.transfer THEN {"en"} ELSE LanguageSet
<1> DEFINE all == ReportOf(j, FreshRows(j))[m]
<1>3. /\ all.evaluated = Sum([lang \in LanguageSet |-> row(lang).evaluated])
      /\ all.matrix = Sum([lang \in matrix \cap LanguageSet |-> Len(RowsOf[lang])])
      /\ all.micro = MicroScores(metrics)
  BY <1>2 DEF ReportOf
<1>4. m \in DOMAIN BatchSize /\ ran \in SUBSET LanguageSet
  BY <1>2, LanguagesFinite, RowOfReport
<1>5. ASSUME NEW lang \in LanguageSet
      PROVE  /\ lang \in ran => /\ row(lang).counts = FreshCounts(j, m, {lang})
                                /\ row(lang).evaluated = ExampleCount(j.command, lang)
                                /\ lang \in matrix
             /\ lang \notin ran => row(lang).evaluated = 0
  BY <1>2, RowOfReport
<1>6. IsFiniteSet(LanguageSet)
  BY LanguagesFinite
<1> HIDE DEF row, matrix
<1>7. all.micro = Scores(whole)
  <2>1. DOMAIN metrics = ran /\ \A lang \in ran : metrics[lang].counts = FreshCounts(j, m, {lang})
    BY <1>4, <1>5 DEF Scores
  <2> HIDE DEF metrics, ran
  <2>2. \A field : [lang \in ran |-> metrics[lang].counts[field]] =
                     [lang \in ran |-> FreshCounts(j, m, {lang})[field]]
    BY <2>1
  <2>3. TotalCounts(metrics) =
          [field \in DOMAIN NoCounts |-> Sum([lang \in ran |-> FreshCounts(j, m, {lang})[field]])]
    BY <2>1, <2>2 DEF TotalCounts
  <2>4. TotalCounts(metrics) = FreshCounts(j, m, ran)
    BY <1>4, <2>3, TotalIsFresh
  <2> QED
    BY <1>3, <2>4 DEF MicroScores
<1>8. whole.sentences = Cardinality(RowPairs(j, ran))
  BY SentencesOf
<1>9. all.evaluated = whole.sentences
  <2> DEFINE f == [lang \in LanguageSet |-> row(lang).evaluated]
  <2> DEFINE P == [lang \in LanguageSet |-> IF lang \in ran THEN 1 .. ExampleCount(j.command, lang) ELSE {}]
  <2>1. ASSUME NEW lang \in LanguageSet
        PROVE  f[lang] \in Nat /\ IsFiniteSet(P[lang]) /\ Cardinality(P[lang]) = f[lang]
    <3>1. ExampleCount(j.command, lang) \in Nat
      BY LimitType
    <3>2. CASE lang \in ran
      <4>1. P[lang] = 1 .. ExampleCount(j.command, lang) /\ f[lang] = ExampleCount(j.command, lang)
        BY <1>5, <3>2
      <4> HIDE DEF f, P
      <4> QED
        BY <3>1, <4>1, UpTo
    <3>3. CASE lang \notin ran
      <4>1. P[lang] = {} /\ f[lang] = 0
        BY <1>5, <3>3
      <4> HIDE DEF f, P
      <4> QED
        BY <4>1, FS_EmptySet
    <3> QED
      BY <3>2, <3>3
  <2>2. f \in [LanguageSet -> Nat]
    BY <2>1
  <2>3. Family(P, LanguageSet) = RowPairs(j, ran)
    <3>1. \A lang \in LanguageSet : \A e : e \in P[lang] <=> lang \in ran /\ e \in 1 .. ExampleCount(j.command, lang)
      OBVIOUS
    <3> DEFINE R == [lang \in ran |-> 1 .. ExampleCount(j.command, lang)]
    <3>2. \A lang \in ran : R[lang] = 1 .. ExampleCount(j.command, lang)
      OBVIOUS
    <3>3. RowPairs(j, ran) = Family(R, ran)
      BY RowsOfFamily
    <3>4. ran \subseteq LanguageSet
      BY <1>4
    <3> HIDE DEF P, ran, R
    <3>5. ASSUME NEW t \in Family(P, LanguageSet)
          PROVE  t \in Family(R, ran)
      <4>1. PICK lang \in LanguageSet : \E e \in P[lang] : t = <<lang, e>>
        BY FamilyMember
      <4>2. PICK e \in P[lang] : t = <<lang, e>>
        BY <4>1
      <4>3. lang \in ran /\ e \in R[lang]
        BY <3>1, <3>2, <4>2
      <4> QED
        BY <4>2, <4>3, FamilyMember
    <3>6. ASSUME NEW t \in Family(R, ran)
          PROVE  t \in Family(P, LanguageSet)
      <4>1. PICK lang \in ran : \E e \in R[lang] : t = <<lang, e>>
        BY FamilyMember
      <4>2. PICK e \in R[lang] : t = <<lang, e>>
        BY <4>1
      <4>3. lang \in LanguageSet /\ e \in P[lang]
        BY <3>1, <3>2, <3>4, <4>2
      <4> QED
        BY <4>2, <4>3, FamilyMember
    <3> QED
      BY <3>3, <3>5, <3>6
  <2> HIDE DEF f, P
  <2>4. FoldFunction(+, 0, f) = Cardinality(Family(P, LanguageSet))
    BY <1>6, <2>1, <2>2, SumCounts
  <2> QED
    BY <1>3, <1>8, <2>3, <2>4 DEF f, Sum
<1>10. whole.sentences <= all.matrix
  <2> DEFINE D == matrix \cap LanguageSet
  <2> DEFINE f == [lang \in D |-> Len(RowsOf[lang])]
  <2> DEFINE P == [lang \in D |-> 1 .. Len(RowsOf[lang])]
  <2>1. IsFiniteSet(D)
    BY <1>6, FS_Subset
  <2>2. ASSUME NEW lang \in D
        PROVE  f[lang] \in Nat /\ IsFiniteSet(P[lang]) /\ Cardinality(P[lang]) = f[lang]
    <3>1. Len(RowsOf[lang]) \in Nat
      BY LimitType
    <3> QED
      BY <3>1, UpTo
  <2>3. f \in [D -> Nat]
    BY <2>2
  <2> DEFINE R == [lang \in ran |-> 1 .. ExampleCount(j.command, lang)]
  <2>4. RowPairs(j, ran) = Family(R, ran)
    BY RowsOfFamily
  <2>5. ASSUME NEW lang \in ran
        PROVE  lang \in D /\ R[lang] \subseteq P[lang]
    <3>1. lang \in D
      BY <1>4, <1>5
    <3>2. /\ ExampleCount(j.command, lang) \in Nat /\ Len(RowsOf[lang]) \in Nat
          /\ ExampleCount(j.command, lang) <= Len(RowsOf[lang])
      BY <3>1, LimitType
    <3>3. \A a, b \in Nat : a <= b => 1 .. a \subseteq 1 .. b
      OBVIOUS
    <3> QED
      BY <3>1, <3>2, <3>3
  <2> HIDE DEF R, f, P, D, ran
  <2>6. Family(R, ran) \subseteq Family(P, D)
    BY <2>5, FamilyMember
  <2>7. IsFiniteSet(Family(P, D)) /\ FoldFunction(+, 0, f) = Cardinality(Family(P, D))
    BY <2>1, <2>2, <2>3, FamilyFinite, SumCounts
  <2>8. Cardinality(Family(R, ran)) <= Cardinality(Family(P, D))
    BY <2>6, <2>7, FS_Subset
  <2> QED
    BY <1>3, <1>8, <2>4, <2>7, <2>8 DEF Sum, f, D
<1> HIDE DEF all, whole, metrics
<1>11. /\ written.rows = FreshRows(j) /\ written.job = j
  BY <1>2
<1> QED
  BY <1>7, <1>9, <1>10, <1>11 DEF all, whole, ran, row


\* At first there are no files and no runs.
LEMMA DataInit == ASSUME Init PROVE Types /\ DataInv
<1>1. RunnerTypes
  <2>1. /\ pc = [r \in Runners |-> "idle"] /\ job = [r \in Runners |-> None]
        /\ model = [r \in Runners |-> 1] /\ language = [r \in Runners |-> 1]
        /\ offset = [r \in Runners |-> 0] /\ counts = [r \in Runners |-> NoCounts]
        /\ results = [r \in Runners |-> <<>>] /\ file = [r \in Runners |-> NoFile]
    BY DEF Init
  <2>2. pc \in [Runners -> Steps] /\ job \in [Runners -> Jobs \cup {None}]
    BY <2>1, StepsType
  <2>3. /\ model \in [Runners -> Nat] /\ language \in [Runners -> Nat] /\ offset \in [Runners -> Nat]
    BY <2>1
  <2>4. file \in [Runners -> Files]
    BY <2>1, FilesType
  <2>5. counts = [r \in Runners |-> counts[r]] /\ results = [r \in Runners |-> results[r]]
    BY <2>1
  <2> QED
    BY <2>2, <2>3, <2>4, <2>5 DEF RunnerTypes
<1>2. \A r \in Runners : RunnerRight(r)
  BY DEF Init, RunnerRight, Idle
<1>3. disk = [k \in Keys |-> [n \in Names |-> Nothing]]
  BY DEF Init, Nothing
<1>4. Nothing \in Contents /\ Nothing.path = Absent /\ Nothing.temporary = Absent
  BY DEF Nothing, Contents, Values
<1>5. DiskTypes
  BY <1>3, <1>4 DEF DiskTypes
<1>6. FilesRight
  BY <1>3, <1>4 DEF FilesRight, Rightful
<1>7. OtherTypes
  BY DEF Init, OtherTypes, Written, Unmixed
<1> QED
  BY <1>1, <1>2, <1>5, <1>6, <1>7 DEF Types, DataInv

\* Every step keeps what is computed right.
LEMMA DataStep == ASSUME Types, DataInv, ShareInv, [Next]_vars PROVE Types' /\ DataInv'
<1>1. ASSUME NEW r \in Runners, NEW c \in Commands, Invoke(r, c)
      PROVE  Types' /\ DataInv'
  BY <1>1, InvokeRight
<1>2. ASSUME NEW r \in Runners, RunStep(r)
      PROVE  Types' /\ DataInv'
  BY <1>2, OpenCheckpointsRight, LoadModelRight, LoadLanguageRight, ScoreBatchRight,
     OpenTemporaryRight, CloseTemporaryRight, ReplaceRight, OpenReportRight, CloseJsonRight,
     CloseMarkdownRight
     DEF RunStep
<1>3. ASSUME NEW r \in Runners, Stop(r)
      PROVE  Types' /\ DataInv'
  BY <1>3, StopRight
<1>4. CASE Edit
  BY <1>4, EditRight
<1>5. CASE UNCHANGED vars
  <2>1. Types'
    BY <1>5 DEF vars, runVars, positionVars, Types, RunnerTypes, DiskTypes, OtherTypes
  <2>2. FilesRight'
    BY <1>5 DEF vars, DataInv, FilesRight
  <2>3. \A r \in Runners : RunnerRight(r)'
    <3> SUFFICES ASSUME NEW r \in Runners PROVE RunnerRight(r)'
      OBVIOUS
    <3>1. Steady(r)
      BY <1>5 DEF Steady, vars, runVars, positionVars
    <3> QED
      BY <3>1, SteadyRight DEF DataInv
  <2> QED
    BY <2>1, <2>2, <2>3 DEF DataInv
<1> QED
  BY <1>1, <1>2, <1>3, <1>4, <1>5 DEF Next

\* At first no run has begun.
LEMMA ShareInit == ASSUME Init PROVE ShareInv
BY DEF Init, ShareInv, Unmixed

\* Every step shares files only as ShareInv says.
LEMMA ShareStep == ASSUME Types, DataInv, ShareInv, [Next]_vars PROVE ShareInv'
<1>1. ASSUME NEW r \in Runners, NEW c \in Commands, Invoke(r, c)
      PROVE  ShareInv'
  BY <1>1, InvokeShares
<1>2. ASSUME NEW r \in Runners, RunStep(r)
      PROVE  ShareInv'
  BY <1>2, RunShares
<1>3. ASSUME NEW r \in Runners, Stop(r)
      PROVE  ShareInv'
  BY <1>3, StopShares
<1>4. CASE Edit \/ UNCHANGED vars
  <2>1. UNCHANGED <<report, pc, job, file, overlaps, marred, shared>>
    BY <1>4 DEF Edit, vars, runVars, counters
  <2> QED
    BY <2>1 DEF ShareInv, Together, Sharing, DirectoryOf
<1> QED
  BY <1>1, <1>2, <1>3, <1>4 DEF Next

\* The inductive invariant, for any number of processes, commits, commands,
\* languages, rows, reports, batch sizes, stops, edits and overlaps: every file
\* holds nothing, a part of what its name promises, all of it, or the bytes of two
\* writers that had it open together; what a run has in memory is what its job and
\* its position say; and runs have a file open together only where they overlapped.
THEOREM DataSafe == Spec => [](Types /\ DataInv /\ ShareInv)
<1>1. Init => Types /\ DataInv /\ ShareInv
  BY DataInit, ShareInit
<1>2. (Types /\ DataInv /\ ShareInv) /\ [Next]_vars => (Types /\ DataInv /\ ShareInv)'
  BY DataStep, ShareStep
<1> QED
  BY <1>1, <1>2, PTL DEF Spec

\* Every variable of the benchmark holds what it is for.
THEOREM TypesHold == Spec => []TypeOK
<1>1. Types /\ DataInv /\ ShareInv => TypeOK
  <2> SUFFICES ASSUME Types, DataInv, ShareInv PROVE TypeOK
    OBVIOUS
  <2>1. /\ tree \in Commits \cup {Dirty} /\ reported \subseteq Jobs /\ marred \subseteq Keys
        /\ pc \in [Runners -> {"idle", "checkpoints", "open", "close", "replace", "model",
                               "language", "score", "json", "json_close", "markdown",
                               "markdown_close"}]
        /\ shared \subseteq Runners
    BY DEF Types, OtherTypes, RunnerTypes, Steps, ShareInv
  <2>2. ASSUME NEW r \in Runners
        PROVE  /\ pc[r] # "idle" => job[r] \in Jobs
               /\ pc[r] \in {"language", "score"} => model[r] \in DOMAIN job[r].command.models
               /\ pc[r] \in {"open", "close", "replace"} => file[r].name \in Names
               /\ DOMAIN results[r] \subseteq Pairs
    <3>1. RunnerRight(r)
      BY DEF DataInv
    <3>2. CASE pc[r] = "idle"
      BY <3>1, <3>2 DEF RunnerRight, Idle
    <3>3. CASE pc[r] # "idle"
      <4>1. /\ job[r] \in Jobs /\ Position(r)
            /\ results[r] = [x \in Before(job[r], model[r], language[r]) |-> Fresh(job[r], x)]
        BY <3>1, <3>3 DEF RunnerRight
      <4>2. DOMAIN results[r] \subseteq Pairs
        BY <4>1, BeforePairs
      <4>3. pc[r] \in {"open", "close", "replace"} => file[r].name \in Names
        BY AtFile DEF Writing
      <4> QED
        BY <4>1, <4>2, <4>3 DEF Position, Reporting
    <3> QED
      BY <3>2, <3>3
  <2>3. ASSUME NEW k \in Keys
        PROVE  disk[k][Manifest].path \in {Absent, Empty, k}
    <3>1. Manifest \in Names
      BY DEF Names
    <3>2. disk[k][Manifest].path \in Rightful(k, Manifest)
      BY <3>1 DEF DataInv, FilesRight
    <3> QED
      BY <3>2, WholeFiles DEF Rightful
  <2> QED
    BY <2>1, <2>2, <2>3 DEF TypeOK
<1> QED
  BY <1>1, DataSafe, PTL

\* The totals of a report are the counts of all its sentences at once, and none of
\* a language that a model was not run on (_micro_scores, write_reports).
THEOREM TotalsRight == Spec => []TotalsOfAllSentences
<1>1. Types /\ DataInv => TotalsOfAllSentences
  BY Totals DEF Types
<1> QED
  BY <1>1, DataSafe, PTL

-----------------------------------------------------------------------------
(*****************************************************************************)
(* The steps keep the directories right.                                     *)
(*****************************************************************************)

\* A directory that the step does not touch.
LEMMA Elsewhere ==
  ASSUME Types, DataInv, NEW k \in Keys, DirectoryRight(k), Untouched(k), NEW r \in Runners,
         ~Busy(r, k), ~Busy(r, k)',
         \A b \in Runners \ {r} : Steady(b) /\ (Busy(b, k) => file'[b] = file[b])
  PROVE  DirectoryRight(k)'
<1>1. \A b \in Runners : Busy(b, k)' <=> Busy(b, k)
  BY DEF Busy, Steady, DirectoryOf
<1>2. Alone(k)'
  BY <1>1 DEF Alone, DirectoryRight
<1>3. (Blank(k) => Blank(k)') /\ (Ready(k) => Ready(k)')
  BY DEF Blank, Ready, Untouched, Names
<1>4. AtWork(k)'
  <2> SUFFICES ASSUME NEW b \in Runners, Busy(b, k)'
               PROVE  (IF Founding(b) THEN Founds(b, k) ELSE WorksIn(b, k))'
    BY DEF AtWork
  <2>1. /\ b # r /\ Busy(b, k) /\ pc'[b] = pc[b] /\ file'[b] = file[b]
        /\ IF Founding(b) THEN Founds(b, k) ELSE WorksIn(b, k)
    BY <1>1 DEF Steady, DirectoryRight, AtWork
  <2>2. CASE Founding(b)
    <3>1. Founds(b, k) /\ Founding(b)'
      BY <2>1, <2>2 DEF Founding
    <3>2. Founds(b, k)'
      BY <2>1, <3>1 DEF Founds, Untouched, Names
    <3> QED
      BY <3>1, <3>2
  <2>3. CASE ~Founding(b)
    <3>1. WorksIn(b, k) /\ ~Founding(b)'
      BY <2>1, <2>3 DEF Founding
    <3>2. WorksIn(b, k)'
      <4>1. pc'[b] = "replace" => disk'[k][file'[b].name].temporary = file'[b].value
        <5> SUFFICES ASSUME pc[b] = "replace" PROVE disk'[k][file[b].name].temporary = file[b].value
          BY <2>1
        <5>1. file[b].name \in Names
          BY AtFile DEF Writing
        <5> QED
          BY <3>1, <5>1 DEF WorksIn, Untouched
      <4> QED
        BY <1>3, <2>1, <3>1, <4>1 DEF WorksIn
    <3> QED
      BY <3>1, <3>2
  <2> QED
    BY <2>2, <2>3
<1>5. AtRest(k)'
  BY <1>1, <1>3 DEF AtRest, DirectoryRight
<1> QED
  BY <1>2, <1>4, <1>5 DEF DirectoryRight


\* A step of a run settles its own directory and leaves the others.
LEMMA Settles ==
  ASSUME Types, DataInv, DirectoryInv, NEW r \in Runners, pc[r] # "idle", Others(r),
         NEW d \in Keys, d = DirectoryOf(r), marred \subseteq marred',
         \A k \in Keys \ {d} : Untouched(k),
         pc'[r] # "idle" => job'[r] = job[r],
         d \notin marred' => Settled(r, d)'
  PROVE  DirectoryInv'
<1>1. ASSUME NEW b \in Runners \ {r}
      PROVE  Steady(b) /\ (Busy(b, d)' <=> Busy(b, d))
  BY DEF Others, Busy, Steady, DirectoryOf
<1> SUFFICES ASSUME NEW k \in Keys, k \notin marred' PROVE DirectoryRight(k)'
  BY DEF DirectoryInv
<1>2. DirectoryRight(k)
  BY DEF DirectoryInv
<1>3. CASE k # d
  <2>1. ~Busy(r, k) /\ ~Busy(r, k)'
    BY <1>3 DEF Busy, DirectoryOf
  <2>2. \A b \in Runners \ {r} : Steady(b) /\ (Busy(b, k) => file'[b] = file[b])
    BY <1>3 DEF Others, Busy
  <2> QED
    BY <1>2, <1>3, <2>1, <2>2, Elsewhere
<1>4. CASE k = d
  <2>1. Settled(r, d)'
    BY <1>4
  <2>2. \A b \in Runners : Busy(b, d)' => b = r
    BY <1>1, <1>2, <1>4 DEF DirectoryRight, Alone, Busy
  <2>3. Alone(d)'
    BY <2>2 DEF Alone
  <2>4. AtWork(d)'
    BY <2>1, <2>2 DEF AtWork, Settled, Busy
  <2>5. AtRest(d)'
    BY <2>1 DEF AtRest, Settled, Busy
  <2> QED
    BY <1>4, <2>3, <2>4, <2>5 DEF DirectoryRight
<1> QED
  BY <1>3, <1>4

\* What DirectoryInv says of a run at work.
LEMMA AtDirectory ==
  ASSUME DirectoryInv, NEW r \in Runners, pc[r] # "idle", NEW d \in Keys, d = DirectoryOf(r),
         d \notin marred
  PROVE  /\ pc[r] \in Writing /\ file[r].name = Manifest => Founds(r, d)
         /\ ~(pc[r] \in Writing /\ file[r].name = Manifest) => WorksIn(r, d)
BY DEF DirectoryInv, DirectoryRight, AtWork, Busy, Founding

\* A directory with a manifest is not empty.
LEMMA BlankIsBare == ASSUME NEW k \in Keys PROVE ~(Blank(k) /\ Ready(k))
BY KeyIsWhole DEF Blank, Ready, Nothing, Names

\* A run that reads and computes leaves its directory as it is.
LEMMA ReadingSettles ==
  ASSUME Types, DataInv, DirectoryInv, NEW r \in Runners, pc[r] # "idle", Others(r),
         pc[r] \notin Writing, pc[r] # "checkpoints",
         UNCHANGED <<disk, marred>>,
         \/ pc'[r] = "idle"
         \/ pc'[r] \in {"model", "language", "score"} \cup Reporting /\ job'[r] = job[r]
         \/ pc'[r] = "open" /\ file'[r].name # Manifest /\ job'[r] = job[r]
  PROVE  DirectoryInv'
<1>1. RunnerTypes /\ RunnerRight(r)
  BY DEF Types, DataInv
<1>2. PICK d \in Keys : d = DirectoryOf(r)
  BY <1>1, AtJob
<1>3. \A k \in Keys : Untouched(k) /\ (Ready(k) => Ready(k)')
  BY DEF Untouched, Ready
<1>4. ASSUME d \notin marred
      PROVE  Settled(r, d)'
  <2>1. Ready(d) /\ Ready(d)'
    BY <1>2, <1>3, <1>4, AtDirectory DEF WorksIn
  <2>2. pc'[r] # "idle" => DirectoryOf(r)' = d
    BY <1>2 DEF DirectoryOf
  <2>3. /\ ~Founding(r)'
        /\ pc'[r] \notin {"close", "replace"}
    BY DEF Founding, Writing, Reporting
  <2> QED
    BY <2>1, <2>2, <2>3 DEF Settled, WorksIn
<1> QED
  BY <1>2, <1>3, <1>4, Settles

\* A run founds an empty directory, or works in a ready one.
LEMMA OpenCheckpointsSettles ==
  ASSUME Types, DataInv, DirectoryInv, NEW r \in Runners, OpenCheckpoints(r)
  PROVE  DirectoryInv'
<1>1. /\ RunnerTypes /\ RunnerRight(r) /\ Others(r) /\ pc[r] = "checkpoints"
      /\ UNCHANGED <<disk, marred>>
  BY OpenCheckpointsRight DEF Types, DataInv, OpenCheckpoints
<1>2. PICK d \in Keys : d = DirectoryOf(r)
  BY <1>1, AtJob
<1>3. \A k \in Keys : Untouched(k) /\ (Ready(k) => Ready(k)') /\ (Blank(k) => Blank(k)')
  BY <1>1 DEF Untouched, Ready, Blank
<1>4. \/ disk[d][Manifest].path = d /\ Goto(r, "model") /\ UNCHANGED job
      \/ Blank(d) /\ StartWrite(r, Manifest, d) /\ UNCHANGED job
      \/ Finish(r)
  BY <1>2 DEF OpenCheckpoints, Blank, Nothing
<1>5. /\ Goto(r, "model") => pc'[r] = "model"
      /\ StartWrite(r, Manifest, d) => /\ pc'[r] = "open"
                                       /\ file'[r] = [name |-> Manifest, value |-> d, at |-> "closed"]
      /\ Finish(r) => pc'[r] = "idle"
  BY <1>1 DEF RunnerTypes, Goto, StartWrite, Finish
<1>6. ASSUME d \notin marred
      PROVE  Settled(r, d)'
  <2>1. Ready(d) \/ Blank(d)
    BY <1>1, <1>2, <1>6, AtDirectory DEF WorksIn, Writing
  <2>2. CASE disk[d][Manifest].path = d /\ Goto(r, "model") /\ UNCHANGED job
    <3>1. ~Blank(d)
      BY <2>2, KeyIsWhole DEF Blank, Nothing, Names
    <3> QED
      BY <1>2, <1>3, <1>5, <2>1, <2>2, <3>1 DEF Settled, Founding, WorksIn, Writing, DirectoryOf
  <2>3. CASE Blank(d) /\ StartWrite(r, Manifest, d) /\ UNCHANGED job
    <3>1. Founding(r)' /\ pc'[r] = "open" /\ DirectoryOf(r)' = d
      BY <1>2, <1>5, <2>3 DEF Founding, Writing, DirectoryOf
    <3>2. Founds(r, d)'
      <4>1. \A n \in Names : disk'[d][n] = Nothing
        BY <1>3, <2>3 DEF Blank
      <4> QED
        BY <3>1, <4>1 DEF Founds, Names, Nothing
    <3> QED
      BY <3>1, <3>2 DEF Settled
  <2>4. CASE Finish(r)
    BY <1>3, <1>5, <2>1, <2>4 DEF Settled
  <2> QED
    BY <1>4, <2>2, <2>3, <2>4
<1>7. pc'[r] # "idle" => job'[r] = job[r]
  BY <1>4, <1>5
<1> QED
  BY <1>1, <1>2, <1>3, <1>6, <1>7, Settles

\* Steps that write no checkpoint leave the directory ready.
LEMMA ReadersSettle ==
  ASSUME Types, DataInv, DirectoryInv, NEW r \in Runners,
         \/ LoadModel(r) \/ LoadLanguage(r) \/ ScoreBatch(r)
         \/ OpenReport(r) \/ CloseJson(r) \/ CloseMarkdown(r)
  PROVE  DirectoryInv'
<1>1. RunnerTypes /\ Others(r) /\ RunnerRight(r)
  BY LoadModelRight, LoadLanguageRight, ScoreBatchRight, OpenReportRight, CloseJsonRight,
     CloseMarkdownRight DEF Types, DataInv
<1>2. /\ pc[r] \in {"model", "language", "score"} \cup Reporting
      /\ UNCHANGED <<disk, marred>>
  BY DEF LoadModel, LoadLanguage, ScoreBatch, OpenReport, CloseJson, CloseMarkdown, CloseOf,
         Reporting
<1>3. pc[r] \in {"language", "score"} => Pair(r) # Manifest
  <2>1. pc[r] \in {"language", "score"} => Pair(r) \in Pairs
    BY <1>1, AtJob DEF RunnerRight, Position, Reporting
  <2> QED
    BY <2>1, PairTypes
<1>4. /\ \A step : Goto(r, step) => pc'[r] = step
      /\ \A name, value : StartWrite(r, name, value) => pc'[r] = "open" /\ file'[r].name = name
      /\ Finish(r) => pc'[r] = "idle"
  BY <1>1 DEF RunnerTypes, Goto, StartWrite, Finish
<1>5. NextPosition(r) => pc'[r] \in {"model", "language", "json"}
  BY <1>1 DEF RunnerTypes, NextPosition, Goto
<1>6. \/ pc'[r] = "idle"
      \/ pc'[r] \in {"model", "language", "score"} \cup Reporting /\ job'[r] = job[r]
      \/ pc'[r] = "open" /\ file'[r].name # Manifest /\ job'[r] = job[r]
  <2>1. CASE LoadModel(r)
    BY <1>4, <2>1 DEF LoadModel
  <2>2. CASE LoadLanguage(r)
    BY <1>3, <1>4, <1>5, <2>2 DEF LoadLanguage, Advance, Reporting
  <2>3. CASE ScoreBatch(r)
    BY <1>3, <1>4, <2>3 DEF ScoreBatch
  <2>4. CASE OpenReport(r)
    BY <1>4, <2>4 DEF OpenReport, CloseOf, Reporting
  <2>5. CASE CloseJson(r)
    BY <1>4, <2>5 DEF CloseJson, Reporting
  <2>6. CASE CloseMarkdown(r)
    BY <1>4, <2>6 DEF CloseMarkdown
  <2> QED
    BY <2>1, <2>2, <2>3, <2>4, <2>5, <2>6
<1>7. pc[r] # "idle" /\ pc[r] \notin Writing /\ pc[r] # "checkpoints"
  BY <1>2 DEF Writing, Reporting
<1> QED
  BY <1>1, <1>2, <1>6, <1>7, ReadingSettles


\* One file of the directory changes, and it is not the manifest.
LEMMA ReadyKept ==
  ASSUME NEW k \in Keys, Ready(k), NEW x \in Pairs, disk'[k][x].path \notin {Empty, Mixed},
         \A n \in Names \ {x} : disk'[k][n] = disk[k][n]
  PROVE  Ready(k)'
<1>1. Manifest \in Names \ {x} /\ Pairs \subseteq Names
  BY PairTypes DEF Names
<1> QED
  BY <1>1 DEF Ready

\* A new temporary harms no file: nobody else is at work in the directory.
LEMMA OpenTemporarySettles ==
  ASSUME Types, DataInv, DirectoryInv, NEW r \in Runners, OpenTemporary(r)
  PROVE  DirectoryInv'
<1>1. PICK d \in Keys, n \in Names : d = DirectoryOf(r) /\ n = file[r].name
  BY AtFile DEF OpenTemporary, Writing
<1>2. /\ pc[r] = "open" /\ pc[r] \in Writing /\ pc[r] # "idle" /\ Others(r)
      /\ disk' = [disk EXCEPT ![d][n].temporary = Empty]
      /\ file' = [file EXCEPT ![r].at = "temporary"]
      /\ Goto(r, "close") /\ UNCHANGED <<job, marred>>
  BY <1>1, OpenTemporaryRight DEF OpenTemporary, Writing
<1>3. /\ disk'[d][n] = [path |-> disk[d][n].path, temporary |-> Empty]
      /\ \A i \in Keys, x \in Names : i # d \/ x # n => disk'[i][x] = disk[i][x]
  <2>1. DiskTypes /\ FilesRight /\ Empty \in Rightful(d, n)
    BY DEF Types, DataInv, Rightful
  <2> QED
    BY <1>2, <2>1, TemporaryChanged
<1>4. /\ pc'[r] = "close" /\ job'[r] = job[r]
      /\ file'[r].name = n /\ file'[r].at = "temporary"
  <2>1. /\ pc \in [Runners -> Steps] /\ file \in [Runners -> Files] /\ file[r] \in Files
    BY DEF Types, RunnerTypes
  <2> QED
    BY <1>1, <1>2, <2>1 DEF Goto, Files
<1>5. DirectoryOf(r)' = d
  BY <1>1, <1>2 DEF DirectoryOf
<1>6. ASSUME d \notin marred
      PROVE  Settled(r, d)'
  <2>1. CASE n = Manifest
    <3>1. Founds(r, d)
      BY <1>1, <1>2, <1>6, <2>1, AtDirectory
    <3>2. Founding(r)'
      BY <1>4, <2>1 DEF Founding, Writing
    <3>3. \A x \in Pairs : disk'[d][x] = Nothing
      BY <1>3, <2>1, <3>1, PairTypes DEF Founds
    <3>4. disk'[d][Manifest] = [path |-> Absent, temporary |-> Empty]
      BY <1>3, <2>1, <3>1 DEF Founds
    <3>5. Founds(r, d)'
      BY <1>4, <3>3, <3>4 DEF Founds
    <3> QED
      BY <1>4, <1>5, <3>2, <3>5 DEF Settled
  <2>2. CASE n # Manifest
    <3>1. Ready(d) /\ n \in Pairs
      BY <1>1, <1>2, <1>6, <2>2, AtDirectory DEF WorksIn, Names
    <3>2. Ready(d)'
      BY <1>3, <3>1, ReadyKept DEF Ready
    <3>3. ~Founding(r)'
      BY <1>4, <2>2 DEF Founding
    <3>4. WorksIn(r, d)'
      BY <1>4, <3>2 DEF WorksIn
    <3> QED
      BY <1>4, <1>5, <3>3, <3>4 DEF Settled
  <2> QED
    BY <2>1, <2>2
<1>7. \A k \in Keys \ {d} : Untouched(k)
  BY <1>3 DEF Untouched
<1> QED
  BY <1>1, <1>2, <1>4, <1>6, <1>7, Settles

\* The temporary of a run that is alone is its own, and whole once it is closed.
LEMMA CloseTemporarySettles ==
  ASSUME Types, DataInv, ShareInv, DirectoryInv, NEW r \in Runners, CloseTemporary(r)
  PROVE  DirectoryInv'
<1>1. PICK d \in Keys, n \in Names : d = DirectoryOf(r) /\ n = file[r].name
  BY AtFile DEF CloseTemporary, Writing
<1>2. /\ pc[r] = "close" /\ pc[r] \in Writing /\ pc[r] # "idle" /\ Others(r)
      /\ Goto(r, "replace") /\ UNCHANGED <<job, file, marred>>
  BY CloseTemporaryRight DEF CloseTemporary, Writing
<1>3. PICK v \in Left(r, file[r].value) : Put(r, v)
  BY DEF CloseTemporary
<1>4. /\ file[r].value \in Whole(d, n)
      /\ v = file[r].value \/ (v = Mixed /\ n # Manifest /\ d \in marred)
  BY <1>1, <1>2, <1>3, AtFile DEF Left, ShareInv, Sharing
<1>10. /\ file[r].at = "temporary" =>
           disk'[d][n] = [path |-> disk[d][n].path, temporary |-> v]
      /\ \A i \in Keys, x \in Names : i # d \/ x # n => disk'[i][x] = disk[i][x]
  <2>1. v \in Rightful(d, n)
    BY <1>4 DEF Rightful
  <2> QED
    BY <1>1, <1>2, <1>3, <2>1, PutRight
<1>5. /\ pc'[r] = "replace" /\ job'[r] = job[r] /\ file'[r] = file[r]
  BY <1>2 DEF Goto, Types, RunnerTypes
<1>6. DirectoryOf(r)' = d
  BY <1>1, <1>2 DEF DirectoryOf
<1>7. ASSUME d \notin marred
      PROVE  Settled(r, d)'
  <2>1. CASE n = Manifest
    <3>1. Founds(r, d) /\ file[r].at = "temporary"
      <4>1. pc[r] \in Writing /\ file[r].name = Manifest
        BY <1>1, <1>2, <2>1
      <4>2. Founds(r, d)
        BY <1>1, <1>2, <1>7, <4>1, AtDirectory
      <4> QED
        BY <1>2, <4>2 DEF Founds
    <3>2. Founding(r)' /\ v = d
      BY <1>1, <1>4, <1>5, <1>7, <2>1, WholeFiles DEF Founding, Writing
    <3>3. \A x \in Pairs : disk'[d][x] = Nothing
      BY <1>10, <2>1, <3>1, PairTypes DEF Founds
    <3>4. disk'[d][Manifest] = [path |-> Absent, temporary |-> d]
      BY <1>10, <2>1, <3>1, <3>2 DEF Founds
    <3>5. Founds(r, d)'
      BY <1>5, <3>1, <3>3, <3>4 DEF Founds
    <3> QED
      BY <1>5, <1>6, <3>2, <3>5 DEF Settled
  <2>2. CASE n # Manifest
    <3>1. Ready(d) /\ n \in Pairs /\ file[r].at = "temporary"
      BY <1>1, <1>2, <1>7, <2>2, AtDirectory DEF WorksIn, Names
    <3>2. Ready(d)'
      BY <1>10, <3>1, ReadyKept DEF Ready
    <3>3. ~Founding(r)'
      BY <1>1, <1>5, <2>2 DEF Founding
    <3>4. WorksIn(r, d)'
      BY <1>1, <1>4, <1>5, <1>7, <1>10, <3>1, <3>2 DEF WorksIn
    <3> QED
      BY <1>5, <1>6, <3>3, <3>4 DEF Settled
  <2> QED
    BY <2>1, <2>2
<1>8. \A k \in Keys \ {d} : Untouched(k)
  BY <1>10 DEF Untouched
<1> QED
  BY <1>1, <1>2, <1>5, <1>7, <1>8, Settles

\* So its rename makes a founded directory ready and keeps a ready one so.
LEMMA ReplaceSettles ==
  ASSUME Types, DataInv, DirectoryInv, NEW r \in Runners, Replace(r)
  PROVE  DirectoryInv'
<1>1. PICK d \in Keys, n \in Names : d = DirectoryOf(r) /\ n = file[r].name
  BY AtFile DEF Replace, Writing
<1> DEFINE t == disk[d][n].temporary
<1>2. /\ pc[r] = "replace" /\ pc[r] \in Writing /\ pc[r] # "idle" /\ Others(r)
      /\ UNCHANGED marred
      /\ t = Absent => Finish(r) /\ UNCHANGED disk
      /\ (t # Absent) => (/\ Rewrites(d, n, t, Absent) /\ UNCHANGED job
                         /\ (n = Manifest => Goto(r, "model"))
                         /\ (n # Manifest => NextPosition(r)))
  BY <1>1, ReplaceRight DEF Replace, Writing, Rewrites, Advance
<1>3. /\ file[r].value \in Whole(d, n) /\ t \in Rightful(d, n) /\ Absent \in Rightful(d, n)
  BY <1>1, <1>2, AtFile DEF Rightful
<1>4. t # Absent => /\ disk'[d][n] = [path |-> t, temporary |-> Absent]
                    /\ \A i \in Keys, x \in Names : i # d \/ x # n => disk'[i][x] = disk[i][x]
  <2> SUFFICES ASSUME t # Absent
               PROVE  /\ disk'[d][n] = [path |-> t, temporary |-> Absent]
                      /\ \A i \in Keys, x \in Names : i # d \/ x # n => disk'[i][x] = disk[i][x]
    OBVIOUS
  <2>1. Rewrites(d, n, t, Absent)
    BY <1>2
  <2> HIDE DEF t
  <2> QED
    BY <1>3, <2>1, DiskChanged DEF Types, DataInv
<1>5. \A k \in Keys \ {d} : Untouched(k)
  BY <1>2, <1>4 DEF Untouched
<1>6. /\ t = Absent => pc'[r] = "idle"
      /\ t # Absent => /\ pc'[r] \in {"model", "language", "json"} /\ job'[r] = job[r]
  BY <1>2 DEF Types, RunnerTypes, Finish, Goto, NextPosition
<1>7. ASSUME d \notin marred
      PROVE  Settled(r, d)'
  <2>1. /\ n = Manifest => Founds(r, d)
        /\ n # Manifest => WorksIn(r, d)
    BY <1>1, <1>2, <1>7, AtDirectory
  <2>2. t = file[r].value
    BY <1>1, <1>2, <1>3, <2>1, WholeFiles DEF Founds, WorksIn
  <2>3. t \notin {Absent, Empty, Mixed}
    BY <1>3, <2>2, WholeFiles
  <2>4. Ready(d)'
    <3>1. CASE n = Manifest
      <4>1. t = d
        BY <1>3, <2>2, <3>1, WholeFiles
      <4>2. disk'[d][Manifest] = [path |-> d, temporary |-> Absent]
        BY <1>4, <2>3, <3>1, <4>1
      <4>3. \A x \in Pairs : disk'[d][x] = Nothing
        BY <1>4, <2>1, <2>3, <3>1, PairTypes DEF Founds
      <4> QED
        BY <4>2, <4>3, ValuesAssumption DEF Ready, Nothing
    <3>2. CASE n # Manifest
      <4>1. Ready(d) /\ n \in Pairs
        BY <1>2, <2>1, <3>2 DEF WorksIn, Names
      <4>2. disk'[d][n].path \notin {Empty, Mixed}
        BY <1>4, <2>3
      <4> QED
        BY <1>4, <2>3, <4>1, <4>2, ReadyKept
    <3> QED
      BY <3>1, <3>2
  <2>5. DirectoryOf(r)' = d
    BY <1>1, <1>2, <2>3 DEF DirectoryOf
  <2> QED
    BY <1>6, <2>3, <2>4, <2>5 DEF Settled, Founding, WorksIn, Writing
<1>8. pc'[r] # "idle" => job'[r] = job[r]
  BY <1>6
<1> QED
  BY <1>1, <1>2, <1>5, <1>7, <1>8, Settles


\* A run that is killed leaves its directory empty or ready, but while it writes the manifest.
LEMMA StopSettles ==
  ASSUME Types, DataInv, ShareInv, DirectoryInv, NEW r \in Runners, Stop(r)
  PROVE  DirectoryInv'
<1>1. /\ RunnerTypes /\ pc[r] # "idle" /\ Finish(r) /\ Others(r)
      /\ marred' = marred \cup {k \in {DirectoryOf(r)} :
                                  file[r].name = Manifest /\ file[r].at # "closed"}
  BY StopRight DEF Types, Stop
<1>2. PICK d \in Keys : d = DirectoryOf(r)
  BY <1>1, AtJob DEF DataInv
<1>3. \A k \in Keys : k # d \/ d \notin marred =>
        Untouched(k) /\ (Ready(k) => Ready(k)') /\ (Blank(k) => Blank(k)')
  <2>1. CASE UNCHANGED disk
    BY <2>1 DEF Untouched, Ready, Blank
  <2>2. CASE r \in shared /\ pc[r] = "close" /\ Put(r, Mixed)
    <3>1. file[r].name # Manifest /\ d \in marred
      BY <1>2, <2>2 DEF ShareInv, Sharing
    <3>2. \A k \in Keys \ {d} : Untouched(k)
      <4>1. Mixed \in Rightful(DirectoryOf(r), file[r].name) /\ Put(r, Mixed)
        BY <2>2, <3>1 DEF Rightful
      <4>2. pc[r] \in Writing /\ pc[r] # "open"
        BY <2>2 DEF Writing
      <4>3. \A k \in Keys, n \in Names :
              k # DirectoryOf(r) \/ n # file[r].name => disk'[k][n] = disk[k][n]
        BY <4>1, <4>2, PutRight
      <4> QED
        BY <1>2, <4>3 DEF Untouched
    <3> QED
      BY <3>1, <3>2 DEF Untouched, Ready, Blank, Names
  <2> QED
    BY <2>1, <2>2 DEF Stop
<1>4. pc'[r] = "idle"
  BY <1>1 DEF RunnerTypes, Finish, Goto
<1>5. ASSUME d \notin marred'
      PROVE  Settled(r, d)'
  <2>1. d \notin marred /\ (file[r].name = Manifest => file[r].at = "closed")
    BY <1>1, <1>2, <1>5
  <2>2. CASE pc[r] \in Writing /\ file[r].name = Manifest
    <3>1. Founds(r, d) /\ pc[r] = "open"
      BY <1>1, <1>2, <2>1, <2>2, AtDirectory, AtFile
    <3>2. disk[d][Manifest] = Nothing
      BY <3>1 DEF Founds, Nothing
    <3>3. Blank(d)
      BY <3>1, <3>2 DEF Founds, Blank, Names
    <3> QED
      BY <1>3, <1>4, <2>1, <3>3 DEF Settled
  <2>3. CASE ~(pc[r] \in Writing /\ file[r].name = Manifest)
    BY <1>1, <1>2, <1>3, <1>4, <2>1, <2>3, AtDirectory DEF Settled, WorksIn
  <2> QED
    BY <2>2, <2>3
<1> QED
  BY <1>1, <1>2, <1>3, <1>4, <1>5, Settles

\* A run that joins another mars their directory; otherwise it finds it at rest.
LEMMA InvokeSettles ==
  ASSUME Types, DataInv, DirectoryInv, NEW r \in Runners, NEW c \in Commands, Invoke(r, c)
  PROVE  DirectoryInv'
<1> DEFINE j == [commit |-> tree, command |-> c]
<1>1. PICK d : d = Key(j)
  OBVIOUS
<1>2. /\ RunnerTypes /\ pc[r] = "idle" /\ UNCHANGED <<disk, file>>
      /\ job' = [job EXCEPT ![r] = j] /\ Goto(r, "checkpoints")
      /\ marred' = marred \cup ({d} \cap {DirectoryOf(b) : b \in {x \in Runners : pc[x] # "idle"}})
  BY <1>1 DEF Types, Invoke
<1>3. /\ pc'[r] = "checkpoints" /\ DirectoryOf(r)' = d
      /\ \A b \in Runners \ {r} : pc'[b] = pc[b] /\ job'[b] = job[b]
  BY <1>1, <1>2 DEF RunnerTypes, Goto, DirectoryOf
<1>4. \A b \in Runners \ {r} : Steady(b) /\ file'[b] = file[b]
  BY <1>2, InvokeRight DEF Others
<1> SUFFICES ASSUME NEW k \in Keys, k \notin marred' PROVE DirectoryRight(k)'
  BY DEF DirectoryInv
<1>5. Untouched(k) /\ (Ready(k) => Ready(k)') /\ (Blank(k) => Blank(k)')
  BY <1>2 DEF Untouched, Ready, Blank
<1>6. DirectoryRight(k)
  BY <1>2 DEF DirectoryInv
<1> HIDE DEF j
<1>7. CASE k # d
  <2>1. ~Busy(r, k) /\ ~Busy(r, k)'
    BY <1>2, <1>3, <1>7 DEF Busy
  <2> QED
    BY <1>4, <1>5, <1>6, <2>1, Elsewhere
<1>8. CASE k = d
  <2>1. \A b \in Runners : ~Busy(b, k)
    BY <1>2, <1>8 DEF Busy
  <2>2. \A b \in Runners : Busy(b, k)' => b = r
    BY <1>3, <2>1 DEF Busy, DirectoryOf
  <2>3. Blank(k)' \/ Ready(k)'
    BY <1>5, <1>6, <2>1 DEF DirectoryRight, AtRest
  <2>4. Alone(k)'
    BY <2>2 DEF Alone
  <2>5. AtWork(k)'
    <3>1. ~Founding(r)' /\ WorksIn(r, k)'
      BY <1>3, <2>3 DEF Founding, WorksIn, Writing
    <3> QED
      BY <2>2, <3>1 DEF AtWork
  <2>6. AtRest(k)'
    BY <2>3 DEF AtRest
  <2> QED
    BY <2>4, <2>5, <2>6 DEF DirectoryRight
<1> QED
  BY <1>7, <1>8

\* Without a change of a file or a run no directory changes.
LEMMA NothingSettles ==
  ASSUME DirectoryInv, UNCHANGED <<disk, runVars, marred>>
  PROVE  DirectoryInv'
<1> SUFFICES ASSUME NEW k \in Keys, k \notin marred PROVE DirectoryRight(k)'
  BY DEF DirectoryInv
<1>1. DirectoryRight(k) /\ UNCHANGED <<disk, pc, job, file>>
  BY DEF DirectoryInv, runVars
<1>2. /\ \A r \in Runners : Busy(r, k)' <=> Busy(r, k)
      /\ Blank(k)' <=> Blank(k)
      /\ Ready(k)' <=> Ready(k)
  BY <1>1 DEF Busy, DirectoryOf, Blank, Ready
<1>3. \A r \in Runners : /\ Founding(r)' <=> Founding(r)
                         /\ Founds(r, k) => Founds(r, k)'
                         /\ WorksIn(r, k) => WorksIn(r, k)'
  BY <1>1, <1>2 DEF Founding, Founds, WorksIn
<1> QED
  BY <1>1, <1>2, <1>3 DEF DirectoryRight, Alone, AtWork, AtRest

\* At first every directory is empty.
LEMMA DirectoryInit == ASSUME Init PROVE DirectoryInv
<1>1. \A r \in Runners : pc[r] = "idle"
  BY DEF Init
<1>2. \A k \in Keys : Blank(k)
  BY DEF Init, Blank, Nothing
<1> QED
  BY <1>1, <1>2 DEF DirectoryInv, DirectoryRight, Alone, AtWork, AtRest, Busy

\* Every step leaves every unmarred directory right.
LEMMA DirectoryStep ==
  ASSUME Types, DataInv, ShareInv, DirectoryInv, [Next]_vars
  PROVE  DirectoryInv'
<1>1. ASSUME NEW r \in Runners, NEW c \in Commands, Invoke(r, c)
      PROVE  DirectoryInv'
  BY <1>1, InvokeSettles
<1>2. ASSUME NEW r \in Runners, RunStep(r)
      PROVE  DirectoryInv'
  BY <1>2, OpenCheckpointsSettles, ReadersSettle, OpenTemporarySettles, CloseTemporarySettles,
     ReplaceSettles DEF RunStep
<1>3. ASSUME NEW r \in Runners, Stop(r)
      PROVE  DirectoryInv'
  BY <1>3, StopSettles
<1>4. CASE Edit
  BY <1>4, NothingSettles DEF Edit
<1>5. CASE UNCHANGED vars
  BY <1>5, NothingSettles DEF vars
<1> QED
  BY <1>1, <1>2, <1>3, <1>4, <1>5 DEF Next

\* A directory is as its runs left it, unless two shared it or the writer of its
\* manifest was stopped.
THEOREM DirectorySafe == Spec => []DirectoryInv
<1>1. Init => DirectoryInv
  BY DirectoryInit
<1>2. Types /\ DataInv /\ ShareInv /\ DirectoryInv /\ [Next]_vars => DirectoryInv'
  BY DirectoryStep
<1> QED
  BY <1>1, <1>2, DataSafe, PTL DEF Spec

\* A directory that no run is at work on is empty or can be resumed, unless two runs
\* shared it or the writer of its manifest was stopped (checkpoint.py,
\* write_json_atomic).
THEOREM Resumes == Spec => []Resumable
<1>1. DirectoryInv => Resumable
  BY DEF DirectoryInv, DirectoryRight, AtRest, Busy, Blank, Ready, Nothing, Resumable
<1> QED
  BY <1>1, DirectorySafe, PTL

\* No file of a directory that no two runs shared is mixed.
LEMMA NeverMixed ==
  ASSUME DirectoryInv, NEW k \in Keys, k \notin marred, NEW x \in Pairs
  PROVE  disk[k][x].path # Mixed
<1>1. DirectoryRight(k)
  BY DEF DirectoryInv
<1>2. \/ Blank(k) \/ Ready(k)
      \/ disk[k][x] = Nothing
  BY <1>1 DEF DirectoryRight, AtRest, AtWork, Founds, WorksIn
<1>3. x \in Names /\ Nothing.path # Mixed
  BY ValuesAssumption, PairTypes DEF Nothing
<1> QED
  BY <1>2, <1>3 DEF Blank, Ready

\* A checkpoint or report that can be read is never wrong, however runs were stopped,
\* resumed or overlapped: it holds what one uninterrupted run computes.  One that two
\* writers mixed is left only where runs shared the directory, or overlapped
\* (checkpoint.py, write_reports).
THEOREM ResumesRight == Spec => []ResumedLikeFresh
<1>1. Types /\ DataInv /\ ShareInv /\ DirectoryInv => ResumedLikeFresh
  <2> SUFFICES ASSUME Types, DataInv, ShareInv, DirectoryInv PROVE ResumedLikeFresh
    OBVIOUS
  <2>1. ASSUME NEW j \in Jobs, NEW x \in Pairs
        PROVE  disk[Key(j)][x].path \in
                 {Absent, Empty, Fresh(j, x)} \cup {y \in {Mixed} : Key(j) \in marred}
    <3>1. Key(j) \in Keys /\ x \in Names
      BY JobTypes, PairTypes
    <3>2. disk[Key(j)][x].path \in Rightful(Key(j), x)
      BY <3>1 DEF DataInv, FilesRight
    <3>3. Key(j) \notin marred => disk[Key(j)][x].path # Mixed
      BY <3>1, NeverMixed
    <3> QED
      BY <3>2, <3>3, WholeFiles DEF Rightful
  <2>2. ASSUME NEW fresh \in FreshResults
        PROVE  disk[fresh.key][fresh.pair].path \in
                 {Absent, Empty, fresh.result} \cup {y \in {Mixed} : fresh.key \in marred}
    <3>1. PICK j \in Jobs, x \in Pairs :
            fresh = [key |-> Key(j), pair |-> x, result |-> Fresh(j, x)]
      BY DEF FreshResults
    <3> QED
      BY <2>1, <3>1
  <2>3. {report.json, report.markdown} \subseteq
          {Absent, Empty} \cup FreshReports \cup {y \in {Mixed} : overlaps > 0}
    BY DEF Types, OtherTypes, Written, Unmixed, ShareInv
  <2> QED
    BY <2>2, <2>3 DEF ResumedLikeFresh
<1> QED
  BY <1>1, DataSafe, DirectorySafe, PTL
=============================================================================
