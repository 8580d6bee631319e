---------------------------- MODULE ResolverProofs ----------------------------
(***************************************************************************)
(* Proofs about Resolver, for every gazetteer, model, batch and number of  *)
(* calls, trainings and errors: what a call compares has been embedded, a  *)
(* search finds what it would find without the cache, and a reference is   *)
(* embedded with the window of sentences it should be.                     *)
(*                                                                         *)
(* What a step relies on was put into a cache some steps before, by this   *)
(* call or another.  The invariants say what is in the caches at each step *)
(* (EmbeddedInv), and that whatever is there is right (SearchedInv).       *)
(***************************************************************************)
EXTENDS Resolver, FiniteSetTheorems, SequenceTheorems, WellFoundedInduction, TLAPS

-----------------------------------------------------------------------------
(***************************************************************************)
(* Embeddings.                                                             *)
(***************************************************************************)

\* Each reference of a batch has a context, candidates and a result.
Parallel ==
  /\ DOMAIN contexts = Refs
  /\ DOMAIN candidates = Refs
  /\ DOMAIN results = Refs

ContextsEmbedded == \A i \in Refs : contexts[i] \in DOMAIN contextEmbedded

EmbeddedInv ==
  /\ Parallel
  /\ pc \in {"gather", "evaluate"} => ContextsEmbedded
  /\ NothingMissing

\* A cache that something is added to keeps what it has, and has the new as well.
LEMMA Remembers ==
  ASSUME NEW cache, NEW new
  PROVE  /\ DOMAIN Remember(cache, new) = (DOMAIN cache) \cup (DOMAIN new)
         /\ \A key \in DOMAIN cache : Remember(cache, new)[key] = cache[key]
         /\ \A key \in (DOMAIN new) \ (DOMAIN cache) : Remember(cache, new)[key] = new[key]
BY DEF Remember

\* A call that is over leaves nothing to compare.
LEMMA EndedEmbedded ==
  ASSUME EndCall
  PROVE  EmbeddedInv'
BY DEF EndCall, EmbeddedInv, Parallel, Refs, NothingMissing

LEMMA EmbeddedStable == EmbeddedInv /\ [Next]_vars => EmbeddedInv'
<1>1. SUFFICES ASSUME EmbeddedInv, [Next]_vars
               PROVE  EmbeddedInv'
  OBVIOUS
<1>2. ASSUME NEW b \in Batches, Fit(b)
      PROVE  EmbeddedInv'
  BY <1>1, <1>2 DEF Fit, callVars, EmbeddedInv, Parallel, Refs, NothingMissing
<1>3. ASSUME NEW b \in Batches, Predict(b)
      PROVE  EmbeddedInv'
  BY <1>3 DEF Predict, ContextsOf, EmbeddedInv, Parallel, Refs, NothingMissing
<1>4. ASSUME EmbedContexts
      PROVE  EmbeddedInv'
  <2>1. /\ contextEmbedded' = Remember(contextEmbedded, [c \in ToSet(contexts) |-> version])
        /\ pc' = "gather"
        /\ UNCHANGED <<batch, contexts, candidates, results>>
    BY <1>4 DEF EmbedContexts, callVars
  <2>2. DOMAIN contextEmbedded' = (DOMAIN contextEmbedded) \cup ToSet(contexts)
    BY <2>1, Remembers
  <2>3. \A i \in Refs : contexts[i] \in ToSet(contexts)
    BY <1>1 DEF EmbeddedInv, Parallel, ToSet
  <2> QED
    BY <1>1, <2>1, <2>2, <2>3 DEF EmbeddedInv, Parallel, Refs, ContextsEmbedded, NothingMissing
<1>5. ASSUME GatherCandidates
      PROVE  EmbeddedInv'
  <2>1. /\ pc = "gather" /\ pc' = "gather"
        /\ UNCHANGED <<batch, contexts, results, contextEmbedded>>
        /\ DOMAIN candidates' = DOMAIN candidates
    BY <1>5 DEF GatherCandidates
  <2> QED
    BY <1>1, <2>1 DEF EmbeddedInv, Parallel, Refs, ContextsEmbedded, NothingMissing
<1>6. ASSUME EmbedCandidates
      PROVE  EmbeddedInv'
  <2>1. /\ candidateEmbedded' =
             Remember(candidateEmbedded, [f \in CandidatesNeedingEmbedding |-> version])
        /\ pc = "gather" /\ pc' = "evaluate"
        /\ UNCHANGED <<batch, contexts, candidates, results, contextEmbedded>>
    BY <1>6 DEF EmbedCandidates, callVars
  <2>2. DOMAIN candidateEmbedded' = (DOMAIN candidateEmbedded) \cup CandidatesNeedingEmbedding
    BY <2>1, Remembers
  <2>3. \A i \in Refs : results[i] = None => ToSet(candidates[i]) \subseteq DOMAIN candidateEmbedded'
    BY <2>2 DEF CandidatesNeedingEmbedding
  <2>4. Embedded'
    BY <1>1, <2>1, <2>3 DEF EmbeddedInv, ContextsEmbedded, Embedded, Pending, Refs
  <2> QED
    BY <1>1, <2>1, <2>4 DEF EmbeddedInv, Parallel, Refs, ContextsEmbedded, NothingMissing
<1>7. ASSUME EvaluateCandidates
      PROVE  EmbeddedInv'
  <2>1. /\ pc = "evaluate" /\ pc' \in {"done", "gather"}
        /\ UNCHANGED <<batch, contexts, candidates, contextEmbedded>>
        /\ DOMAIN results' = Refs
    BY <1>7 DEF EvaluateCandidates, cacheVars, Evaluated
  <2> QED
    BY <1>1, <2>1 DEF EmbeddedInv, Parallel, Refs, ContextsEmbedded, NothingMissing
<1>8. CASE Return
  BY <1>8, EndedEmbedded DEF Return
<1>9. CASE Raise
  BY <1>9, EndedEmbedded DEF Raise
<1>10. ASSUME ClearCaches
       PROVE  EmbeddedInv'
  BY <1>1, <1>10 DEF ClearCaches, callVars, EmbeddedInv, Parallel, Refs, NothingMissing
<1>11. CASE UNCHANGED vars
  BY <1>1, <1>11 DEF vars, callVars, cacheVars, EmbeddedInv, Parallel, Refs, ContextsEmbedded,
                     NothingMissing, Embedded, Pending
<1> QED
  BY <1>1, <1>2, <1>3, <1>4, <1>5, <1>6, <1>7, <1>8, <1>9, <1>10, <1>11 DEF Next

\* A call never ends in a KeyError: whatever earlier, failed or cleared calls have
\* left in the caches, SentenceTransformerResolver has embedded the context and the
\* candidates of every reference it evaluates (_flat_similarities).
THEOREM NothingEverMissing == Spec => []NothingMissing
<1>1. Init => EmbeddedInv
  BY DEF Init, EmbeddedInv, Parallel, Refs, NothingMissing
<1>2. EmbeddedInv => NothingMissing
  BY DEF EmbeddedInv
<1> QED
  BY <1>1, <1>2, EmbeddedStable, PTL DEF Spec

-----------------------------------------------------------------------------
(***************************************************************************)
(* Searches.                                                               *)
(***************************************************************************)

\* What is cached is what the gazetteer answers.
SearchedInv == \A key \in DOMAIN searched : searched[key] = Search(key[1], key[2], key[3])

\* The spellings of a name: at least itself.
LEMMA SpellingsTyped ==
  ASSUME NEW name \in Names, NEW by
  PROVE  /\ Spellings(name, by) \in Seq(Names)
         /\ Len(Spellings(name, by)) \in Nat \ {0}
         /\ DOMAIN Spellings(name, by) = 1 .. Len(Spellings(name, by))
<1>1. <<name>> \in Seq(Names)
  OBVIOUS
<1>2. Trimmed[name] \in Seq(Names)
  BY SearchAssumption
<1>3. CASE kind = "prior" /\ by = "exact"
  <2>1. Spellings(name, by) = <<name>> \o Trimmed[name]
    BY <1>3 DEF Spellings
  <2> QED
    BY <1>1, <1>2, <2>1
<1>4. CASE ~(kind = "prior" /\ by = "exact")
  <2>1. Spellings(name, by) = <<name>> \o << >>
    BY <1>4 DEF Spellings
  <2> QED
    BY <1>1, <2>1
<1> QED
  BY <1>3, <1>4

\* With such a cache, looking a spelling up is searching for it.
LEMMA LookupSearches ==
  ASSUME SearchedInv, NEW name \in Names, NEW by, NEW wanted
  PROVE  Lookup(name, by, wanted) = Search(Normal[name], by, wanted)
<1> DEFINE key == CacheKey(name, by, wanted)
<1>1. key[1] = Normal[name] /\ key[2] = by /\ key[3] = wanted
  BY DEF CacheKey
<1>2. CASE key \in DOMAIN searched
  BY <1>1, <1>2 DEF SearchedInv, Lookup
<1>3. CASE key \notin DOMAIN searched
  BY <1>3 DEF Lookup
<1> QED
  BY <1>2, <1>3

\* What a search adds to the cache is right as well.
LEMMA SearchedSound ==
  ASSUME NEW name, NEW by, NEW wanted, NEW key \in DOMAIN Searched(name, by, wanted)
  PROVE  /\ Searched(name, by, wanted)[key] = Search(key[1], by, wanted)
         /\ key[2] = by /\ key[3] = wanted
BY DEF Searched, CacheKey

LEMMA RemembersSound ==
  ASSUME SearchedInv, NEW new, searched' = Remember(searched, new),
         \A key \in DOMAIN new : new[key] = Search(key[1], key[2], key[3])
  PROVE  SearchedInv'
<1>1. ASSUME NEW key \in DOMAIN searched'
      PROVE  searched'[key] = Search(key[1], key[2], key[3])
  <2>1. /\ key \in (DOMAIN searched) \cup (DOMAIN new)
        /\ searched'[key] = IF key \in DOMAIN searched THEN searched[key] ELSE new[key]
    BY <1>1 DEF Remember
  <2> QED
    BY <2>1 DEF SearchedInv
<1> QED
  BY <1>1 DEF SearchedInv

LEMMA SearchedStable == SearchedInv /\ [Next]_vars => SearchedInv'
<1>1. SUFFICES ASSUME SearchedInv, [Next]_vars
               PROVE  SearchedInv'
  OBVIOUS
<1>2. ASSUME NEW b \in Batches, Fit(b)
      PROVE  SearchedInv'
  <2> DEFINE lost == {i \in DOMAIN b : ~Locatable(b[i].document, b[i].at)}
             reached == {i \in DOMAIN b : \A j \in lost : i < j}
             keys == UNION {DOMAIN Searched(b[i].name, "exact", 1) : i \in reached}
             new == [key \in keys |-> Search(key[1], "exact", 1)]
  <2>1. searched' = Remember(searched, new)
    BY <1>2 DEF Fit
  <2>2. ASSUME NEW key \in keys
        PROVE  key[2] = "exact" /\ key[3] = 1
    BY <2>2, SearchedSound
  <2>3. \A key \in DOMAIN new : new[key] = Search(key[1], key[2], key[3])
    BY <2>2
  <2> HIDE DEF new
  <2> QED
    BY <1>1, <2>1, <2>3, RemembersSound
<1>3. ASSUME GatherCandidates
      PROVE  SearchedInv'
  <2> DEFINE new == Searched(batch[next].name, SearchMethods[method], tiers)
  <2>1. searched' = searched \/ searched' = Remember(searched, new)
    BY <1>3 DEF GatherCandidates
  <2>2. \A key \in DOMAIN new : new[key] = Search(key[1], key[2], key[3])
    BY SearchedSound
  <2> HIDE DEF new
  <2>3. CASE searched' = searched
    BY <1>1, <2>3 DEF SearchedInv
  <2> QED
    BY <1>1, <2>1, <2>2, <2>3, RemembersSound
<1>4. ASSUME ClearCaches
      PROVE  SearchedInv'
  BY <1>4 DEF ClearCaches, SearchedInv
<1>5. ASSUME UNCHANGED searched
      PROVE  SearchedInv'
  BY <1>1, <1>5 DEF SearchedInv
<1>6. ASSUME NEW b \in Batches, Predict(b)
      PROVE  UNCHANGED searched
  BY <1>6 DEF Predict, cacheVars
<1>7. ASSUME EmbedContexts \/ EmbedCandidates \/ EvaluateCandidates
      PROVE  UNCHANGED searched
  BY <1>7 DEF EmbedContexts, EmbedCandidates, EvaluateCandidates, cacheVars
<1>8. ASSUME Return \/ Raise
      PROVE  UNCHANGED searched
  BY <1>8 DEF Return, Raise, EndCall, cacheVars
<1>9. ASSUME UNCHANGED vars
      PROVE  UNCHANGED searched
  BY <1>9 DEF vars, cacheVars
<1> QED
  BY <1>1, <1>2, <1>3, <1>4, <1>5, <1>6, <1>7, <1>8, <1>9 DEF Next

\* There is a first among some positions.
LEMMA FirstOfSome ==
  ASSUME NEW S \in SUBSET Nat, S # {}
  PROVE  \E n \in S : \A m \in S : n <= m
<1> DEFINE less == {ss \in Nat \X Nat : ss[1] < ss[2]}
<1>1. IsWellFoundedOn(less, Nat)
  BY NatLessThanWellFounded DEF OpToRel
<1> HIDE DEF less
<1>2. PICK n \in S : \A m \in S : <<m, n>> \notin less
  BY <1>1, WFMin
<1>3. ASSUME NEW m \in S
      PROVE  n <= m
  <2>1. n \in Nat /\ m \in Nat
    OBVIOUS
  <2>2. ~(m < n)
    BY <1>2, <2>1 DEF less
  <2> QED
    BY <2>1, <2>2
<1> QED
  BY <1>3

\* What a pass finds for a name through the cache, and what the documented search
\* finds without one.
SearchesAlone ==
  \A name \in Names, by \in DOMAIN SearchMethods, wanted \in 1 .. MaxTiers :
    Found(name, SearchMethods[by], wanted) = FoundAlone(name, <<by, wanted>>)

LEMMA FoundIsAlone == SearchedInv => SearchesAlone
<1>1. SUFFICES ASSUME SearchedInv, NEW name \in Names, NEW by \in DOMAIN SearchMethods,
                      NEW wanted \in 1 .. MaxTiers
               PROVE  Found(name, SearchMethods[by], wanted) = FoundAlone(name, <<by, wanted>>)
  BY DEF SearchesAlone
<1> DEFINE how == SearchMethods[by]
           all == Spellings(name, how)
           found == [i \in DOMAIN all |-> Search(Normal[all[i]], how, wanted)]
           hits == {i \in DOMAIN found : found[i] # << >>}
           I == {i \in 1 .. Len(all) : Lookup(all[i], how, wanted) # << >>}
           tried == Tried(name, how, wanted)
<1>2. /\ all \in Seq(Names) /\ Len(all) \in Nat \ {0}
      /\ DOMAIN all = 1 .. Len(all)
  BY SpellingsTyped
<1>3. \A i \in 1 .. Len(all) : Lookup(all[i], how, wanted) = found[i]
  <2>1. ASSUME NEW i \in 1 .. Len(all)
        PROVE  Lookup(all[i], how, wanted) = found[i]
    <3>1. all[i] \in Names
      BY <1>2, ElementOfSeq
    <3> QED
      BY <1>1, <1>2, <3>1, LookupSearches
  <2> QED
    BY <2>1
<1>4. I = hits
  BY <1>2, <1>3
<1>5. FoundAlone(name, <<by, wanted>>) =
        IF hits = {} THEN << >> ELSE found[CHOOSE i \in hits : \A j \in hits : i <= j]
  BY DEF FoundAlone
<1>6. Found(name, how, wanted) = Lookup(all[tried], how, wanted)
  BY DEF Found
<1> DEFINE hit == SelectInSeq(all, LAMBDA s : Lookup(s, how, wanted) # << >>)
<1>9. hit = IF I # {} THEN Min(I) ELSE 0
  BY DEF SelectInSeq
<1>10. tried = IF hit = 0 THEN Len(all) ELSE hit
  BY DEF Tried
<1> HIDE DEF hit, tried
<1>7. CASE hits = {}
  <2>1. tried = Len(all)
    BY <1>4, <1>7, <1>9, <1>10
  <2>2. Len(all) \in 1 .. Len(all)
    BY <1>2
  <2>3. found[Len(all)] = << >>
    BY <1>2, <1>7, <2>2
  <2> QED
    BY <1>3, <1>5, <1>6, <1>7, <2>1, <2>2, <2>3
<1>8. CASE hits # {}
  <2>1. hits \subseteq Nat \ {0}
    BY <1>2
  <2>2. PICK first \in hits : \A j \in hits : first <= j
    BY <1>8, <2>1, FirstOfSome
  <2>3. hit = CHOOSE i \in hits : \A j \in hits : i <= j
    <3>1. hit = Min(hits)
      BY <1>4, <1>8, <1>9
    <3> HIDE DEF hits
    <3> QED
      BY <3>1 DEF Min
  <2>4. hit \in hits
    BY <2>2, <2>3
  <2>5. tried = hit
    BY <1>10, <2>1, <2>4
  <2> QED
    BY <1>2, <1>3, <1>5, <1>6, <1>8, <2>3, <2>4, <2>5
<1> QED
  BY <1>7, <1>8

\* A search finds what it would find alone: neither what earlier, failed or
\* training calls have cached, nor clearing the caches in between, changes which
\* features SentenceTransformerResolver or PriorResolver takes for candidates of a
\* name, by any method and any number of tiers (_search_candidates).
THEOREM SearchesAlwaysAlone == Spec => []SearchesAlone
<1>1. Init => SearchedInv
  BY DEF Init, SearchedInv
<1> QED
  BY <1>1, FoundIsAlone, SearchedStable, PTL DEF Spec

-----------------------------------------------------------------------------
(***************************************************************************)
(* Contexts.  A window is the state of a loop, so that the proof is an     *)
(* induction on its rounds; what a window costs is a number of tokens,     *)
(* whose sets grow with it.                                                *)
(***************************************************************************)

\* Induction over the numbers, on the set of those that are through.
LEMMA Induct ==
  ASSUME NEW S, 0 \in S, \A n \in Nat : n \in S => n + 1 \in S
  PROVE  Nat \subseteq S
<1>1. SUFFICES ASSUME Nat \ S # {}
               PROVE  FALSE
  OBVIOUS
<1>2. Nat \ S \in SUBSET Nat
  OBVIOUS
<1>3. PICK n \in Nat \ S : \A m \in Nat \ S : n <= m
  BY <1>1, <1>2, FirstOfSome
<1>4. n # 0 /\ n \in Nat
  OBVIOUS
<1>5. n - 1 \in Nat /\ n = (n - 1) + 1 /\ ~(n <= n - 1)
  BY <1>4
<1>6. n - 1 \in S
  BY <1>3, <1>5
<1> QED
  BY <1>5, <1>6

\* The states of a loop that takes n steps.
Follows(g, start, step, n) ==
  g[0] = start /\ \A i \in 1 .. n : g[i] = step[<<g[i - 1], i>>]

\* A function that starts at start and follows step exists.
LEMMA Recursion ==
  ASSUME NEW n \in Nat, NEW V, NEW start \in V, NEW step,
         \A v \in V, i \in 1 .. n : step[<<v, i>>] \in V
  PROVE  \E g : g \in [0 .. n -> V] /\ Follows(g, start, step, n)
<1> USE DEF Follows
<1> DEFINE through == {m \in Nat : m <= n => \E g \in [0 .. m -> V] : Follows(g, start, step, m)}
<1>1. 0 \in through
  <2>1. [i \in 0 .. 0 |-> start] \in [0 .. 0 -> V] /\ Follows([i \in 0 .. 0 |-> start], start, step, 0)
    OBVIOUS
  <2> QED
    BY <2>1
<1>2. ASSUME NEW m \in Nat, m \in through
      PROVE  m + 1 \in through
  <2>1. SUFFICES ASSUME m + 1 <= n
                 PROVE  \E g \in [0 .. m + 1 -> V] : Follows(g, start, step, m + 1)
    OBVIOUS
  <2>2. PICK g \in [0 .. m -> V] : Follows(g, start, step, m)
    BY <1>2, <2>1
  <2> DEFINE h == [i \in 0 .. m + 1 |-> IF i <= m THEN g[i] ELSE step[<<g[m], m + 1>>]]
  <2>3. g[m] \in V /\ m + 1 \in 1 .. n
    BY <2>1
  <2>4. step[<<g[m], m + 1>>] \in V
    BY <2>3
  <2>5. h \in [0 .. m + 1 -> V]
    BY <2>4
  <2>6. h[0] = start
    BY <2>2
  <2>7. ASSUME NEW i \in 1 .. m + 1
        PROVE  h[i] = step[<<h[i - 1], i>>]
    <3>1. i - 1 \in 0 .. m /\ h[i - 1] = g[i - 1]
      OBVIOUS
    <3>2. CASE i <= m
      BY <2>2, <3>1, <3>2
    <3>3. CASE i = m + 1
      <4>1. ~(m + 1 <= m) /\ m <= m /\ m \in 0 .. m + 1
        BY <2>1
      <4>2. h[m] = g[m] /\ h[m + 1] = step[<<g[m], m + 1>>]
        BY <4>1
      <4>3. i - 1 = m
        BY <3>3
      <4> QED
        BY <3>3, <4>2, <4>3
    <3> QED
      BY <3>2, <3>3
  <2> HIDE DEF h
  <2> QED
    BY <2>5, <2>6, <2>7
<1>3. Nat \subseteq through
  <2> HIDE DEF through
  <2> QED BY <1>1, <1>2, Induct
<1>4. n \in through
  <2> HIDE DEF through
  <2> QED BY <1>3
<1>5. n <= n
  OBVIOUS
<1>6. \E g \in [0 .. n -> V] : Follows(g, start, step, n)
  <2> HIDE DEF Follows
  <2> QED BY <1>4, <1>5
<1> QED
  BY <1>6

-----------------------------------------------------------------------------
Sentences == Seq([start : Nat, end : Nat, cost : Nat])

\* The tokens of one sentence.
LEMMA OneSentence ==
  ASSUME NEW k, NEW c \in Nat
  PROVE  IsFiniteSet({k} \X (1 .. c)) /\ Cardinality({k} \X (1 .. c)) = c
<1> DEFINE one == {k}
           all == 1 .. c
<1>1. IsFiniteSet(one) /\ Cardinality(one) = 1
  BY FS_Singleton
<1>2. IsFiniteSet(all) /\ Cardinality(all) = c
  BY FS_Interval
<1> HIDE DEF one, all
<1>3. IsFiniteSet(one \X all) /\ Cardinality(one \X all) = Cardinality(one) * Cardinality(all)
  BY <1>1, <1>2, FS_Product
<1>4. 1 * c = c
  OBVIOUS
<1> QED
  BY <1>1, <1>2, <1>3, <1>4 DEF one, all

LEMMA CostOf ==
  ASSUME NEW s \in Sentences, NEW k \in 1 .. Len(s)
  PROVE  s[k].cost \in Nat
<1>1. s[k] \in [start : Nat, end : Nat, cost : Nat]
  BY ElementOfSeq DEF Sentences
<1> QED
  BY <1>1

\* The tokens of a window are finitely many.
LEMMA TokensFinite ==
  ASSUME NEW s \in Sentences, NEW i \in 1 .. Len(s), NEW j \in 1 .. Len(s)
  PROVE  IsFiniteSet(Tokens(s, i, j)) /\ Cost(s, i, j) \in Nat
<1> DEFINE part == [k \in i .. j |-> {k} \X (1 .. s[k].cost)]
<1> DEFINE parts == {part[k] : k \in i .. j}
<1>1. IsFiniteSet(i .. j)
  BY FS_Interval
<1>2. part \in Surjection(i .. j, parts)
  BY DEF Surjection
<1>3. IsFiniteSet(parts)
  BY <1>1, <1>2, FS_Surjection
<1>4. ASSUME NEW k \in i .. j
      PROVE  IsFiniteSet({k} \X (1 .. s[k].cost))
  <2>1. k \in 1 .. Len(s)
    OBVIOUS
  <2> QED
    BY <2>1, CostOf, OneSentence
<1>5. \A S \in parts : IsFiniteSet(S)
  BY <1>4
<1>6. Tokens(s, i, j) = UNION parts
  BY DEF Tokens
<1> HIDE DEF parts
<1>7. IsFiniteSet(Tokens(s, i, j))
  BY <1>3, <1>5, <1>6, FS_UNION
<1> QED
  BY <1>7, FS_CardinalityType DEF Cost

\* A window that takes one more sentence costs that sentence more.
LEMMA CostAdds ==
  ASSUME NEW s \in Sentences, NEW i \in 1 .. Len(s), NEW j \in 1 .. Len(s), i <= j
  PROVE  /\ i = j => Cost(s, i, j) = s[i].cost
         /\ j + 1 <= Len(s) => Cost(s, i, j + 1) = Cost(s, i, j) + s[j + 1].cost
         /\ 1 <= i - 1 => Cost(s, i - 1, j) = Cost(s, i, j) + s[i - 1].cost
<1>1. ASSUME NEW k \in 1 .. Len(s), k \notin i .. j, NEW a, NEW b, a .. b = (i .. j) \cup {k}
      PROVE  Cost(s, a, b) = Cost(s, i, j) + s[k].cost
  <2> DEFINE one == {k} \X (1 .. s[k].cost)
  <2>1. IsFiniteSet(one) /\ Cardinality(one) = s[k].cost /\ s[k].cost \in Nat
    BY CostOf, OneSentence
  <2>2. IsFiniteSet(Tokens(s, i, j)) /\ Cardinality(Tokens(s, i, j)) \in Nat
    BY TokensFinite DEF Cost
  <2>3. Tokens(s, a, b) = (Tokens(s, i, j)) \cup one
    BY <1>1 DEF Tokens
  <2>4. (Tokens(s, i, j)) \cap one = {}
    BY <1>1 DEF Tokens
  <2>5. Cardinality((Tokens(s, i, j)) \cap one) = 0
    BY <2>4, FS_EmptySet
  <2> HIDE DEF one
  <2>6. Cardinality((Tokens(s, i, j)) \cup one) =
          Cardinality(Tokens(s, i, j)) + Cardinality(one) - Cardinality((Tokens(s, i, j)) \cap one)
    BY <2>1, <2>2, FS_Union
  <2>7. \A p, q \in Nat : p + q - 0 = p + q
    OBVIOUS
  <2> QED
    BY <2>1, <2>2, <2>3, <2>5, <2>6, <2>7, Zenon DEF Cost
<1>2. ASSUME i = j
      PROVE  Cost(s, i, j) = s[i].cost
  <2>1. i .. j = {i}
    BY <1>2
  <2>2. Tokens(s, i, j) = {i} \X (1 .. s[i].cost)
    BY <2>1 DEF Tokens
  <2> QED
    BY <2>2, CostOf, OneSentence DEF Cost
<1>3. ASSUME j + 1 <= Len(s)
      PROVE  Cost(s, i, j + 1) = Cost(s, i, j) + s[j + 1].cost
  <2>1. j + 1 \in 1 .. Len(s) /\ j + 1 \notin i .. j /\ i .. (j + 1) = (i .. j) \cup {j + 1}
    BY <1>3
  <2> QED
    BY <1>1, <2>1
<1>4. ASSUME 1 <= i - 1
      PROVE  Cost(s, i - 1, j) = Cost(s, i, j) + s[i - 1].cost
  <2>1. i - 1 \in 1 .. Len(s) /\ i - 1 \notin i .. j /\ (i - 1) .. j = (i .. j) \cup {i - 1}
    BY <1>4
  <2> QED
    BY <1>1, <2>1
<1> QED
  BY <1>2, <1>3, <1>4

\* A wider window costs no less.
LEMMA WiderCosts ==
  ASSUME NEW s \in Sentences, NEW i \in 1 .. Len(s), NEW j \in 1 .. Len(s),
         NEW a \in 1 .. Len(s), NEW b \in 1 .. Len(s), a <= i, j <= b
  PROVE  Cost(s, i, j) <= Cost(s, a, b)
<1>1. i .. j \subseteq a .. b
  OBVIOUS
<1>2. Tokens(s, i, j) \subseteq Tokens(s, a, b)
  BY <1>1 DEF Tokens
<1>3. IsFiniteSet(Tokens(s, a, b))
  BY TokensFinite
<1> QED
  BY <1>2, <1>3, FS_Subset DEF Cost

\* What a window within the sentences costs is a number, and so is the limit.
LEMMA WindowNumbers ==
  ASSUME NEW s \in Sentences
  PROVE  Len(s) \in Nat /\ DOMAIN s = 1 .. Len(s) /\ TokenLimit \in Int
BY DocumentsAssumption DEF TokenLimit, Sentences

\* Where a window is too wide, a wider one is.
LEMMA StaysBlocked ==
  ASSUME NEW s \in Sentences, NEW i \in Int, NEW j \in Int, i <= j, Blocked(s, i, j),
         NEW a \in Int, NEW b \in Int, a <= i, j <= b
  PROVE  Blocked(s, a, b)
<1>1. SUFFICES ASSUME 1 <= a, b <= Len(s)
               PROVE  Cost(s, a, b) > TokenLimit
  BY WindowNumbers DEF Blocked
<1>2. /\ i \in 1 .. Len(s) /\ j \in 1 .. Len(s) /\ a \in 1 .. Len(s) /\ b \in 1 .. Len(s)
      /\ ~(i < 1) /\ ~(j > Len(s))
  BY <1>1, WindowNumbers
<1>3. Cost(s, i, j) > TokenLimit
  BY <1>2 DEF Blocked
<1>4. Cost(s, i, j) <= Cost(s, a, b)
  BY <1>2, WiderCosts
<1>5. Cost(s, i, j) \in Nat /\ Cost(s, a, b) \in Nat
  BY <1>2, TokensFinite
<1>6. TokenLimit \in Int
  BY WindowNumbers
<1>7. \A x \in Nat, y \in Nat, z \in Int : x > z /\ x <= y => y > z
  OBVIOUS
<1> QED
  BY <1>3, <1>4, <1>5, <1>6, <1>7

-----------------------------------------------------------------------------
Windows == [first : Int, last : Int, remaining : Int]

\* A window around a sentence, and what it leaves of the limit.
Around(s, t, w) ==
  /\ w \in Windows
  /\ w.first \in 1 .. t /\ w.last \in t .. Len(s)
  /\ w.remaining = TokenLimit - Cost(s, w.first, w.last)
  /\ w.remaining >= 0 \/ w.first = w.last

\* A side is shorter only where it could not grow while the sides were even.
Even(s, t, w) ==
  /\ t - w.first < w.last - t => Blocked(s, w.first - 1, t + (t - w.first))
  /\ w.last - t < t - w.first => Blocked(s, t - (w.last - t) - 1, w.last + 1)

Stuck(s, w) == Blocked(s, w.first - 1, w.last) /\ Blocked(s, w.first, w.last + 1)

\* A neighbour is affordable if and only if the window with it keeps to the limit.
LEMMA AffordableBefore ==
  ASSUME NEW s \in Sentences, NEW t \in 1 .. Len(s), NEW w, Around(s, t, w)
  PROVE  Affordable(s, w.first - 1, w.remaining) <=> ~Blocked(s, w.first - 1, w.last)
<1>1. /\ w.first \in 1 .. Len(s) /\ w.last \in 1 .. Len(s) /\ w.first <= w.last
      /\ Len(s) \in Nat /\ DOMAIN s = 1 .. Len(s) /\ TokenLimit \in Int
      /\ w.remaining = TokenLimit - Cost(s, w.first, w.last)
  BY WindowNumbers DEF Around, Windows
<1>2. CASE w.first - 1 < 1
  BY <1>1, <1>2 DEF Affordable, Blocked
<1>3. CASE ~(w.first - 1 < 1)
  <2>1. w.first - 1 \in 1 .. Len(s) /\ 1 <= w.first - 1 /\ ~(w.last > Len(s))
    BY <1>1, <1>3
  <2>2. Cost(s, w.first - 1, w.last) = Cost(s, w.first, w.last) + s[w.first - 1].cost
    BY <1>1, <2>1, CostAdds
  <2>3. Cost(s, w.first, w.last) \in Nat /\ s[w.first - 1].cost \in Nat
    BY <1>1, <2>1, TokensFinite, CostOf
  <2>4. \A x, y \in Nat, z \in Int : (y <= z - x) <=> ~(x + y > z)
    OBVIOUS
  <2>5. (s[w.first - 1].cost <= w.remaining) <=> ~(Cost(s, w.first - 1, w.last) > TokenLimit)
    BY <1>1, <2>2, <2>3, <2>4
  <2> QED
    BY <1>1, <1>3, <2>1, <2>5, Zenon DEF Affordable, Blocked
<1> QED
  BY <1>2, <1>3

LEMMA AffordableAfter ==
  ASSUME NEW s \in Sentences, NEW t \in 1 .. Len(s), NEW w, Around(s, t, w)
  PROVE  Affordable(s, w.last + 1, w.remaining) <=> ~Blocked(s, w.first, w.last + 1)
<1>1. /\ w.first \in 1 .. Len(s) /\ w.last \in 1 .. Len(s) /\ w.first <= w.last
      /\ Len(s) \in Nat /\ DOMAIN s = 1 .. Len(s) /\ TokenLimit \in Int
      /\ w.remaining = TokenLimit - Cost(s, w.first, w.last)
  BY WindowNumbers DEF Around, Windows
<1>2. CASE w.last + 1 > Len(s)
  BY <1>1, <1>2 DEF Affordable, Blocked
<1>3. CASE ~(w.last + 1 > Len(s))
  <2>1. w.last + 1 \in 1 .. Len(s) /\ w.last + 1 <= Len(s) /\ ~(w.first < 1)
    BY <1>1, <1>3
  <2>2. Cost(s, w.first, w.last + 1) = Cost(s, w.first, w.last) + s[w.last + 1].cost
    BY <1>1, <2>1, CostAdds
  <2>3. Cost(s, w.first, w.last) \in Nat /\ s[w.last + 1].cost \in Nat
    BY <1>1, <2>1, TokensFinite, CostOf
  <2>4. \A x, y \in Nat, z \in Int : (y <= z - x) <=> ~(x + y > z)
    OBVIOUS
  <2>5. (s[w.last + 1].cost <= w.remaining) <=> ~(Cost(s, w.first, w.last + 1) > TokenLimit)
    BY <1>1, <2>2, <2>3, <2>4
  <2> QED
    BY <1>1, <1>3, <2>1, <2>5, Zenon DEF Affordable, Blocked
<1> QED
  BY <1>2, <1>3

\* Half a round: a window stays where it is, or takes the neighbour and pays.
LEMMA ExtendsBefore ==
  ASSUME NEW s \in Sentences, NEW t \in 1 .. Len(s), NEW w, Around(s, t, w)
  PROVE  LET v == ExtendBefore(s, w)
         IN  /\ Around(s, t, v) /\ v.last = w.last
             /\ Blocked(s, w.first - 1, w.last) => v = w
             /\ ~Blocked(s, w.first - 1, w.last) => v.first = w.first - 1
<1> DEFINE i == w.first - 1
<1>1. CASE Blocked(s, i, w.last)
  <2>1. ~Affordable(s, i, w.remaining)
    BY <1>1, AffordableBefore
  <2>2. ExtendBefore(s, w) = w
    BY <2>1 DEF ExtendBefore
  <2> QED
    BY <1>1, <2>2
<1>2. CASE ~Blocked(s, i, w.last)
  <2>1. Affordable(s, i, w.remaining)
    BY <1>2, AffordableBefore
  <2>2. /\ i \in 1 .. Len(s) /\ s[i].cost <= w.remaining /\ 1 <= i /\ Len(s) \in Nat
        /\ TokenLimit \in Int
    BY <2>1, WindowNumbers DEF Affordable
  <2>3. /\ w \in Windows /\ w.first \in 1 .. t /\ w.last \in t .. Len(s)
        /\ w.remaining = TokenLimit - Cost(s, w.first, w.last)
    BY DEF Around
  <2>4. w.first \in 1 .. Len(s) /\ w.last \in 1 .. Len(s) /\ w.first <= w.last
    BY <2>2, <2>3
  <2>5. s[i].cost \in Nat /\ Cost(s, w.first, w.last) \in Nat
    BY <2>2, <2>4, CostOf, TokensFinite
  <2>6. Cost(s, i, w.last) = Cost(s, w.first, w.last) + s[i].cost
    BY <2>2, <2>4, CostAdds
  <2> DEFINE v == [w EXCEPT !.first = i, !.remaining = w.remaining - s[i].cost]
  <2>7. ExtendBefore(s, w) = v
    BY <2>1, <2>3 DEF ExtendBefore, Windows
  <2>8. v.first = i /\ v.last = w.last /\ v.remaining = w.remaining - s[i].cost /\ v \in Windows
    <3> DEFINE rest == w.remaining - s[i].cost
    <3>1. rest \in Int /\ i \in Int
      BY <2>2, <2>3, <2>5 DEF Windows
    <3>2. v = [w EXCEPT !.first = i, !.remaining = rest]
      OBVIOUS
    <3> HIDE DEF rest, v, i
    <3>3. v.first = i /\ v.last = w.last /\ v.remaining = rest /\ v \in Windows
      BY <2>3, <3>1, <3>2 DEF Windows
    <3> QED
      BY <3>3 DEF rest
  <2>9. \A x, y \in Nat, z \in Int : (z - x) - y = z - (x + y)
    OBVIOUS
  <2>10. v.remaining = TokenLimit - Cost(s, v.first, v.last)
    <3>1. v.remaining = (TokenLimit - Cost(s, w.first, w.last)) - s[i].cost
      BY <2>3, <2>8
    <3>2. (TokenLimit - Cost(s, w.first, w.last)) - s[i].cost =
            TokenLimit - (Cost(s, w.first, w.last) + s[i].cost)
      BY <2>2, <2>5, <2>9
    <3> HIDE DEF v
    <3> QED
      BY <2>6, <2>8, <3>1, <3>2
  <2> HIDE DEF v
  <2>11. v.remaining >= 0 /\ v.first \in 1 .. t
    <3>1. i \in Int /\ i >= 1 /\ i <= t
      BY <2>2, <2>3
    <3>2. w.remaining \in Int
      BY <2>3 DEF Windows
    <3>3. w.remaining - s[i].cost >= 0
      BY <2>2, <2>5, <3>2
    <3> QED
      BY <2>8, <3>1, <3>3
  <2>12. Around(s, t, v)
    BY <2>3, <2>8, <2>10, <2>11 DEF Around
  <2> QED
    BY <1>2, <2>7, <2>8, <2>12
<1> QED
  BY <1>1, <1>2

LEMMA ExtendsAfter ==
  ASSUME NEW s \in Sentences, NEW t \in 1 .. Len(s), NEW w, Around(s, t, w)
  PROVE  LET v == ExtendAfter(s, w)
         IN  /\ Around(s, t, v) /\ v.first = w.first
             /\ Blocked(s, w.first, w.last + 1) => v = w
             /\ ~Blocked(s, w.first, w.last + 1) => v.last = w.last + 1
<1> DEFINE j == w.last + 1
<1>1. CASE Blocked(s, w.first, j)
  <2>1. ~Affordable(s, j, w.remaining)
    BY <1>1, AffordableAfter
  <2>2. ExtendAfter(s, w) = w
    BY <2>1 DEF ExtendAfter
  <2> QED
    BY <1>1, <2>2
<1>2. CASE ~Blocked(s, w.first, j)
  <2>1. Affordable(s, j, w.remaining)
    BY <1>2, AffordableAfter
  <2>2. /\ j \in 1 .. Len(s) /\ s[j].cost <= w.remaining /\ Len(s) \in Nat
        /\ TokenLimit \in Int
    BY <2>1, WindowNumbers DEF Affordable
  <2>3. /\ w \in Windows /\ w.first \in 1 .. t /\ w.last \in t .. Len(s)
        /\ w.remaining = TokenLimit - Cost(s, w.first, w.last)
    BY DEF Around
  <2>4. w.first \in 1 .. Len(s) /\ w.last \in 1 .. Len(s) /\ w.first <= w.last /\ j <= Len(s)
    BY <2>2, <2>3
  <2>5. s[j].cost \in Nat /\ Cost(s, w.first, w.last) \in Nat
    BY <2>2, <2>4, CostOf, TokensFinite
  <2>6. Cost(s, w.first, j) = Cost(s, w.first, w.last) + s[j].cost
    BY <2>2, <2>4, CostAdds
  <2> DEFINE v == [w EXCEPT !.last = j, !.remaining = w.remaining - s[j].cost]
  <2>7. ExtendAfter(s, w) = v
    BY <2>1, <2>3 DEF ExtendAfter, Windows
  <2>8. v.last = j /\ v.first = w.first /\ v.remaining = w.remaining - s[j].cost /\ v \in Windows
    <3> DEFINE rest == w.remaining - s[j].cost
    <3>1. rest \in Int /\ j \in Int
      BY <2>2, <2>3, <2>5 DEF Windows
    <3>2. v = [w EXCEPT !.last = j, !.remaining = rest]
      OBVIOUS
    <3> HIDE DEF rest, v, j
    <3>3. v.last = j /\ v.first = w.first /\ v.remaining = rest /\ v \in Windows
      BY <2>3, <3>1, <3>2 DEF Windows
    <3> QED
      BY <3>3 DEF rest
  <2>9. \A x, y \in Nat, z \in Int : (z - x) - y = z - (x + y)
    OBVIOUS
  <2>10. v.remaining = TokenLimit - Cost(s, v.first, v.last)
    <3>1. v.remaining = (TokenLimit - Cost(s, w.first, w.last)) - s[j].cost
      BY <2>3, <2>8
    <3>2. (TokenLimit - Cost(s, w.first, w.last)) - s[j].cost =
            TokenLimit - (Cost(s, w.first, w.last) + s[j].cost)
      BY <2>2, <2>5, <2>9
    <3> HIDE DEF v
    <3> QED
      BY <2>6, <2>8, <3>1, <3>2
  <2> HIDE DEF v
  <2>11. v.remaining >= 0 /\ v.last \in t .. Len(s)
    <3>1. j \in Int /\ j >= t /\ j <= Len(s)
      BY <2>2, <2>3
    <3>2. w.remaining \in Int
      BY <2>3 DEF Windows
    <3>3. w.remaining - s[j].cost >= 0
      BY <2>2, <2>5, <3>2
    <3> QED
      BY <2>2, <2>8, <3>1, <3>3
  <2>12. Around(s, t, v)
    BY <2>3, <2>8, <2>10, <2>11 DEF Around
  <2> QED
    BY <1>2, <2>7, <2>8, <2>12
<1> QED
  BY <1>1, <1>2

\* A round keeps the window even, and widens it unless it is stuck.
LEMMA Round ==
  ASSUME NEW s \in Sentences, NEW t \in 1 .. Len(s), NEW w, Around(s, t, w), Even(s, t, w),
         NEW k \in Nat, w.last - w.first >= k \/ Stuck(s, w)
  PROVE  LET u == ExtendAfter(s, ExtendBefore(s, w))
         IN  Around(s, t, u) /\ Even(s, t, u) /\ (u.last - u.first >= k + 1 \/ Stuck(s, u))
<1> DEFINE v == ExtendBefore(s, w)
           u == ExtendAfter(s, v)
<1>1. /\ Around(s, t, v) /\ v.last = w.last
      /\ Blocked(s, w.first - 1, w.last) => v = w
      /\ ~Blocked(s, w.first - 1, w.last) => v.first = w.first - 1
  BY ExtendsBefore
<1> HIDE DEF v
<1>2. /\ Around(s, t, u) /\ u.first = v.first
      /\ Blocked(s, v.first, v.last + 1) => u = v
      /\ ~Blocked(s, v.first, v.last + 1) => u.last = v.last + 1
  BY <1>1, ExtendsAfter
<1> HIDE DEF u
<1>3. /\ w.first \in Int /\ w.last \in Int /\ t \in Int /\ Len(s) \in Nat
      /\ 1 <= w.first /\ w.first <= t /\ t <= w.last
      /\ u.first \in Int /\ u.last \in Int /\ u.first <= t /\ t <= u.last
      /\ v.first \in Int
  BY <1>1, <1>2, WindowNumbers DEF Around, Windows
\* The sides were even, or the one before was the shorter or the longer.
<1>4. CASE Blocked(s, w.first - 1, w.last)
  <2>1. v = w
    BY <1>1, <1>4
  <2>2. CASE Blocked(s, w.first, w.last + 1)
    <3>1. u = w
      BY <1>2, <2>1, <2>2
    <3>2. Stuck(s, w)
      BY <1>4, <2>2 DEF Stuck
    <3> QED
      BY <1>2, <3>1, <3>2 DEF u, v
  <2>3. CASE ~Blocked(s, w.first, w.last + 1)
    <3>1. u.first = w.first /\ u.last = w.last + 1
      BY <1>2, <2>1, <2>3
    <3>2. ~Stuck(s, w)
      BY <2>3 DEF Stuck
    <3>3. u.last - u.first >= k + 1
      BY <1>3, <3>1, <3>2
    <3>4. ASSUME t - u.first < u.last - t
          PROVE  Blocked(s, u.first - 1, t + (t - u.first))
      <4>1. CASE t - w.first < w.last - t
        BY <3>1, <4>1 DEF Even
      <4>2. CASE ~(t - w.first < w.last - t)
        <5>1. t - w.first = w.last - t
          BY <1>3, <3>1, <3>4, <4>2
        <5>2. t + (t - w.first) = w.last
          BY <1>3, <5>1
        <5> QED
          BY <1>4, <3>1, <5>2
      <4> QED
        BY <4>1, <4>2
    <3>5. ASSUME u.last - t < t - u.first
          PROVE  FALSE
      <4>1. w.last - t < t - w.first
        BY <1>3, <3>1, <3>5
      <4>2. Blocked(s, t - (w.last - t) - 1, w.last + 1)
        BY <4>1 DEF Even
      <4>3. w.first <= t - (w.last - t) - 1 /\ t - (w.last - t) - 1 <= w.last + 1
        BY <1>3, <4>1
      <4>4. Blocked(s, w.first, w.last + 1)
        BY <1>3, <4>2, <4>3, StaysBlocked
      <4> QED
        BY <2>3, <4>4
    <3>6. Even(s, t, u)
      BY <3>4, <3>5 DEF Even
    <3> QED
      BY <1>2, <3>3, <3>6 DEF u, v
  <2> QED
    BY <2>2, <2>3
<1>5. CASE ~Blocked(s, w.first - 1, w.last)
  <2>1. v.first = w.first - 1 /\ v.last = w.last
    BY <1>1, <1>5
  <2>2. ~(t - w.first < w.last - t)
    <3>1. SUFFICES ASSUME t - w.first < w.last - t
                   PROVE  FALSE
      OBVIOUS
    <3>2. Blocked(s, w.first - 1, t + (t - w.first))
      BY <3>1 DEF Even
    <3>3. w.first - 1 <= t + (t - w.first) /\ t + (t - w.first) <= w.last
      BY <1>3, <3>1
    <3>4. Blocked(s, w.first - 1, w.last)
      BY <1>3, <3>2, <3>3, StaysBlocked
    <3> QED
      BY <1>5, <3>4
  <2>3. ~Stuck(s, w)
    BY <1>5 DEF Stuck
  <2>4. u.last = w.last \/ u.last = w.last + 1
    BY <1>2, <2>1
  <2>5. u.last - u.first >= k + 1
    <3>1. w.last - w.first >= k
      BY <2>3
    <3>2. u.first = w.first - 1
      BY <1>2, <2>1
    <3>3. w.first \in Int /\ w.last \in Int /\ u.last >= w.last
      BY <1>3, <2>4
    <3>4. \A a, b, c \in Int : b - a >= k /\ c >= b => c - (a - 1) >= k + 1
      OBVIOUS
    <3>5. u.last \in Int
      BY <1>3
    <3>6. u.last - (w.first - 1) >= k + 1
      BY <3>1, <3>3, <3>4, <3>5
    <3> QED
      BY <3>2, <3>6
  <2>6. ASSUME u.last - t < t - u.first
        PROVE  Blocked(s, t - (u.last - t) - 1, u.last + 1)
    <3>1. CASE w.last - t < t - w.first
      <4>1. Blocked(s, t - (w.last - t) - 1, w.last + 1)
        BY <3>1 DEF Even
      <4>2. v.first <= t - (w.last - t) - 1 /\ t - (w.last - t) - 1 <= w.last + 1
        BY <1>3, <2>1, <3>1
      <4>3. Blocked(s, v.first, v.last + 1)
        BY <1>3, <2>1, <4>1, <4>2, StaysBlocked
      <4>4. u.last = w.last
        BY <1>2, <2>1, <4>3
      <4> QED
        BY <4>1, <4>4
    <3>2. CASE ~(w.last - t < t - w.first)
      <4>1. t - w.first = w.last - t
        <5>1. \A a, b \in Int : ~(a < b) /\ ~(b < a) => a = b
          OBVIOUS
        <5>2. t - w.first \in Int /\ w.last - t \in Int
          BY <1>3
        <5> QED
          BY <2>2, <3>2, <5>1, <5>2
      <4>2. u.last = w.last
        <5>1. u.first = w.first - 1
          BY <1>2, <2>1
        <5>2. \A a, b \in Int : t - a = b - t => ~((b + 1) - t < t - (a - 1))
          OBVIOUS
        <5>3. ~((w.last + 1) - t < t - (w.first - 1))
          BY <1>3, <4>1, <5>2
        <5>4. u.last # w.last + 1
          BY <2>6, <5>1, <5>3
        <5> QED
          BY <2>4, <5>4
      <4>3. Blocked(s, v.first, v.last + 1)
        BY <1>2, <1>3, <2>1, <4>2
      <4>4. t - (w.last - t) - 1 = v.first
        BY <1>3, <2>1, <4>1
      <4> QED
        BY <2>1, <4>2, <4>3, <4>4
    <3> QED
      BY <3>1, <3>2
  <2>7. ~(t - u.first < u.last - t)
    <3>1. u.first = w.first - 1
      BY <1>2, <2>1
    <3>2. \A a, b \in Int : ~(t - a < b - t) => /\ ~(t - (a - 1) < b - t)
                                               /\ ~(t - (a - 1) < (b + 1) - t)
      BY <1>3
    <3>3. /\ ~(t - (w.first - 1) < w.last - t)
          /\ ~(t - (w.first - 1) < (w.last + 1) - t)
      BY <1>3, <2>2, <3>2
    <3> QED
      BY <2>4, <3>1, <3>3
  <2>8. Even(s, t, u)
    BY <2>6, <2>7 DEF Even
  <2> QED
    BY <1>2, <2>5, <2>8 DEF u, v
<1> QED
  BY <1>4, <1>5

\* A round never leaves the windows.
LEMMA RoundTyped ==
  ASSUME NEW s \in Sentences, NEW w \in Windows
  PROVE  ExtendAfter(s, ExtendBefore(s, w)) \in Windows
<1>1. ASSUME NEW v \in Windows
      PROVE  ExtendBefore(s, v) \in Windows /\ ExtendAfter(s, v) \in Windows
  <2>1. ExtendBefore(s, v) \in Windows
    <3> DEFINE k == v.first - 1
               rest == v.remaining - s[k].cost
    <3>1. CASE Affordable(s, k, v.remaining)
      <4>1. k \in 1 .. Len(s)
        BY <3>1, WindowNumbers DEF Affordable
      <4>2. s[k].cost \in Nat /\ v.remaining \in Int /\ k \in Int
        BY <4>1, CostOf DEF Windows
      <4>3. rest \in Int
        BY <4>2
      <4>4. ExtendBefore(s, v) = [v EXCEPT !.first = k, !.remaining = rest]
        BY <3>1 DEF ExtendBefore, Windows
      <4> HIDE DEF rest, k
      <4>5. [v EXCEPT !.first = k, !.remaining = rest] \in Windows
        BY <4>2, <4>3 DEF Windows
      <4> QED
        BY <4>4, <4>5, Zenon
    <3>2. CASE ~Affordable(s, k, v.remaining)
      BY <3>2 DEF ExtendBefore
    <3> QED
      BY <3>1, <3>2
  <2>2. ExtendAfter(s, v) \in Windows
    <3> DEFINE k == v.last + 1
               rest == v.remaining - s[k].cost
    <3>1. CASE Affordable(s, k, v.remaining)
      <4>1. k \in 1 .. Len(s)
        BY <3>1, WindowNumbers DEF Affordable
      <4>2. s[k].cost \in Nat /\ v.remaining \in Int /\ k \in Int
        BY <4>1, CostOf DEF Windows
      <4>3. rest \in Int
        BY <4>2
      <4>4. ExtendAfter(s, v) = [v EXCEPT !.last = k, !.remaining = rest]
        BY <3>1 DEF ExtendAfter, Windows
      <4> HIDE DEF rest, k
      <4>5. [v EXCEPT !.last = k, !.remaining = rest] \in Windows
        BY <4>2, <4>3 DEF Windows
      <4> QED
        BY <4>4, <4>5, Zenon
    <3>2. CASE ~Affordable(s, k, v.remaining)
      BY <3>2 DEF ExtendAfter
    <3> QED
      BY <3>1, <3>2
  <2> QED
    BY <2>1, <2>2
<1> QED
  BY <1>1

\* expand_window: the window it ends with is even and could not be wider, so that
\* the number of its rounds is never the reason it stops.
LEMMA WindowExpands ==
  ASSUME NEW s \in Sentences, NEW t \in 1 .. Len(s)
  PROVE  LET w == ExpandWindow(s, t, TokenLimit)
         IN  Around(s, t, w) /\ Even(s, t, w) /\ Stuck(s, w)
<1> DEFINE n == Len(s)
           start == [first |-> t, last |-> t, remaining |-> TokenLimit - s[t].cost]
           step == [z \in Windows \X (1 .. n) |-> ExtendAfter(s, ExtendBefore(s, z[1]))]
           States(reach) == reach = [k \in 0 .. n |->
              IF k = 0 THEN start ELSE ExtendAfter(s, ExtendBefore(s, reach[k - 1]))]
<1>1. ExpandWindow(s, t, TokenLimit) = (CHOOSE reach : States(reach))[n]
  BY DEF ExpandWindow
<1>2. n \in Nat /\ n \in 0 .. n /\ TokenLimit \in Int
  BY WindowNumbers
<1>3. /\ start \in Windows /\ start.first = t /\ start.last = t
      /\ start.remaining = TokenLimit - Cost(s, t, t)
  <2>1. s[t].cost \in Nat /\ Cost(s, t, t) = s[t].cost
    BY <1>2, CostOf, CostAdds
  <2> DEFINE rest == TokenLimit - s[t].cost
  <2>2. rest \in Int /\ t \in Int
    BY <1>2, <2>1
  <2> QED
    BY <2>1, <2>2 DEF Windows
<1>4. \E g : States(g)
  <2> HIDE DEF start, step
  <2>1. \A v \in Windows, i \in 1 .. n : step[<<v, i>>] \in Windows
    BY RoundTyped DEF step
  <2>2. PICK g : g \in [0 .. n -> Windows] /\ Follows(g, start, step, n)
    BY <1>2, <1>3, <2>1, Recursion
  <2>3. ASSUME NEW i \in 1 .. n
        PROVE  g[i] = ExtendAfter(s, ExtendBefore(s, g[i - 1]))
    <3>1. i - 1 \in 0 .. n
      BY <1>2
    <3>2. g[i - 1] \in Windows
      BY <2>2, <3>1
    <3> QED
      BY <2>2, <3>2 DEF step, Follows
  <2>4. ASSUME NEW i \in 0 .. n
        PROVE  g[i] = IF i = 0 THEN start ELSE ExtendAfter(s, ExtendBefore(s, g[i - 1]))
    BY <1>2, <2>2, <2>3 DEF Follows
  <2>5. g = [i \in 0 .. n |-> g[i]]
    BY <2>2
  <2> QED
    BY <2>4, <2>5
<1>5. States(CHOOSE reach : States(reach))
  <2> HIDE DEF States
  <2> QED BY <1>4, Zenon
\* After k rounds.
<1> DEFINE Through(k, w) ==
      Around(s, t, w) /\ Even(s, t, w) /\ (w.last - w.first >= k \/ Stuck(s, w))
<1>6. ASSUME NEW reach, States(reach)
      PROVE  Through(n, reach[n])
  <2> DEFINE through == {k \in Nat : k <= n => Through(k, reach[k])}
  <2>1. 0 \in through
    <3>1. reach[0] = start
      BY <1>2, <1>6
    <3> HIDE DEF start
    <3>2. Around(s, t, start)
      <4>1. t \in 1 .. t /\ t \in t .. Len(s)
        OBVIOUS
      <4> QED
        BY <1>3, <4>1 DEF Around
    <3>3. Even(s, t, start) /\ start.last - start.first >= 0
      BY <1>3 DEF Even
    <3> QED
      BY <3>1, <3>2, <3>3
  <2>2. ASSUME NEW k \in Nat, k \in through
        PROVE  k + 1 \in through
    <3>1. SUFFICES ASSUME k + 1 <= n
                   PROVE  Through(k + 1, reach[k + 1])
      OBVIOUS
    <3>2. k + 1 \in 0 .. n /\ k + 1 # 0 /\ (k + 1) - 1 = k /\ k <= n
      BY <1>2, <3>1
    <3>3. reach[k + 1] = ExtendAfter(s, ExtendBefore(s, reach[(k + 1) - 1]))
      BY <1>6, <3>2
    <3>4. Through(k, reach[k])
      BY <2>2, <3>2
    <3>5. reach[k + 1] = ExtendAfter(s, ExtendBefore(s, reach[k]))
      BY <3>2, <3>3
    <3> HIDE DEF States
    <3> QED
      BY <3>4, <3>5, Round
  <2>3. n \in through
    <3> HIDE DEF through
    <3> QED BY <1>2, <2>1, <2>2, Induct
  <2> QED
    BY <1>2, <2>3
<1> DEFINE w == (CHOOSE reach : States(reach))[n]
<1>7. Through(n, w)
  <2> HIDE DEF States, Through
  <2> QED BY <1>5, <1>6
<1> HIDE DEF w
<1>8. ~(w.last - w.first >= n)
  BY <1>2, <1>7 DEF Around, Windows
<1>9. ExpandWindow(s, t, TokenLimit) = w
  BY <1>1 DEF w
<1> QED
  BY <1>7, <1>8, <1>9

\* A sentence that is found is one of the document's.
LEMMA LocatesSentence ==
  ASSUME NEW s \in Sentences, NEW offset, LocateSentence(s, offset) # 0
  PROVE  LocateSentence(s, offset) \in 1 .. Len(s)
<1> DEFINE I == {i \in 1 .. Len(s) : Covers(s[i], offset)}
<1>1. LocateSentence(s, offset) = IF I # {} THEN Min(I) ELSE 0
  BY DEF LocateSentence, SelectInSeq
<1>2. I \subseteq Nat /\ I \subseteq 1 .. Len(s)
  OBVIOUS
<1> HIDE DEF I
<1>3. I # {}
  BY <1>1
<1>4. \E first \in I : \A j \in I : first <= j
  BY <1>2, <1>3, FirstOfSome
<1>5. Min(I) \in I
  BY <1>4 DEF Min
<1> QED
  BY <1>1, <1>2, <1>3, <1>5

\* _extract_context takes a centred window of a document that does not fit.
LEMMA ExtractsCentred ==
  ASSUME NEW d \in DOMAIN Documents, NEW offset, Locatable(d, offset),
         ExtractContext(d, offset).first # 0
  PROVE  Centred(ExtractContext(d, offset), offset)
<1> DEFINE s == Documents[d].sentences
           t == LocateSentence(s, offset)
           w == ExpandWindow(s, t, TokenLimit)
           c == ExtractContext(d, offset)
<1>1. s \in Sentences
  BY DocumentsAssumption DEF Sentences
<1>2. ~Fits(d)
  BY DEF ExtractContext
<1>3. t # 0
  BY <1>2 DEF Locatable
<1>4. t \in 1 .. Len(s)
  BY <1>1, <1>3, LocatesSentence
<1>5. c.document = d /\ c.first = w.first /\ c.last = w.last
  BY <1>2 DEF ExtractContext
<1> HIDE DEF s, t, w, c
<1>6. Around(s, t, w) /\ Even(s, t, w) /\ Stuck(s, w)
  BY <1>1, <1>4, WindowExpands DEF w
<1>7. /\ w.first \in Int /\ w.last \in Int /\ w.first \in 1 .. t /\ w.last \in t .. Len(s)
      /\ w.remaining = TokenLimit - Cost(s, w.first, w.last)
      /\ w.remaining >= 0 \/ w.first = w.last
  BY <1>6 DEF Around, Windows
<1>8. Cost(s, w.first, w.last) <= TokenLimit \/ w.first = w.last
  <2>1. w.first \in 1 .. Len(s) /\ w.last \in 1 .. Len(s)
    BY <1>1, <1>4, <1>7, WindowNumbers
  <2>2. Cost(s, w.first, w.last) \in Nat /\ TokenLimit \in Int
    BY <1>1, <2>1, TokensFinite, WindowNumbers
  <2> QED
    BY <1>7, <2>2
<1>9. Documents[c.document].sentences = s /\ LocateSentence(s, offset) = t
  BY <1>5 DEF s, t
<1>10. Centred(c, offset)
  BY <1>5, <1>6, <1>7, <1>8, <1>9 DEF Centred, Even, Stuck
<1> QED
  BY <1>10 DEF c

-----------------------------------------------------------------------------
\* A call keeps the contexts it has extracted.
ContextsInv == \A i \in Refs :
  /\ batch[i].document \in DOMAIN Documents
  /\ Locatable(batch[i].document, batch[i].at)
  /\ contexts[i] = ExtractContext(batch[i].document, batch[i].at)

LEMMA ContextsStable == ContextsInv /\ [Next]_vars => ContextsInv'
<1>1. SUFFICES ASSUME ContextsInv, [Next]_vars
               PROVE  ContextsInv'
  OBVIOUS
<1>2. ASSUME NEW b \in Batches, Predict(b)
      PROVE  ContextsInv'
  <2>1. batch' = b /\ contexts' = ContextsOf(b)
        /\ \A i \in DOMAIN b : Locatable(b[i].document, b[i].at)
    BY <1>2 DEF Predict
  <2>2. ASSUME NEW i \in DOMAIN b
        PROVE  b[i].document \in DOMAIN Documents
    <3>1. b \in Seq(References)
      BY ModelAssumption
    <3>2. i \in 1 .. Len(b)
      BY <3>1
    <3>3. b[i] \in References
      BY <3>1, <3>2, ElementOfSeq
    <3> QED
      BY <3>3 DEF References
  <2> QED
    BY <2>1, <2>2 DEF ContextsInv, Refs, ContextsOf
<1>3. ASSUME EndCall
      PROVE  ContextsInv'
  BY <1>3 DEF EndCall, ContextsInv, Refs
<1>4. ASSUME UNCHANGED <<batch, contexts>>
      PROVE  ContextsInv'
  BY <1>1, <1>4 DEF ContextsInv, Refs
<1>5. ASSUME NEW b \in Batches, Fit(b)
      PROVE  UNCHANGED <<batch, contexts>>
  BY <1>5 DEF Fit, callVars
<1>6. ASSUME EmbedContexts \/ GatherCandidates \/ EmbedCandidates \/ EvaluateCandidates \/ ClearCaches
      PROVE  UNCHANGED <<batch, contexts>>
  BY <1>6 DEF EmbedContexts, GatherCandidates, EmbedCandidates, EvaluateCandidates, ClearCaches,
              callVars
<1>7. ASSUME UNCHANGED vars
      PROVE  UNCHANGED <<batch, contexts>>
  BY <1>7 DEF vars, callVars
<1> QED
  BY <1>1, <1>2, <1>3, <1>4, <1>5, <1>6, <1>7 DEF Next, Return, Raise

\* Whatever the documents, their sentences and what these cost, each reference of a
\* call is embedded with as much text around it as the encoder takes, evenly on both
\* sides where the sentences allow it: _extract_context's window holds the
\* reference's sentence, keeps to the limit and could not be wider, and the number
\* of expand_window's rounds is never the reason it stops (context.py:119-121).
THEOREM ContextsAlwaysCentred == Spec => []ContextsCentred
<1>1. Init => ContextsInv
  BY DEF Init, ContextsInv, Refs
<1>2. ContextsInv => ContextsCentred
  BY ExtractsCentred DEF ContextsInv, ContextsCentred
<1> QED
  BY <1>1, <1>2, ContextsStable, PTL DEF Spec
=============================================================================
