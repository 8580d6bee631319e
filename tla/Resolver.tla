------------------------------ MODULE Resolver ------------------------------
(***************************************************************************)
(* A SentenceTransformerResolver, or a PriorResolver or a JinaResolver,    *)
(* which extend it: its training and the calls of predict it answers.      *)
(*                                                                         *)
(* predict searches the gazetteer for every reference of a batch at once,  *)
(* from the strictest method to the loosest and then once more with wider  *)
(* tiers, until every reference has a candidate that is similar enough to  *)
(* its context.  Searches and embeddings are cached for the life of the    *)
(* resolver.  fit trains the model that made the embeddings and leaves the *)
(* caches alone.  The encoder and the search may raise; the caller may     *)
(* then call again, with the caches as they were left.                     *)
(*                                                                         *)
(* The references of a batch are one sequence here: the documents of the   *)
(* code only group them, and each of its loops visits them in this order.  *)
(* An embedding is a function of its text and of the model's version, so a *)
(* cache of embeddings maps its keys to versions.                          *)
(***************************************************************************)
EXTENDS ContextWindow, FiniteSets

CONSTANTS
  Kinds,           \* the classes: "plain", "prior", "jina"
  Names,           \* spellings of references
  Features,        \* internal ids of the features, numbers
  Normal,          \* the spelling a search is made with
  Trimmed,         \* the shorter forms of a spelling, longest first
  Scores,          \* method -> spelling -> (matching feature -> score), low is good
  Limit,           \* features one search returns at most
  MaxTiers,
  MaxVersions,     \* bound: models fit makes, the first one included
  Similarities,    \* what the models may say: (version, context) -> (version, feature) -> number
  MinSimilarity,
  Prior,           \* feature -> what its population adds
  Shortlisted,     \* rerank_top_k
  Reranked,        \* context -> the features in the reranker's order, or <<>>
  Batches,         \* what predict and fit are called with: sequences of references
  MaxCalls,        \* bound: calls of predict
  None

References == [name : Names, document : DOMAIN Documents, at : Nat]

ASSUME SearchAssumption ==
  /\ Kinds \subseteq {"plain", "prior", "jina"}
  /\ Features \subseteq Nat
  /\ Normal \in [Names -> Names] /\ Trimmed \in [Names -> Seq(Names)]
  /\ Limit \in Nat \ {0} /\ MaxTiers \in Nat \ {0}

ASSUME ModelAssumption ==
  /\ MaxVersions \in Nat \ {0} /\ MinSimilarity \in Nat
  /\ Prior \in [Features -> Nat]
  /\ Shortlisted \in Nat \ {0}
  /\ \A b \in Batches : b \in Seq(References)
  /\ MaxCalls \in Nat /\ None \notin Features

SearchMethods == <<"exact", "phrase", "partial", "fuzzy">>

VARIABLES
  kind, similarity,   \* the class and its models, chosen once
  version,            \* of the model
  pc,                 \* the step of the call of predict
  batch, contexts, candidates, results,
  method, tiers,      \* the pass: an index of SearchMethods, and the tiers
  next,               \* the reference _gather_candidates is at
  searched,           \* candidate_search_cache
  contextEmbedded,    \* context_embeddings: context -> version
  candidateEmbedded,  \* candidate_embeddings: feature -> version
  calls

callVars == <<batch, contexts, candidates, results, method, tiers, next>>
cacheVars == <<searched, contextEmbedded, candidateEmbedded>>
model == <<kind, similarity, version>>
vars == <<model, pc, callVars, cacheVars, calls>>

Init ==
  /\ kind \in Kinds /\ similarity \in Similarities /\ version = 1
  /\ pc = "idle"
  /\ batch = <<>> /\ contexts = <<>> /\ candidates = <<>> /\ results = <<>>
  /\ method = 1 /\ tiers = 1 /\ next = 1
  /\ searched = <<>>
  /\ contextEmbedded = <<>> /\ candidateEmbedded = <<>>
  /\ calls = 0

\* What a cache holds stays as it is.
Remember(cache, new) ==
  [key \in DOMAIN cache \cup DOMAIN new |-> IF key \in DOMAIN cache THEN cache[key] ELSE new[key]]

-----------------------------------------------------------------------------
(***************************************************************************)
(* Searching the gazetteer.                                                *)
(***************************************************************************)

AtMostLimit(features) == IF Len(features) <= Limit THEN features ELSE SubSeq(features, 1, Limit)

\* Matches by score and then id, cut at the limit, and of those the best tiers:
\* a feature's tier is the number of scores up to its own.
SearchTiered(score, wanted) ==
  LET scored == AtMostLimit(SetToSortSeq(DOMAIN score, LAMBDA f, g :
                   score[f] < score[g] \/ (score[f] = score[g] /\ f < g)))
      Tier(f) == Cardinality({score[g] : g \in {h \in ToSet(scored) : score[h] <= score[f]}})
  IN SelectSeq(scored, LAMBDA f : Tier(f) <= wanted)

SearchExact(score) ==
  AtMostLimit(SetToSortSeq(DOMAIN score, LAMBDA f, g : f < g))

Search(name, searchMethod, wanted) ==
  IF searchMethod = "exact" THEN SearchExact(Scores["exact"][name])
  ELSE SearchTiered(Scores[searchMethod][name], wanted)

\* Mutant: the tiers are not told apart.
KeyWithoutTiers(name, searchMethod, wanted) == <<Normal[name], searchMethod, 1>>

CacheKey(name, searchMethod, wanted) == <<Normal[name], searchMethod, wanted>>

Lookup(name, searchMethod, wanted) ==
  LET key == CacheKey(name, searchMethod, wanted)
  IN IF key \in DOMAIN searched THEN searched[key]
     ELSE Search(Normal[name], searchMethod, wanted)

\* The spellings to search, in order: trimmed ones only if all before find nothing.
Spellings(name, searchMethod) ==
  <<name>> \o (IF kind = "prior" /\ searchMethod = "exact" THEN Trimmed[name] ELSE <<>>)

\* How many of them are searched.
Tried(name, searchMethod, wanted) ==
  LET spellings == Spellings(name, searchMethod)
      hit == SelectInSeq(spellings, LAMBDA s : Lookup(s, searchMethod, wanted) # <<>>)
  IN IF hit = 0 THEN Len(spellings) ELSE hit

\* _search_candidates: what it caches, and what it returns.
Searched(name, searchMethod, wanted) ==
  LET tried == SubSeq(Spellings(name, searchMethod), 1, Tried(name, searchMethod, wanted))
  IN [key \in {CacheKey(s, searchMethod, wanted) : s \in ToSet(tried)} |->
        Search(key[1], searchMethod, wanted)]

Found(name, searchMethod, wanted) ==
  Lookup(Spellings(name, searchMethod)[Tried(name, searchMethod, wanted)], searchMethod, wanted)

-----------------------------------------------------------------------------
(***************************************************************************)
(* One call of predict.                                                    *)
(***************************************************************************)

Refs == DOMAIN batch

Pending(i) == results[i] = None /\ candidates[i] # <<>>

AllResolved(answers) == \A i \in Refs : answers[i] # None

ContextsOf(b) == [i \in DOMAIN b |-> ExtractContext(b[i].document, b[i].at)]

\* Predict extracts the contexts first, and raises where one has no sentence.
Predict(b) ==
  /\ pc = "idle"
  /\ calls < MaxCalls
  /\ \A i \in DOMAIN b : Locatable(b[i].document, b[i].at)
  /\ calls' = calls + 1
  /\ batch' = b
  /\ contexts' = ContextsOf(b)
  /\ candidates' = [i \in DOMAIN b |-> <<>>]
  /\ results' = [i \in DOMAIN b |-> None]
  /\ method' = 1 /\ tiers' = 1 /\ next' = 1
  /\ pc' = "contexts"
  /\ UNCHANGED <<model, cacheVars>>

EmbedContexts ==
  /\ pc = "contexts"
  /\ contextEmbedded' = Remember(contextEmbedded, [c \in ToSet(contexts) |-> version])
  /\ pc' = "gather"
  /\ UNCHANGED <<model, callVars, searched, candidateEmbedded, calls>>

\* Mutant: candidates that are there are added again.
AppendCandidates(existing, found) == existing \o found

MergeCandidates(existing, found) ==
  existing \o SelectSeq(found, LAMBDA f : f \notin ToSet(existing))

\* The next reference: skipped if it is resolved, else its candidates grow.
GatherCandidates ==
  /\ pc = "gather" /\ next \in Refs
  /\ next' = next + 1
  /\ IF results[next] # None
       THEN UNCHANGED <<candidates, searched>>
       ELSE LET name == batch[next].name
                by == SearchMethods[method]
            IN /\ searched' = Remember(searched, Searched(name, by, tiers))
               /\ candidates' = [candidates EXCEPT ![next] =
                    MergeCandidates(@, Found(name, by, tiers))]
  /\ UNCHANGED <<model, pc, batch, contexts, results, method, tiers,
                 contextEmbedded, candidateEmbedded, calls>>

\* Mutant: only the reference that was gathered last is looked at.
NeedingEmbeddingLast ==
  (UNION {ToSet(candidates[i]) : i \in {j \in Refs : results[j] = None /\ j = Len(batch)}})
    \ DOMAIN candidateEmbedded

CandidatesNeedingEmbedding ==
  (UNION {ToSet(candidates[i]) : i \in {j \in Refs : results[j] = None}})
    \ DOMAIN candidateEmbedded

EmbedCandidates ==
  /\ pc = "gather" /\ next \notin Refs
  /\ candidateEmbedded' = Remember(candidateEmbedded, [f \in CandidatesNeedingEmbedding |-> version])
  /\ pc' = "evaluate"
  /\ UNCHANGED <<model, callVars, searched, contextEmbedded, calls>>

-----------------------------------------------------------------------------
(***************************************************************************)
(* Evaluation: the scores of all pending references are one flat list,     *)
(* which is cut up again and handed out in order.                          *)
(***************************************************************************)

PendingRefs == SelectSeq([i \in Refs |-> i], Pending)

FlatSimilarities == FlattenSeq([p \in DOMAIN PendingRefs |->
  LET i == PendingRefs[p]
      from == <<contextEmbedded[contexts[i]], contexts[i]>>
  IN [c \in DOMAIN candidates[i] |->
        LET f == candidates[i][c] IN similarity[from][<<candidateEmbedded[f], f>>]]])

\* Where the scores of the p-th pending reference begin.
Offset(p) == FoldLeft(LAMBDA sum, q : sum + Len(candidates[PendingRefs[q]]), 0,
                      [q \in 1 .. p - 1 |-> q])

SimilaritiesOf(i) ==
  LET p == SelectInSeq(PendingRefs, LAMBDA j : j = i)
  IN SubSeq(FlatSimilarities, Offset(p) + 1, Offset(p + 1))

\* The first of the best.
BestIndex(list, Score(_)) ==
  CHOOSE c \in DOMAIN list : \A d \in DOMAIN list :
    Score(c) > Score(d) \/ (Score(c) = Score(d) /\ c <= d)

\* combined_scores.
PriorOf(f) == IF kind = "prior" THEN Prior[f] ELSE 0

\* The best by similarity and prior is accepted by its similarity alone.
BestByPrior(list, similarities) ==
  LET best == BestIndex(list, LAMBDA c : similarities[c] + PriorOf(list[c]))
  IN IF similarities[best] >= MinSimilarity THEN list[best] ELSE None

\* Positions, the most similar first; equals stay in order.
Shortlist(similarities) ==
  LET ranked == SetToSortSeq(DOMAIN similarities, LAMBDA c, d :
        similarities[c] > similarities[d] \/ (similarities[c] = similarities[d] /\ c < d))
  IN SubSeq(ranked, 1, IF Len(ranked) < Shortlisted THEN Len(ranked) ELSE Shortlisted)

\* One similar candidate is enough; the reranker then picks from the shortlist,
\* or the best by similarity is taken if it ranks nothing.
BestByReranker(i, list, similarities) ==
  LET short == {list[c] : c \in ToSet(Shortlist(similarities))}
      order == SelectSeq(Reranked[contexts[i]], LAMBDA f : f \in short)
  IN IF \A c \in DOMAIN list : similarities[c] < MinSimilarity THEN None
     ELSE IF order = <<>> THEN list[Shortlist(similarities)[1]] ELSE order[1]

BestReferent(i) ==
  IF kind = "jina" THEN BestByReranker(i, candidates[i], SimilaritiesOf(i))
  ELSE BestByPrior(candidates[i], SimilaritiesOf(i))

Evaluated == [i \in Refs |-> IF Pending(i) THEN BestReferent(i) ELSE results[i]]

\* An embedding that is not there is a KeyError.
Embedded == \A i \in Refs : Pending(i) =>
  /\ contexts[i] \in DOMAIN contextEmbedded
  /\ ToSet(candidates[i]) \subseteq DOMAIN candidateEmbedded

\* The exact method is not tried again once the search widens.
NextPass ==
  IF method = Len(SearchMethods)
    THEN method' = 2 /\ tiers' = tiers + 1
    ELSE method' = method + 1 /\ UNCHANGED tiers

LastPass == method = Len(SearchMethods) /\ tiers = MaxTiers

EvaluateCandidates ==
  /\ pc = "evaluate" /\ Embedded
  /\ results' = Evaluated
  /\ next' = 1
  /\ IF AllResolved(Evaluated) \/ LastPass
       THEN pc' = "done" /\ UNCHANGED <<method, tiers>>
       ELSE pc' = "gather" /\ NextPass
  /\ UNCHANGED <<model, batch, contexts, candidates, cacheVars, calls>>

EndCall ==
  /\ pc' = "idle"
  /\ batch' = <<>> /\ contexts' = <<>> /\ candidates' = <<>> /\ results' = <<>>
  /\ method' = 1 /\ tiers' = 1 /\ next' = 1
  /\ UNCHANGED <<model, cacheVars, calls>>

Return == pc = "done" /\ EndCall

\* The encoder, the search or the comparison raises; the last surely does when
\* an embedding is missing.
Raise == pc \in {"contexts", "gather", "evaluate"} /\ EndCall

ClearCaches ==
  /\ pc = "idle"
  /\ searched' = <<>> /\ contextEmbedded' = <<>> /\ candidateEmbedded' = <<>>
  /\ UNCHANGED <<model, pc, callVars, calls>>

\* _prepare_training_data searches for each reference, up to the first without a
\* context.  Training, once there are candidates, makes a new model, also where it
\* raises; what was embedded before stays.
Fit(b) ==
  LET lost == {i \in DOMAIN b : ~Locatable(b[i].document, b[i].at)}
      reached == {i \in DOMAIN b : \A j \in lost : i < j}
      trains == lost = {} /\ \E i \in reached : Found(b[i].name, "exact", 1) # <<>>
  IN
  /\ pc = "idle" /\ version < MaxVersions
  /\ searched' = Remember(searched,
       [key \in UNION {DOMAIN Searched(b[i].name, "exact", 1) : i \in reached}
          |-> Search(key[1], "exact", 1)])
  /\ version' = IF trains THEN version + 1 ELSE version
  /\ UNCHANGED <<kind, similarity, pc, callVars, contextEmbedded, candidateEmbedded, calls>>

-----------------------------------------------------------------------------
Next ==
  \/ \E b \in Batches : Fit(b)
  \/ \E b \in Batches : Predict(b)
  \/ EmbedContexts
  \/ GatherCandidates
  \/ EmbedCandidates
  \/ EvaluateCandidates
  \/ Return
  \/ Raise
  \/ ClearCaches

Spec == Init /\ [][Next]_vars

-----------------------------------------------------------------------------
(***************************************************************************)
(* Properties.                                                             *)
(***************************************************************************)

Keys == Names \X ToSet(SearchMethods) \X (1 .. MaxTiers)

TypeOK ==
  /\ kind \in Kinds /\ similarity \in Similarities /\ version \in 1 .. MaxVersions
  /\ pc \in {"idle", "contexts", "gather", "evaluate", "done"}
  /\ batch \in Batches \cup {<<>>}
  /\ candidates \in [Refs -> Seq(Features)] /\ \A i \in Refs : IsInjective(candidates[i])
  /\ results \in [Refs -> Features \cup {None}]
  /\ method \in DOMAIN SearchMethods /\ tiers \in 1 .. MaxTiers
  /\ next \in 1 .. Len(batch) + 1
  /\ DOMAIN searched \subseteq Keys
  /\ \A key \in DOMAIN searched : searched[key] \in Seq(Features)
  /\ \A c \in DOMAIN contextEmbedded : contextEmbedded[c] <= version
  /\ \A f \in DOMAIN candidateEmbedded : f \in Features /\ candidateEmbedded[f] <= version
  /\ calls \in 0 .. MaxCalls

\* A reference is embedded with as much text around it as the encoder takes, evenly
\* on both sides where the sentences allow it (context.py:90-103).
ContextsCentred ==
  \A i \in Refs : contexts[i].first # 0 => Centred(contexts[i], batch[i].at)

\* What is evaluated has been embedded: a call never ends in a KeyError, whatever
\* an earlier call left in the caches (_similarity.py:64-74).
NothingMissing == pc = "evaluate" => Embedded

(***************************************************************************)
(* What a reference gets by itself: the passes in order, the features each *)
(* finds by the documented search, and the best of the first pass whose    *)
(* best is similar enough.                                                 *)
(***************************************************************************)
Passes == SetToSortSeq(
  {p \in (DOMAIN SearchMethods) \X (1 .. MaxTiers) : p[1] = 1 => p[2] = 1},
  LAMBDA p, q : p[2] < q[2] \/ (p[2] = q[2] /\ p[1] < q[1]))

FoundAlone(name, pass) ==
  LET by == SearchMethods[pass[1]]
      found == [i \in DOMAIN Spellings(name, by) |->
                  Search(Normal[Spellings(name, by)[i]], by, pass[2])]
      hits == {i \in DOMAIN found : found[i] # <<>>}
  IN IF hits = {} THEN <<>> ELSE found[CHOOSE i \in hits : \A j \in hits : i <= j]

\* The features of the first k passes, in the order they are found in.
FoundBy(reference, k) ==
  FoldLeft(LAMBDA list, pass : list \o SelectSeq(FoundAlone(reference.name, pass),
                                                LAMBDA f : f \notin ToSet(list)),
           <<>>, SubSeq(Passes, 1, k))

\* What the current model makes of them.
Preferred(reference, k) ==
  LET list == FoundBy(reference, k)
      at == ExtractContext(reference.document, reference.at)
      Alike(f) == similarity[<<version, at>>][<<version, f>>]
      Position(f) == SelectInSeq(list, LAMBDA g : g = f)
      Best(among, Score(_)) == CHOOSE f \in among : \A g \in among \ {f} :
        Score(f) > Score(g) \/ (Score(f) = Score(g) /\ Position(f) < Position(g))
      Closer(f) == {g \in ToSet(list) : Alike(g) > Alike(f) \/
                                       (Alike(g) = Alike(f) /\ Position(g) < Position(f))}
      seen == {f \in ToSet(list) : Cardinality(Closer(f)) < Shortlisted}
      ranked == {r \in DOMAIN Reranked[at] : Reranked[at][r] \in seen}
      similar == {f \in ToSet(list) : Alike(f) >= MinSimilarity}
  IN CASE similar = {} -> None
       [] similar # {} /\ kind # "jina" ->
            LET best == Best(ToSet(list), LAMBDA f : Alike(f) + PriorOf(f))
            IN IF best \in similar THEN best ELSE None
       [] similar # {} /\ kind = "jina" ->
            IF ranked = {} THEN Best(seen, Alike)
            ELSE Reranked[at][CHOOSE r \in ranked : \A q \in ranked : r <= q]

AloneReferent(reference) ==
  LET resolving == {k \in DOMAIN Passes : Preferred(reference, k) # None}
  IN IF resolving = {} THEN None
     ELSE Preferred(reference, CHOOSE k \in resolving : \A j \in resolving : k <= j)

\* What the call compared was embedded by the current model.
Fresh(i) ==
  /\ contextEmbedded[contexts[i]] = version
  /\ \A f \in ToSet(candidates[i]) : candidateEmbedded[f] = version

\* A reference is resolved as if it were alone in a batch and the resolver were
\* new, by the current model: neither the other references, nor what earlier or
\* failed calls have cached, nor clearing the caches in between changes the answer
\* (sentencetransformer.py:150-153).  Only what was embedded before the model was
\* trained may: fit does not clear the caches.
ResultsAlone == pc = "done" =>
  \A i \in Refs : Fresh(i) => results[i] = AloneReferent(batch[i])
=============================================================================
