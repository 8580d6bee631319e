----------------------------- MODULE MCResolver -----------------------------
(***************************************************************************)
(* An instance of Resolver for TLC.                                        *)
(***************************************************************************)
EXTENDS Resolver, TLC

CONSTANTS berns, bern, quoted

Sentence(from, to, tokens) == [start |-> from, end |-> to, cost |-> tokens]

\* One document is encoded whole.  The other is not: its second and third sentence
\* and the empty fourth make one window, the first is too long by itself, and there
\* is a gap at 4.
MCDocuments ==
  [short |-> [tokens |-> 2, sentences |-> <<Sentence(0, 4, 2)>>],
   long |-> [tokens |-> 9, sentences |-> <<Sentence(0, 4, 4), Sentence(5, 8, 2), Sentence(8, 12, 1),
                                           Sentence(12, 15, 0), Sentence(15, 20, 1)>>]]

\* "Berns" is trimmed to "Bern"; a quoted "Bern" is searched without the quotes.
MCNormal == [n \in Names |-> IF n = quoted THEN bern ELSE n]
MCTrimmed == [n \in Names |-> IF n = berns THEN <<bern>> ELSE <<>>]

Match(feature, score) == [f \in {feature} |-> score]

\* Looser methods and wider tiers find more; features tie, one of them at the limit.
MCScores == [
  exact |-> [n \in Names |-> IF n = berns THEN <<>> ELSE Match(1, 0)],
  phrase |-> [n \in Names |-> IF n = berns THEN <<>> ELSE Match(1, 0) @@ Match(2, 1) @@ Match(3, 1)],
  partial |-> [n \in Names |-> IF n = berns THEN <<>> ELSE Match(2, 0) @@ Match(3, 0)],
  fuzzy |-> [n \in Names |-> Match(3, 0) @@ Match(2, IF n = berns THEN 1 ELSE 0)]]

Reference(n, d, offset) == [name |-> n, document |-> d, at |-> offset]

MCReferences ==
  {Reference(n, "long", 6) : n \in Names} \cup
  {Reference(berns, "long", 9), Reference(berns, "short", 0),
   Reference(bern, "long", 1), Reference(bern, "long", 4)}

MCBatches == {<<r>> : r \in MCReferences} \cup
  {<<r, s>> \in MCReferences \X MCReferences : r.name = bern /\ r.at < 10 /\ s.name = berns}

WindowsOf(d, offsets) == {ExtractContext(d, o) : o \in offsets}
Windows == WindowsOf("long", {1, 6, 9}) \cup WindowsOf("short", {0})

\* What a model says of a feature in the shared window and elsewhere; the
\* trained model says the opposite, and each takes the other's for a match.
MCSimilarities ==
  {[from \in (1 .. 2) \X Windows |-> [to \in (1 .. 2) \X Features |->
      LET said == IF from[2].first = 2 THEN s[to[2]] ELSE IF to[2] = 3 THEN 1 ELSE 0
      IN IF from[1] # to[1] THEN 2 ELSE IF from[1] = 1 THEN said ELSE 2 - said]]
   : s \in {f \in [Features -> 0 .. 2] : f[3] < 2 /\ 0 \in {f[2], f[3]} /\ f[1] # 1}}

MCPrior == [f \in Features |-> IF f = 3 THEN 1 ELSE 0]

\* The reranker prefers high ids, and says nothing of whole documents.
MCReranked == [c \in Windows |-> IF c.first = 0 THEN <<>> ELSE <<3, 2, 1>>]
AllKinds == {"plain", "prior", "jina"}
=============================================================================
