--------------------------- MODULE ContextWindow ----------------------------
(***************************************************************************)
(* The text a reference is embedded with: its document if the encoder      *)
(* takes it whole, else the sentences around the reference that fit.       *)
(*                                                                         *)
(* A document is what it costs to encode and its sentences, in order; a    *)
(* sentence is its half-open span and its cost.  doc_tokens and            *)
(* measured_sentences cache both by the text and are left out.             *)
(***************************************************************************)
EXTENDS Integers, FiniteSets, SequencesExt

CONSTANTS
  Documents,    \* id -> [tokens, sentences]
  MaxSeqLength  \* of the encoder, two special tokens included

ASSUME DocumentsAssumption ==
  /\ MaxSeqLength \in Nat
  /\ \A d \in DOMAIN Documents :
       /\ Documents[d].tokens \in Nat
       /\ Documents[d].sentences \in Seq([start : Nat, end : Nat, cost : Nat])

TokenLimit == MaxSeqLength - 2

Covers(sentence, offset) == sentence.start <= offset /\ offset < sentence.end

\* The first sentence that covers an offset, 0 if none does.
LocateSentence(sentences, offset) ==
  SelectInSeq(sentences, LAMBDA sentence : Covers(sentence, offset))

Affordable(sentences, index, remaining) ==
  index \in DOMAIN sentences /\ sentences[index].cost <= remaining

ExtendBefore(sentences, reach) ==
  IF Affordable(sentences, reach.first - 1, reach.remaining)
    THEN [reach EXCEPT !.first = @ - 1, !.remaining = @ - sentences[reach.first - 1].cost]
    ELSE reach

\* Mutant: what was taken before is not paid for.
ExtendAfterFree(sentences, reach) ==
  IF Affordable(sentences, reach.last + 1, reach.remaining)
    THEN [reach EXCEPT !.last = @ + 1]
    ELSE reach

ExtendAfter(sentences, reach) ==
  IF Affordable(sentences, reach.last + 1, reach.remaining)
    THEN [reach EXCEPT !.last = @ + 1, !.remaining = @ - sentences[reach.last + 1].cost]
    ELSE reach

\* A round that takes nothing ends the loop; further rounds would not either.
ExpandWindow(sentences, target, budget) ==
  LET reach[k \in 0 .. Len(sentences)] ==
        IF k = 0
          THEN [first |-> target, last |-> target,
                remaining |-> budget - sentences[target].cost]
          ELSE ExtendAfter(sentences, ExtendBefore(sentences, reach[k - 1]))
  IN reach[Len(sentences)]

Fits(d) == Documents[d].tokens <= TokenLimit

\* Raises where no sentence covers the reference; a document that fits is not
\* searched for it.
Locatable(d, offset) == Fits(d) \/ LocateSentence(Documents[d].sentences, offset) # 0

\* _extract_context; a whole document is the window from 0 to 0.
ExtractContext(d, offset) ==
  LET sentences == Documents[d].sentences
      window == ExpandWindow(sentences, LocateSentence(sentences, offset), TokenLimit)
  IN  IF Fits(d) THEN [document |-> d, first |-> 0, last |-> 0]
      ELSE [document |-> d, first |-> window.first, last |-> window.last]

-----------------------------------------------------------------------------
(***************************************************************************)
(* What a window should be, said without the loop.                         *)
(***************************************************************************)

\* A token is its sentence and its number there.
Tokens(sentences, i, j) == UNION {{k} \X (1 .. sentences[k].cost) : k \in i .. j}

Cost(sentences, i, j) == Cardinality(Tokens(sentences, i, j))

Blocked(sentences, i, j) == i < 1 \/ j > Len(sentences) \/ Cost(sentences, i, j) > TokenLimit

\* The window holds the reference's sentence and nothing beyond the limit, unless
\* that sentence alone is; no neighbour would fit; and a side is the shorter one
\* only because its next sentence did not fit while the sides were even.
Centred(context, offset) ==
  LET sentences == Documents[context.document].sentences
      target == LocateSentence(sentences, offset)
      before == target - context.first
      after == context.last - target
  IN
  /\ context.first \in 1 .. target /\ context.last \in target .. Len(sentences)
  /\ \/ Cost(sentences, context.first, context.last) <= TokenLimit
     \/ context.first = context.last
  /\ Blocked(sentences, context.first - 1, context.last)
  /\ Blocked(sentences, context.first, context.last + 1)
  /\ before < after => Blocked(sentences, context.first - 1, target + before)
  /\ after < before => Blocked(sentences, target - after - 1, context.last + 1)
=============================================================================
