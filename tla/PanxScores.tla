----------------------------- MODULE PanxScores -----------------------------
(***************************************************************************)
(* How the PAN-X benchmark scores a recognizer: gold spans from the BIO    *)
(* tags of a row, predicted spans from what a model reports, counts over   *)
(* sentences and languages.  A token is its length; seconds are left out.  *)
(***************************************************************************)
EXTENDS Integers, SequencesExt

Tag == {"O", "B-PER", "I-PER", "B-LOC", "I-LOC"}
NoSpan == <<>>

\* Each token but the first follows one space.
TokenOffsets(tokens) ==
  LET place[i \in DOMAIN tokens] ==
        LET start == IF i = 1 THEN 0 ELSE place[i - 1][2] + 1
        IN  <<start, start + tokens[i]>>
  IN  place

Close(state) ==
  IF state.active = NoSpan THEN state
  ELSE [state EXCEPT !.spans = @ \cup {state.active}, !.active = NoSpan]

\* _LocationSpanState.consume: an I-LOC that continues nothing is counted as
\* malformed, and opens a span all the same.
Consume(state, tag, place) ==
  CASE tag = "B-LOC" -> [Close(state) EXCEPT !.active = place]
    [] tag = "I-LOC" -> IF state.active = NoSpan
                          THEN [state EXCEPT !.malformed = @ \cup {place}, !.active = place]
                          ELSE [state EXCEPT !.active = <<@[1], place[2]>>]
    [] OTHER -> Close(state)

LocationSpans(tags, offsets) ==
  LET state[i \in 0 .. Len(tags)] ==
        IF i = 0 THEN [spans |-> {}, active |-> NoSpan, malformed |-> {}]
        ELSE Consume(state[i - 1], tags[i], offsets[i])
  IN  Close(state[Len(tags)])

\* The text of an example is its length.
ExampleFromRow(row) ==
  LET offsets == TokenOffsets(row.tokens)
      found == LocationSpans(row.tags, offsets)
  IN  [length |-> IF row.tokens = <<>> THEN 0 ELSE offsets[Len(row.tokens)][2],
       gold |-> found.spans, malformed |-> found.malformed]

\* What each adapter takes from a model's report on a sentence; a report is a
\* set of [label, span], the span NoSpan where the model gives no offsets.
LocationLabels ==
  [spacy_en |-> {"FAC", "GPE", "LOC"},
   gliner2_multi |-> {"city", "country", "location"},
   xlmr_ner_hrl |-> {"LOC", "B-LOC", "I-LOC"}]

PredictedSpans(recognizer, said) ==
  {e.span : e \in {x \in said : x.label \in LocationLabels[recognizer] /\ x.span # NoSpan}}

-----------------------------------------------------------------------------
NoCounts == [tp |-> 0, fp |-> 0, fn |-> 0, sentences |-> 0, malformed |-> 0, invalid |-> 0]

Counts ==
  [tp : Nat, fp : Nat, fn : Nat, sentences : Nat, malformed : Nat, invalid : Nat]

Invalid(span, length) == span[1] < 0 \/ span[2] <= span[1] \/ span[2] > length

\* A sentence is its index, its example and what was predicted in it.
Over(sentences, Part(_)) == Cardinality(UNION {{t.index} \X Part(t) : t \in sentences})

\* Counts.add, for the sentences of a batch.
AddCounts(n, sentences) ==
  [tp |-> n.tp + Over(sentences, LAMBDA t : t.example.gold \cap t.predicted),
   fp |-> n.fp + Over(sentences, LAMBDA t : t.predicted \ t.example.gold),
   fn |-> n.fn + Over(sentences, LAMBDA t : t.example.gold \ t.predicted),
   sentences |-> n.sentences + Cardinality(sentences),
   malformed |-> n.malformed + Over(sentences, LAMBDA t : t.example.malformed),
   invalid |-> n.invalid + Over(sentences, LAMBDA t :
                                  {s \in t.predicted : Invalid(s, t.example.length)})]

\* A ratio is a pair; an empty denominator makes it zero.
Ratio(n, d) == IF d = 0 THEN <<0, 1>> ELSE <<n, d>>

Scores(n) ==
  [counts |-> n,
   precision |-> Ratio(n.tp, n.tp + n.fp),
   recall |-> Ratio(n.tp, n.tp + n.fn),
   \* 2pr / (p + r)
   f1 |-> Ratio(2 * n.tp, 2 * n.tp + n.fp + n.fn)]

Sum(terms) == FoldFunction(+, 0, terms)

TotalCounts(rows) ==
  [field \in DOMAIN NoCounts |-> Sum([lang \in DOMAIN rows |-> rows[lang].counts[field]])]

\* Mutant: languages without a match are left out.
MicroOfMatches(rows) ==
  Scores(TotalCounts([lang \in {x \in DOMAIN rows : rows[x].counts.tp > 0} |-> rows[lang]]))

\* rows: the scores of each language that was evaluated.
MicroScores(rows) == Scores(TotalCounts(rows))

\* The mean of ratios is left as the ratios it is taken of.
MacroScores(rows) ==
  [metric \in {"precision", "recall", "f1"} |-> [lang \in DOMAIN rows |-> rows[lang][metric]]]

-----------------------------------------------------------------------------
(***************************************************************************)
(* The same, said without a loop.                                         *)
(***************************************************************************)

InPlace(tags, i) == i \in DOMAIN tags /\ tags[i] \in {"B-LOC", "I-LOC"}
Opens(tags, i) == tags[i] = "B-LOC" \/ (tags[i] = "I-LOC" /\ ~InPlace(tags, i - 1))
Closes(tags, j) == InPlace(tags, j) /\ (j = Len(tags) \/ tags[j + 1] # "I-LOC")

Runs(tags) == {run \in (DOMAIN tags) \X (DOMAIN tags) :
                 /\ run[1] <= run[2] /\ Opens(tags, run[1]) /\ Closes(tags, run[2])
                 /\ \A k \in run[1] + 1 .. run[2] : tags[k] = "I-LOC"}

StartOf(tokens, i) == Sum([k \in 1 .. i - 1 |-> tokens[k]]) + i - 1

GoldSpans(row) ==
  {<<StartOf(row.tokens, r[1]), StartOf(row.tokens, r[2]) + row.tokens[r[2]]>>
     : r \in Runs(row.tags)}

GoldOrphans(row) == {i \in DOMAIN row.tags : row.tags[i] = "I-LOC" /\ ~InPlace(row.tags, i - 1)}
=============================================================================
