-------------------------- MODULE MCPanxBenchmark ---------------------------
(***************************************************************************)
(* An instance of PanxBenchmark for TLC.                                   *)
(***************************************************************************)
EXTENDS PanxBenchmark

CONSTANTS first, second

\* Three sentences: a place of two words after a name, two places side by side,
\* and a place without a first tag.
Rows ==
  [en |-> << [tokens |-> <<3, 2, 4>>, tags |-> <<"B-PER", "B-LOC", "I-LOC">>],
             [tokens |-> <<2, 2>>, tags |-> <<"B-LOC", "B-LOC">>],
             [tokens |-> <<1>>, tags |-> <<"O">>] >>,
   fr |-> << [tokens |-> <<2, 1>>, tags |-> <<"I-LOC", "I-LOC">>] >>]

Says(label, span) == [label |-> label, span |-> span]

\* spaCy is right in English only; XLM-R leaves offsets out and overshoots the text.
Found(places) ==
  [spacy_en |-> [en |-> <<{Says("GPE", <<4, 10>>), Says("PERSON", <<0, 3>>)},
                          {Says("LOC", <<0, 2>>)}, {}>>,
                 fr |-> <<{Says("FAC", <<3, 4>>)}>>],
   xlmr_ner_hrl |-> [en |-> <<{Says("LOC", <<4, 6>>)},
                              {Says("LOC", <<0, 2>>), Says("LOC", NoSpan)} \cup places, {}>>,
                     fr |-> <<{Says("LOC", <<0, 2>>), Says("LOC", <<3, 9>>)}>>]]

\* The revisions differ in what XLM-R finds in the second sentence.
RawReports == (first :> Found({})) @@ (second :> Found({Says("LOC", <<3, 5>>)}))

Batches == [spacy_en |-> 1, xlmr_ner_hrl |-> 8]
Claims == [spacy_en |-> {"en"}, xlmr_ner_hrl |-> {"en", "fr"}]
EnglishThenFrench == <<"en", "fr">>
Both == <<"spacy_en", "xlmr_ner_hrl">>

\* The second command line is refused.
CommandLines ==
  {[models |-> Both, transfer |-> FALSE, limit |-> 2],
   [models |-> <<"xlmr_ner_hrl">>, transfer |-> TRUE, limit |-> 2]}
=============================================================================
