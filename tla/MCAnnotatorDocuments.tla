------------------------ MODULE MCAnnotatorDocuments ------------------------
(***************************************************************************)
(* Instances of AnnotatorDocuments for TLC.                                *)
(***************************************************************************)
EXTENDS AnnotatorDocuments, TLC

CONSTANTS d1, d2, d3, d4, l1, l2, l3, l4

ThreeAndOne == {<<d1, d2, d3>>, <<d4>>}
TwoAndOne == {<<d1, d2>>, <<d3>>}

\* A file of two documents, imported at most twice.
Twice == {<<l1, l2>>, <<l3, l4>>}
Never == {}

\* Either files of text only, or a JSON file and one file of text.
TextOrJson == {{<<d1, d2, d3>>, <<d4>>}, Twice, {<<l1, l2>>, <<d4>>}}
TextOnly == {TwoAndOne}

TabSymmetry == Permutations(Tabs)
=============================================================================
