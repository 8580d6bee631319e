------------------------ MODULE MCAnnotatorToponyms -------------------------
(***************************************************************************)
(* Instances of AnnotatorToponyms for TLC.                                 *)
(***************************************************************************)
EXTENDS AnnotatorToponyms, TLC

CONSTANTS same, other, l1, l2

\* The same name three times, and a longer span that covers part of two.
Front == [start |-> 0, end |-> 2]
Middle == [start |-> 2, end |-> 4]
Last == [start |-> 4, end |-> 6]
Long == [start |-> 1, end |-> 4]

ThreeNames == {Front, Middle, Last, Long}
TwoNames == {Front, Middle, Long}
Texts == [m \in ThreeNames |-> IF m = Long THEN other ELSE same]

OneSender == {
  [senders |-> 1, mentions |-> ThreeNames, choices |-> LocIds,
   spotted |-> {Front, Middle, Last}, rows |-> 5]}

\* Parses of one name beside its removal and its return, edits beside those of
\* another name, edits beside links, and links alone.
TwoSenders == {
  [senders |-> 2, mentions |-> {Front}, choices |-> {}, spotted |-> {Front}, rows |-> 3],
  [senders |-> 2, mentions |-> TwoNames, choices |-> {}, spotted |-> {Front}, rows |-> 2],
  [senders |-> 2, mentions |-> {Middle, Long}, choices |-> {l1, Unlinked},
   spotted |-> {Front, Middle}, rows |-> 2],
  [senders |-> 2, mentions |-> {}, choices |-> {l1, NoSuitable},
   spotted |-> {Front, Middle, Last}, rows |-> 3]}

OneOrTwoSenders == OneSender \cup TwoSenders

SenderSymmetry == Permutations(Senders)
=============================================================================
