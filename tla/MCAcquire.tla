----------------------------- MODULE MCAcquire ------------------------------
(***************************************************************************)
(* Instances of Acquire for TLC: an archive with two members, wanted by a  *)
(* source each or as a directory, and a plain file.                        *)
(***************************************************************************)
EXTENDS Acquire

CONSTANTS zip, csv, a, b

TwoMembers == <<a, b>>
ThreeSources == <<[file |-> zip, target |-> b],
                  [file |-> zip, target |-> Directory],
                  [file |-> csv, target |-> None]>>
OneSource == <<[file |-> zip, target |-> a]>>

\* Two versions of one size each: only the validator tells them apart.
SameSize == <<2, 2>>

PinsOrNot == {[f \in Files |-> None], [f \in Files |-> 2]}
NoPins == {[f \in Files |-> None]}
=============================================================================
