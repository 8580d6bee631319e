---------------------------- MODULE MCGazetteers ----------------------------
(***************************************************************************)
(* Instances of Gazetteers for TLC.                                        *)
(***************************************************************************)
EXTENDS Gazetteers, TLC

Symmetry == Permutations(Builders) \cup Permutations(Threads)
=============================================================================
