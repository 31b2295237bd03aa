---------------------------- MODULE MCGroupKeys ----------------------------
(* A group of up to three users and one text.                              *)
EXTENDS GroupKeys, TLC

CONSTANTS ann, ben, cyd, t1

Symmetry == Permutations({ben, cyd})
=============================================================================
