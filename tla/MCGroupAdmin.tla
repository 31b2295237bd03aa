---------------------------- MODULE MCGroupAdmin ----------------------------
(* A group of at most three of four users, two requests at a time.         *)
EXTENDS GroupAdmin, TLC

CONSTANTS ann, ben, cyd, dan, r1, r2

Symmetry == Permutations({ben, cyd, dan}) \cup Permutations({r1, r2})
=============================================================================
