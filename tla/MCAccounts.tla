----------------------------- MODULE MCAccounts -----------------------------
(* One data directory; a name of the user's choice and one already taken.  *)
EXTENDS Accounts, TLC

CONSTANTS p1, p2, u1, u2

Symmetry == Permutations(Proc) \cup Permutations(User)
=============================================================================
