----------------------------- MODULE MCContacts -----------------------------
(* A chat window and a command on one data directory, and three keys.      *)
EXTENDS Contacts, TLC

CONSTANTS w, c, k1, k2, k3

Symmetry == Permutations(Key)
=============================================================================
