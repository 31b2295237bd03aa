------------------------------ MODULE MCPosts -------------------------------
(* Two posts to a group of two other members.                            *)
EXTENDS Posts, TLC

CONSTANTS m1, m2, p1, p2

Symmetry == Permutations(Member) \cup Permutations(Post)
=============================================================================
