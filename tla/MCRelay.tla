------------------------------ MODULE MCRelay ------------------------------
(* Instances of Relay: alice writes to bob.  Each has a window, with one   *)
(* or two connections, so that a lingering handler and its successor       *)
(* overlap, and may have a second process that synchronises beside it.     *)
EXTENDS Relay

CONSTANTS alice, bob, alice_chat, alice_sync, bob_chat, bob_sync,
          m1, a1, a2, as, b1, b2, bs

OneWay == [m \in Msg |-> alice]
OneWayTo == [m \in Msg |-> bob]
AccountOf == [p \in Client |-> IF p \in {alice_chat, alice_sync} THEN alice ELSE bob]
OwnerOf ==
    [c \in Conn |-> CASE c \in {a1, a2} -> alice_chat
                      [] c = as -> alice_sync
                      [] c \in {b1, b2} -> bob_chat
                      [] c = bs -> bob_sync]

(* The connections of one process are interchangeable.                     *)
Symmetry == Permutations({a1, a2} \cap Conn) \cup Permutations({b1, b2} \cap Conn)
=============================================================================
