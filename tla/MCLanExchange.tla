--------------------------- MODULE MCLanExchange ----------------------------
(* alice and bob look for each other, with up to two messages each way;    *)
(* carol looks for alice.                                                  *)
EXTENDS LanExchange, TLC

CONSTANTS alice, bob, carol, m1, m2, m3, m4, c1, c2

Each == [p \in Peer |-> IF p = alice THEN bob ELSE alice]
From == [m \in Msg |-> IF m \in {m1, m2} THEN alice ELSE bob]
To == [m \in Msg |-> IF m \in {m1, m2} THEN bob ELSE alice]
=============================================================================
