---------------------------- MODULE MCChatScreen ----------------------------
(* Two contacts and a group; the list shows the contacts first.            *)
EXTENDS ChatScreen

CONSTANTS d1, d2, g1

ListOrder == <<d1, d2, g1>>
=============================================================================
