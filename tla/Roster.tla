------------------------------- MODULE Roster -------------------------------
(***************************************************************************)
(* What the relay promises of one group's membership, with no requests,    *)
(* roles or tables: one member joins or leaves at a time, the key epoch    *)
(* goes up by one with each change and with nothing else, the group never  *)
(* outgrows its cap, and nobody is in a group that was deleted.  Clients   *)
(* key their messages by the epoch, so it has to name one membership.      *)
(***************************************************************************)
EXTENDS Naturals, FiniteSets

CONSTANTS
    User,       \* accounts
    Creator,    \* who creates the group
    MaxMembers  \* MAX_GROUP_MEMBERS

VARIABLES
    stage,      \* "none", "live" or "deleted"
    members,
    epoch       \* key_epoch

vars == <<stage, members, epoch>>

Init == stage = "none" /\ members = {} /\ epoch = 0

Create ==
    /\ stage = "none"
    /\ stage' = "live" /\ members' = {Creator} /\ epoch' = 1

Join(u) ==
    /\ stage = "live" /\ u \notin members
    /\ Cardinality(members) < MaxMembers
    /\ members' = members \cup {u}
    /\ epoch' = epoch + 1
    /\ UNCHANGED stage

Leave(u) ==
    /\ u \in members
    /\ members' = members \ {u}
    /\ epoch' = epoch + 1
    /\ UNCHANGED stage

Delete ==
    /\ stage = "live"
    /\ stage' = "deleted" /\ members' = {}
    /\ UNCHANGED epoch

Next == Create \/ Delete \/ \E u \in User : Join(u) \/ Leave(u)

Spec == Init /\ [][Next]_vars
=============================================================================
