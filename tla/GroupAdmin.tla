----------------------------- MODULE GroupAdmin -----------------------------
(***************************************************************************)
(* The relay's handlers for one group (backend/src/http.rs) over its       *)
(* tables (backend/src/store): create, add a member, remove a member or    *)
(* leave, delete.  A handler is a chain of store calls with an await       *)
(* between any two, so requests interleave there, and what one has read    *)
(* may be stale when it acts on it.  The transaction that adds a member is *)
(* three statements under the lock of the group's row.  A handler can also *)
(* stop between any two of them: the relay crashes, a call fails, or the   *)
(* caller hangs up and the server drops the request's future.              *)
(***************************************************************************)
EXTENDS Naturals, FiniteSets

CONSTANTS
    User,       \* accounts
    Creator,    \* who creates the group
    NoUser,     \* no user
    Req,        \* slots for requests in flight
    MaxMembers, \* MAX_GROUP_MEMBERS
    MaxEpoch    \* bound: membership changes

ASSUME GroupAdminAssumption ==
    /\ IsFiniteSet(User)
    /\ Creator \in User /\ NoUser \notin User
    /\ MaxMembers \in Nat \ {0}
    /\ MaxEpoch \in Nat

VARIABLES
    stage,      \* "none", "live" or "deleted": the groups row
    role,       \* role[u]: u's role in group_members, "none" if not in it
    joined,     \* joined[u]: the epoch u joined at, for the order of joined_at
    epoch,      \* key_epoch
    task,       \* task[r]: the request in slot r and what its handler has read
    disturbed   \* history: requests overlapped, or one stopped half-way

groupVars == <<stage, role, joined, epoch>>
vars == <<groupVars, task, disturbed>>

Role == {"none", "member", "admin", "owner"}

(* can_manage_members.  No code makes anybody an admin.                    *)
CanManage(r) == r \in {"owner", "admin"}

Members == {u \in User : role[u] # "none"}

(* No request.                                                             *)
Idle == [at |-> "idle", op |-> "none", by |-> NoUser, target |-> NoUser,
         seen |-> "none", owned |-> FALSE, heir |-> NoUser]

(* A request as it arrives.                                                *)
Request(o, u, t) == [at |-> "requester", op |-> o, by |-> u, target |-> t,
                     seen |-> "none", owned |-> FALSE, heir |-> NoUser]

At(r, p) == task[r].at = p

(* Request r goes on to store call p; or ends, and its locals with it.     *)
Goto(r, p) == task' = [task EXCEPT ![r].at = p]
End(r) == task' = [task EXCEPT ![r] = Idle]

-----------------------------------------------------------------------------
(* The table of members.                                                   *)

(* create_group: the group row and its owner's row.                        *)
Create ==
    /\ stage = "none"
    /\ stage' = "live"
    /\ role' = [role EXCEPT ![Creator] = "owner"]
    /\ joined' = [joined EXCEPT ![Creator] = 1]
    /\ epoch' = 1
    /\ UNCHANGED <<task, disturbed>>

(* Mutant: the group's row is read without FOR UPDATE.                     *)
NeverLocked == FALSE

(* The group's row is locked by the transaction of an add_group_member.    *)
Locked == \E s \in Req : task[s].at \in {"count", "insert"}

(* Mutant: the epoch is not bumped.                                        *)
UnlistSilently(u) ==
    /\ role' = [role EXCEPT ![u] = "none"]
    /\ joined' = [joined EXCEPT ![u] = 0]
    /\ UNCHANGED <<stage, epoch>>

(* remove_group_member.                                                    *)
Unlist(u) ==
    /\ role' = [role EXCEPT ![u] = "none"]
    /\ joined' = [joined EXCEPT ![u] = 0]
    /\ epoch' = epoch + 1
    /\ UNCHANGED stage

(* Mutant: the members are not deleted with the group.                     *)
DropGroupOnly ==
    /\ stage' = "deleted"
    /\ UNCHANGED <<role, joined, epoch>>

(* delete_group: the members' rows go with the group's.                    *)
DropGroup ==
    /\ stage' = "deleted"
    /\ role' = [u \in User |-> "none"]
    /\ joined' = [u \in User |-> 0]
    /\ UNCHANGED epoch

-----------------------------------------------------------------------------
(* The handlers.                                                           *)

(* A request of user u arrives.                                            *)
Begin(r, o, u, t) ==
    /\ At(r, "idle")
    /\ task' = [task EXCEPT ![r] = Request(o, u, t)]
    /\ disturbed' = (disturbed \/ \E s \in Req : ~At(s, "idle"))
    /\ UNCHANGED groupVars

(* require_member of the caller: it is refused, or its role is remembered. *)
CheckRequester(r) ==
    /\ At(r, "requester")
    /\ LET ro == role[task[r].by]
           allowed == CASE task[r].op = "add" -> CanManage(ro)
                        [] task[r].op = "remove" -> ro # "none"
                        [] task[r].op = "delete" -> ro = "owner"
           next == IF task[r].op = "remove" THEN "target" ELSE task[r].op
       IN  IF allowed
           THEN task' = [task EXCEPT ![r].at = next, ![r].seen = ro]
           ELSE End(r)
    /\ UNCHANGED <<groupVars, disturbed>>

(* remove_member: the target's role is read, and anybody but an owner may  *)
(* be removed by a manager, anybody by itself.                             *)
CheckTarget(r) ==
    /\ At(r, "target")
    /\ LET ro == role[task[r].target]
           allowed == \/ task[r].target = task[r].by
                      \/ CanManage(task[r].seen) /\ ro # "owner"
       IN  IF ro # "none" /\ allowed
           THEN task' = [task EXCEPT ![r].at = "remove", ![r].owned = (ro = "owner")]
           ELSE End(r)
    /\ UNCHANGED <<groupVars, disturbed>>

(* add_group_member, a transaction of three statements.  The first locks   *)
(* the group's row, once nobody else has it; there may be no such group.   *)
LockGroup(r) ==
    /\ At(r, "add") /\ ~Locked
    /\ IF stage = "live" THEN Goto(r, "count") ELSE End(r)
    /\ UNCHANGED <<groupVars, disturbed>>

(* The second counts the rows: the group may be full.                      *)
CountMembers(r) ==
    /\ At(r, "count")
    /\ IF Cardinality(Members) < MaxMembers THEN Goto(r, "insert") ELSE End(r)
    /\ UNCHANGED <<groupVars, disturbed>>

(* The third inserts, on the count that was read, unless there is such a   *)
(* row; with the new epoch it is committed and the lock is gone.           *)
Insert(r) ==
    /\ At(r, "insert")
    /\ LET t == task[r].target
       IN  IF role[t] = "none"
           THEN /\ epoch < MaxEpoch
                /\ role' = [role EXCEPT ![t] = "member"]
                /\ joined' = [joined EXCEPT ![t] = epoch + 1]
                /\ epoch' = epoch + 1
                /\ UNCHANGED stage
           ELSE UNCHANGED groupVars
    /\ End(r)
    /\ UNCHANGED disturbed

(* remove_group_member, which bumps the epoch in the group's row and so    *)
(* waits for its lock; an owner that left is to be replaced.               *)
Remove(r) ==
    /\ At(r, "remove")
    /\ IF role[task[r].target] # "none"
       THEN /\ ~Locked /\ epoch < MaxEpoch
            /\ Unlist(task[r].target)
            /\ IF task[r].owned THEN Goto(r, "heirs") ELSE End(r)
       ELSE UNCHANGED groupVars /\ End(r)
    /\ UNCHANGED disturbed

(* Mutant: the members are sorted the other way.                           *)
Newest(S) == CHOOSE u \in S : \A v \in S : joined[u] >= joined[v]

(* remaining.sort_by_key(joined_at), first().                              *)
Oldest(S) == CHOOSE u \in S : \A v \in S : joined[u] <= joined[v]

(* group_members after the owner left: the heir is chosen here.            *)
ReadHeirs(r) ==
    /\ At(r, "heirs")
    /\ task' = IF Members = {}
               THEN [task EXCEPT ![r].at = "discard"]
               ELSE [task EXCEPT ![r].at = "handover", ![r].heir = Oldest(Members)]
    /\ UNCHANGED <<groupVars, disturbed>>

(* Mutant: the heir is only looked at, not promoted.                       *)
HandoverForgotten(r) ==
    /\ At(r, "handover")
    /\ End(r)
    /\ UNCHANGED <<groupVars, disturbed>>

(* set_group_owner, which fails if the heir has left meanwhile.            *)
Handover(r) ==
    /\ At(r, "handover")
    /\ role' = IF role[task[r].heir] # "none"
               THEN [role EXCEPT ![task[r].heir] = "owner"] ELSE role
    /\ End(r)
    /\ UNCHANGED <<stage, joined, epoch, disturbed>>

(* delete_group: by the owner, or once nobody remains.  It waits for the   *)
(* lock of the row it deletes.                                             *)
Delete(r) ==
    /\ At(r, "delete") \/ At(r, "discard")
    /\ IF stage = "live" THEN ~Locked /\ DropGroup ELSE UNCHANGED groupVars
    /\ End(r)
    /\ UNCHANGED disturbed

(* A store call fails, the caller hangs up or the relay crashes: the calls *)
(* that are left are never made, and an open transaction is rolled back.   *)
Abandon(r) ==
    /\ ~At(r, "idle")
    /\ End(r)
    /\ disturbed' = TRUE
    /\ UNCHANGED groupVars

-----------------------------------------------------------------------------
Init ==
    /\ stage = "none"
    /\ role = [u \in User |-> "none"]
    /\ joined = [u \in User |-> 0]
    /\ epoch = 0
    /\ task = [r \in Req |-> Idle]
    /\ disturbed = FALSE

Step(r) ==
    \/ CheckRequester(r) \/ CheckTarget(r)
    \/ LockGroup(r) \/ CountMembers(r) \/ Insert(r)
    \/ Remove(r) \/ ReadHeirs(r) \/ Handover(r) \/ Delete(r)

Next ==
    \/ Create
    \/ \E r \in Req :
          \/ \E o \in {"add", "remove", "delete"}, u \in User, t \in User : Begin(r, o, u, t)
          \/ Step(r)
          \/ Abandon(r)

Spec == Init /\ [][Next]_vars

-----------------------------------------------------------------------------
Point == {"idle", "requester", "target", "add", "count", "insert", "remove",
          "heirs", "handover", "discard", "delete"}

Task == [at : Point, op : {"none", "add", "remove", "delete"},
         by : User \cup {NoUser}, target : User \cup {NoUser},
         seen : Role, owned : BOOLEAN, heir : User \cup {NoUser}]

TypeOK ==
    /\ stage \in {"none", "live", "deleted"}
    /\ role \in [User -> Role]
    /\ joined \in [User -> Nat]
    /\ epoch \in Nat
    /\ task \in [Req -> Task]
    /\ disturbed \in BOOLEAN

(* Requests that race for the last place never overfill the group: what    *)
(* one counted still holds when it inserts, because every other change of  *)
(* the membership waits for the group's row (add_group_member).            *)
WithinCap == Cardinality(Members) <= MaxMembers

(* A group that is deleted under a request that already passed its checks  *)
(* gains no member from it: nobody is in a group that does not exist.      *)
NoGhosts == stage # "live" => Members = {}

(* While requests run one at a time and to their end, a group that has     *)
(* members has exactly one owner, its oldest member, except between the    *)
(* owner's removal and the handover of the same request.                   *)
OldestOwns ==
    stage = "live" /\ ~disturbed
    /\ (\A r \in Req : task[r].at \notin {"heirs", "handover", "discard"})
        => {u \in User : role[u] = "owner"} = {Oldest(Members)}

(* "When the owner leaves, hand ownership to the oldest remaining member   *)
(* so the group stays manageable" (remove_member), whatever else runs.     *)
AlwaysManageable ==
    stage = "live" /\ (\A r \in Req : At(r, "idle")) /\ Members # {}
        => \E u \in User : CanManage(role[u])

(* Every step of every handler, stale reads included, is one membership    *)
(* change of Roster with its epoch, or none.                               *)
R == INSTANCE Roster WITH members <- Members

ImplementsRoster == R!Spec
=============================================================================
