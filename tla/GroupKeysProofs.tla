-------------------------- MODULE GroupKeysProofs ---------------------------
(* What GroupKeys promises of the keys of an epoch, proved for any users,  *)
(* any number of membership changes and any number of faults.              *)
EXTENDS GroupKeys, TLAPS

Mail == outbox \cup queue

(* Somebody holds the key that w made for epoch e, or a letter has it or   *)
(* was written with it.                                                    *)
Made(w, e) ==
    \/ \E u \in User : keys[u][e] = w
    \/ \E m \in Mail : m.by = w /\ m.epoch = e

(* A change of the membership is being followed up by u's client ...       *)
Busy(u) == task[u].at \in {"epoch", "members", "rotate"}

(* ... and it has read the epoch it will key.                              *)
HasRead(u) == task[u].at \in {"members", "rotate"}

(* Only a group that exists has tasks.                                     *)
ReadOK ==
    \A u \in User :
        /\ Busy(u) => epoch \in Epoch
        /\ HasRead(u) => task[u].epoch \in Epoch

(* The relay keeps the members of the epoch it is at, the owner of them.   *)
GroupOK ==
    /\ epoch = 0 => owner = NoUser /\ members = {}
    /\ epoch > 0 => owner \in members /\ at[epoch] = members

(* Only the owner follows up a change, and while it does nobody is added:  *)
(* who is or was read as a member was one at the epoch to be keyed.        *)
TasksOK ==
    \A u \in User :
        /\ Busy(u) => u = owner
        /\ HasRead(u) => task[u].epoch \in 1..epoch /\ u \in at[task[u].epoch]
        /\ task[u].at = "members" => members \subseteq at[task[u].epoch]
        /\ task[u].at = "rotate" =>
              /\ task[u].members \subseteq at[task[u].epoch]
              /\ \A v \in members : since[v] <= task[u].epoch => v \in task[u].members

(* The current epoch is keyed by the owner, and an epoch that is about to  *)
(* be keyed was keyed by nobody else.                                      *)
MakersOK ==
    \A w \in User, e \in Epoch :
        Made(w, e) =>
            /\ e <= epoch
            /\ w = owner \/ e < epoch
            /\ \A u \in User : HasRead(u) /\ task[u].epoch = e => w = u

OneMaker ==
    \A v, w \in User, e \in Epoch : Made(v, e) /\ Made(w, e) => v = w

(* Keys are held by, and on their way to, members of their epoch.          *)
HoldersOK ==
    /\ \A u \in User, e \in Epoch : keys[u][e] # NoUser => u \in at[e]
    /\ \A m \in Mail : IsKey(m) => m.to \in at[m.epoch]

(* A key that is used reaches whoever was there all the time.              *)
AllServed ==
    ~torn =>
        \A w \in User, e \in Epoch : Made(w, e) =>
            \A v \in members : since[v] <= e => keys[v][e] = w \/ KeyFor(w, v, e) \in Mail

Core == TasksOK /\ MakersOK /\ OneMaker /\ HoldersOK /\ AllServed

IInv == TypeOK /\ ReadOK /\ GroupOK /\ (~cliLeft => Core)

-----------------------------------------------------------------------------
(* Types.                                                                  *)

Stage == {"idle", "epoch", "members", "rotate", "forget"}

LEMMA GotoTypes ==
  ASSUME task \in [User -> Task], NEW u \in User, NEW p \in Stage, Goto(u, p)
  PROVE  task' \in [User -> Task]
<1>1. [task[u] EXCEPT !.at = p] \in Task BY DEF Task, Stage
<1>2. task' = [task EXCEPT ![u] = [task[u] EXCEPT !.at = p]] BY DEF Goto
<1> QED BY <1>1, <1>2

LEMMA ReadTypes ==
  ASSUME NEW t \in Task
  PROVE  /\ \A e \in 0..MaxEpoch : [t EXCEPT !.at = "members", !.epoch = e] \in Task
         /\ \A S \in SUBSET User : [t EXCEPT !.at = "rotate", !.members = S] \in Task
BY DEF Task

LEMMA ChangeTypes ==
  ASSUME TypeOK, NEW S \in SUBSET User, Change(S)
  PROVE  members' \subseteq User /\ epoch' \in 0..MaxEpoch /\ at' \in [Epoch -> SUBSET User]
BY GroupKeysAssumption DEF TypeOK, Change, Epoch

LEMMA LeaveTypes ==
  ASSUME TypeOK, NEW u \in User, NEW p \in Stage, LeaveTo(u, p)
  PROVE  /\ members' \subseteq User /\ epoch' \in 0..MaxEpoch /\ at' \in [Epoch -> SUBSET User]
         /\ task' \in [User -> Task] /\ owner' \in User \cup {NoUser} /\ left' \in BOOLEAN
         /\ UNCHANGED <<cache, keys, outbox, queue, posted, since, torn>>
<1>1. members \ {u} \in SUBSET User BY DEF TypeOK
<1>2. Change(members \ {u}) /\ Goto(u, p) BY DEF LeaveTo
<1>3. task' \in [User -> Task] BY <1>2, GotoTypes DEF TypeOK
<1>4. owner' \in User \cup {NoUser} BY DEF LeaveTo, TypeOK
<1>5. left' \in BOOLEAN /\ UNCHANGED <<cache, keys, outbox, queue, posted, since, torn>>
  BY DEF LeaveTo, mailVars
<1> QED BY <1>1, <1>2, <1>3, <1>4, <1>5, ChangeTypes

LEMMA DistributeTypes ==
  ASSUME TypeOK, NEW u \in User, NEW S \in SUBSET User, Distribute(u, S), task[u].at = "rotate",
         task[u].epoch \in Epoch
  PROVE  /\ cache' \in [User -> SUBSET User] /\ keys' \in [User -> [Epoch -> User \cup {NoUser}]]
         /\ outbox' \subseteq Envelope /\ task' \in [User -> Task]
         /\ UNCHANGED <<groupVars, queue, posted, since>>
<1> USE DEF TypeOK, Distribute
<1>1. task[u] \in Task /\ task[u].members \subseteq User BY DEF Task
<1>2. cache' \in [User -> SUBSET User] BY <1>1
<1>3. keys' \in [User -> [Epoch -> User \cup {NoUser}]] OBVIOUS
<1>4. outbox' \subseteq Envelope BY DEF KeyFor, Envelope
<1>5. task' \in [User -> Task] BY GroupKeysAssumption DEF Task, Idle
<1> QED BY <1>2, <1>3, <1>4, <1>5

LEMMA TypeStep == TypeOK /\ ReadOK /\ [Next]_vars => TypeOK'
<1> SUFFICES ASSUME TypeOK, ReadOK, [Next]_vars PROVE TypeOK'
  OBVIOUS
<1> USE GroupKeysAssumption DEF TypeOK, mailVars, pastVars, groupVars
<1>1. CASE Create
  <2>1. task' \in [User -> Task] BY <1>1, GotoTypes DEF Create, Stage
  <2>2. members' \subseteq User /\ epoch' \in 0..MaxEpoch /\ at' \in [Epoch -> SUBSET User]
    BY <1>1, ChangeTypes DEF Create
  <2> QED BY <1>1, <2>1, <2>2 DEF Create
<1>2. ASSUME NEW u \in User, NEW v \in User, Add(u, v) PROVE TypeOK'
  <2>1. task' \in [User -> Task] BY <1>2, GotoTypes DEF Add, Stage
  <2>2. members' \subseteq User /\ epoch' \in 0..MaxEpoch /\ at' \in [Epoch -> SUBSET User]
    BY <1>2, ChangeTypes DEF Add
  <2>3. since' \in [User -> Nat] BY <1>2 DEF Add
  <2> QED BY <1>2, <2>1, <2>2, <2>3 DEF Add
<1>3. ASSUME NEW u \in User, NEW v \in User, Kick(u, v) PROVE TypeOK'
  <2>1. task' \in [User -> Task] BY <1>3, GotoTypes DEF Kick, Stage
  <2>2. members' \subseteq User /\ epoch' \in 0..MaxEpoch /\ at' \in [Epoch -> SUBSET User]
    BY <1>3, ChangeTypes DEF Kick
  <2> QED BY <1>3, <2>1, <2>2 DEF Kick
<1>4. ASSUME NEW u \in User, Leave(u) PROVE TypeOK'
  BY <1>4, LeaveTypes DEF Leave, Stage
<1>5. ASSUME NEW u \in User, LeaveByCli(u) PROVE TypeOK'
  <2>1. LeaveTo(u, "epoch") /\ cliLeft' \in BOOLEAN /\ faults' \in 0..MaxFaults
    BY <1>5 DEF LeaveByCli, Fault
  <2> QED BY <2>1, LeaveTypes DEF Stage
<1>6. ASSUME NEW u \in User, Forget(u) PROVE TypeOK'
  BY <1>6 DEF Forget, Idle, Task
<1>7. ASSUME NEW u \in User, ReadEpoch(u) PROVE TypeOK'
  <2>1. [task[u] EXCEPT !.at = "members", !.epoch = epoch] \in Task BY ReadTypes
  <2>2. task' = [task EXCEPT ![u] = [task[u] EXCEPT !.at = "members", !.epoch = epoch]]
    BY <1>7 DEF ReadEpoch
  <2> QED BY <1>7, <2>1, <2>2 DEF ReadEpoch
<1>8. ASSUME NEW u \in User, ReadMembers(u) PROVE TypeOK'
  <2>1. [task[u] EXCEPT !.at = "rotate", !.members = members] \in Task BY ReadTypes
  <2>2. task' = [task EXCEPT ![u] = [task[u] EXCEPT !.at = "rotate", !.members = members]]
    BY <1>8 DEF ReadMembers
  <2> QED BY <1>8, <2>1, <2>2 DEF ReadMembers
<1>9. ASSUME NEW u \in User, Rotate(u) PROVE TypeOK'
  BY <1>9, DistributeTypes DEF Rotate, ReadOK, HasRead, Task
<1>10. ASSUME NEW u \in User, RotatePartly(u) PROVE TypeOK'
  BY <1>10, DistributeTypes DEF RotatePartly, ReadOK, HasRead, Task, Fault
<1>11. ASSUME NEW u \in User, GiveUp(u) PROVE TypeOK'
  BY <1>11 DEF GiveUp, Idle, Fault, Task
<1>12. ASSUME NEW u \in User, Sync(u) PROVE TypeOK'
  BY <1>12 DEF Sync
<1>13. ASSUME NEW u \in User, NEW t \in Text, Compose(u, t) PROVE TypeOK'
  <2>1. PICK e \in Epoch : /\ keys[u][e] # NoUser
                           /\ outbox' = outbox \cup {TextFor(t, u, v, e) : v \in cache[u] \ {u}}
    BY <1>13 DEF Compose, IsLatest, Held
  <2>2. outbox' \subseteq Envelope BY <2>1 DEF TextFor, Envelope
  <2> QED BY <1>13, <2>2 DEF Compose
<1>14. ASSUME NEW m \in outbox, Accept(m) PROVE TypeOK'
  BY <1>14 DEF Accept
<1>15. ASSUME NEW m \in queue, ReceiveKey(m) PROVE TypeOK'
  <2>1. m.to \in User /\ m.epoch \in Epoch /\ m.by \in User BY DEF Envelope
  <2>2. keys' \in [User -> [Epoch -> User \cup {NoUser}]] BY <1>15, <2>1 DEF ReceiveKey
  <2>3. cache' \in [User -> SUBSET User] BY <1>15, <2>1 DEF ReceiveKey
  <2> QED BY <1>15, <2>2, <2>3 DEF ReceiveKey, Ack
<1>16. ASSUME NEW m \in queue, ReceiveText(m) PROVE TypeOK'
  BY <1>16 DEF ReceiveText, Ack
<1>17. CASE UNCHANGED vars BY <1>17 DEF vars
<1> QED BY <1>1, <1>2, <1>3, <1>4, <1>5, <1>6, <1>7, <1>8, <1>9, <1>10, <1>11, <1>12, <1>13,
           <1>14, <1>15, <1>16, <1>17 DEF Next

-----------------------------------------------------------------------------
(* What a change and a stage of a task set, and what they leave alone.     *)

LEMMA GotoSets ==
  ASSUME TypeOK, NEW u \in User, NEW p, Goto(u, p)
  PROVE  /\ task'[u].at = p /\ task'[u].epoch = task[u].epoch
         /\ task'[u].members = task[u].members
         /\ \A x \in User \ {u} : task'[x] = task[x]
BY DEF TypeOK, Task, Goto

LEMMA ChangeSets ==
  ASSUME TypeOK, NEW S \in SUBSET User, Change(S)
  PROVE  /\ epoch' = epoch + 1 /\ epoch' \in Epoch /\ members' = S /\ at'[epoch'] = S
         /\ \A e \in Epoch : e <= epoch => at'[e] = at[e]
BY GroupKeysAssumption DEF TypeOK, Change, Epoch

(* A member's command that changes the group.                              *)
LEMMA CommandSets ==
  ASSUME TypeOK, NEW u \in User
  PROVE  \A S, p : Change(S) /\ Goto(u, p) /\ S \subseteq User =>
           /\ epoch' = epoch + 1 /\ epoch' \in Epoch /\ members' = S /\ at'[epoch'] = S
           /\ \A e \in Epoch : e <= epoch => at'[e] = at[e]
           /\ task'[u].at = p
           /\ \A x \in User \ {u} : task'[x] = task[x]
BY GotoSets, ChangeSets

LEMMA AddSets ==
  ASSUME TypeOK, NEW u \in User, NEW v \in User, Add(u, v)
  PROVE  /\ task[u].at = "idle" /\ u = owner
         /\ epoch' = epoch + 1 /\ epoch' \in Epoch
         /\ members' = members \cup {v} /\ at'[epoch'] = members \cup {v}
         /\ \A e \in Epoch : e <= epoch => at'[e] = at[e]
         /\ task'[u].at = "epoch" /\ \A x \in User \ {u} : task'[x] = task[x]
         /\ since' = [since EXCEPT ![v] = epoch + 1]
         /\ UNCHANGED <<owner, cache, keys, mailVars, torn, cliLeft>>
<1>1. members \cup {v} \subseteq User BY DEF TypeOK
<1>2. Change(members \cup {v}) /\ Goto(u, "epoch") BY DEF Add
<1> QED BY <1>1, <1>2, CommandSets DEF Add, pastVars

LEMMA KickSets ==
  ASSUME TypeOK, NEW u \in User, NEW v \in User, Kick(u, v)
  PROVE  /\ task[u].at = "idle" /\ u = owner /\ u # v
         /\ epoch' = epoch + 1 /\ epoch' \in Epoch
         /\ members' = members \ {v} /\ at'[epoch'] = members \ {v}
         /\ \A e \in Epoch : e <= epoch => at'[e] = at[e]
         /\ task'[u].at = "epoch" /\ \A x \in User \ {u} : task'[x] = task[x]
         /\ UNCHANGED <<owner, cache, keys, mailVars, since, torn, cliLeft>>
<1>1. members \ {v} \subseteq User BY DEF TypeOK
<1>2. Change(members \ {v}) /\ Goto(u, "epoch") BY DEF Kick
<1> QED BY <1>1, <1>2, CommandSets DEF Kick, pastVars

LEMMA LeaveSets ==
  ASSUME TypeOK, NEW u \in User, NEW p, LeaveTo(u, p)
  PROVE  /\ task[u].at = "idle" /\ u \in members
         /\ IF u = owner THEN owner' \in members \ {u} ELSE owner' = owner
         /\ epoch' = epoch + 1 /\ epoch' \in Epoch
         /\ members' = members \ {u} /\ at'[epoch'] = members \ {u}
         /\ \A e \in Epoch : e <= epoch => at'[e] = at[e]
         /\ task'[u].at = p /\ \A x \in User \ {u} : task'[x] = task[x]
         /\ UNCHANGED <<cache, keys, mailVars, since, torn>>
<1>1. members \ {u} \subseteq User BY DEF TypeOK
<1>2. Change(members \ {u}) /\ Goto(u, p) BY DEF LeaveTo
<1> QED BY <1>1, <1>2, CommandSets DEF LeaveTo

LEMMA CreateSets ==
  ASSUME TypeOK, Create
  PROVE  /\ epoch = 0 /\ owner' = Creator
         /\ epoch' = 1 /\ epoch' \in Epoch
         /\ members' = {Creator} /\ at'[1] = {Creator}
         /\ task'[Creator].at = "epoch" /\ \A x \in User \ {Creator} : task'[x] = task[x]
         /\ UNCHANGED <<cache, keys, mailVars, torn, cliLeft>>
<1>1. {Creator} \subseteq User BY GroupKeysAssumption
<1>2. Change({Creator}) /\ Goto(Creator, "epoch") BY DEF Create
<1> QED BY <1>1, <1>2, CommandSets, GroupKeysAssumption DEF Create, pastVars

LEMMA ReadSets ==
  ASSUME TypeOK, NEW u \in User
  PROVE  /\ ReadEpoch(u) =>
              /\ task'[u].at = "members" /\ task'[u].epoch = epoch
              /\ \A x \in User \ {u} : task'[x] = task[x]
         /\ ReadMembers(u) =>
              /\ task'[u].at = "rotate" /\ task'[u].epoch = task[u].epoch
              /\ task'[u].members = members
              /\ \A x \in User \ {u} : task'[x] = task[x]
BY DEF TypeOK, Task, ReadEpoch, ReadMembers

LEMMA IdleSets ==
  ASSUME TypeOK, NEW u \in User, Forget(u) \/ GiveUp(u) \/ Rotate(u) \/ RotatePartly(u)
  PROVE  task'[u].at = "idle" /\ \A x \in User \ {u} : task'[x] = task[x]
BY DEF TypeOK, Forget, GiveUp, Rotate, RotatePartly, Distribute, Idle

LEMMA ReadStep == TypeOK /\ ReadOK /\ [Next]_vars => ReadOK'
<1> SUFFICES ASSUME TypeOK, ReadOK, [Next]_vars PROVE ReadOK'
  OBVIOUS
<1>0. /\ epoch \in 0..MaxEpoch /\ MaxEpoch \in Nat /\ members \subseteq User /\ owner \in User \cup {NoUser}
      /\ Creator \in User /\ NoUser \notin User /\ since \in [User -> Nat]
      /\ \A u \in User : /\ task[u].members \subseteq User /\ task[u].epoch \in 0..MaxEpoch
  BY GroupKeysAssumption DEF TypeOK, Task
<1> USE <1>0 DEF ReadOK, Busy, HasRead, Epoch, groupVars
<1>1. CASE Create
  BY <1>1, CreateSets
<1>2. ASSUME NEW u \in User, NEW v \in User, Add(u, v) PROVE ReadOK'
  BY <1>2, AddSets
<1>21. ASSUME NEW u \in User, NEW v \in User, Kick(u, v) PROVE ReadOK'
  BY <1>21, KickSets
<1>3. ASSUME NEW u \in User, Leave(u) \/ LeaveByCli(u) PROVE ReadOK'
  BY <1>3, LeaveSets DEF Leave, LeaveByCli
<1>4. ASSUME NEW u \in User, Forget(u) \/ GiveUp(u) PROVE ReadOK'
  BY <1>4, IdleSets DEF Forget, GiveUp
<1>5. ASSUME NEW u \in User, ReadEpoch(u) \/ ReadMembers(u) PROVE ReadOK'
  BY <1>5, ReadSets DEF ReadEpoch, ReadMembers
<1>6. ASSUME NEW u \in User, Rotate(u) \/ RotatePartly(u) PROVE ReadOK'
  <2>1. task'[u].at = "idle" /\ \A x \in User \ {u} : task'[x] = task[x]
    BY <1>6, IdleSets
  <2> QED BY <1>6, <2>1 DEF Rotate, RotatePartly, Distribute
<1>7. ASSUME NEW u \in User, Sync(u) \/ \E t \in Text : Compose(u, t) PROVE ReadOK'
  BY <1>7 DEF Sync, Compose
<1>8. ASSUME NEW m \in outbox, Accept(m) PROVE ReadOK'
  BY <1>8 DEF Accept
<1>9. ASSUME NEW m \in queue, ReceiveKey(m) \/ ReceiveText(m) PROVE ReadOK'
  BY <1>9 DEF ReceiveKey, ReceiveText
<1>10. CASE UNCHANGED vars BY <1>10 DEF vars
<1> QED BY <1>1, <1>2, <1>21, <1>3, <1>4, <1>5, <1>6, <1>7, <1>8, <1>9, <1>10 DEF Next

-----------------------------------------------------------------------------
(* The group and those who follow up its changes.                          *)

LEMMA GroupStep == TypeOK /\ GroupOK /\ [Next]_vars => GroupOK'
<1> SUFFICES ASSUME TypeOK, GroupOK, [Next]_vars PROVE GroupOK'
  OBVIOUS
<1>0. /\ epoch \in 0..MaxEpoch /\ MaxEpoch \in Nat /\ members \subseteq User /\ owner \in User \cup {NoUser}
      /\ Creator \in User /\ NoUser \notin User /\ since \in [User -> Nat]
      /\ \A u \in User : /\ task[u].members \subseteq User /\ task[u].epoch \in 0..MaxEpoch
  BY GroupKeysAssumption DEF TypeOK, Task
<1> USE <1>0 DEF GroupOK, Epoch, groupVars
<1>1. CASE Create
  <2>1. epoch' = 1 /\ owner' = Creator /\ members' = {Creator} /\ at'[1] = {Creator}
    BY <1>1, CreateSets
  <2> QED BY <2>1
<1>2. ASSUME NEW u \in User, NEW v \in User, Add(u, v) PROVE GroupOK'
  <2>1. u = owner /\ epoch' = epoch + 1 /\ owner' = owner /\ members' = members \cup {v} /\ at'[epoch'] = members'
    BY <1>2, AddSets
  <2> QED BY <2>1
<1>21. ASSUME NEW u \in User, NEW v \in User, Kick(u, v) PROVE GroupOK'
  <2>1. u = owner /\ u # v /\ epoch' = epoch + 1 /\ owner' = owner /\ members' = members \ {v} /\ at'[epoch'] = members'
    BY <1>21, KickSets
  <2> QED BY <2>1
<1>3. ASSUME NEW u \in User, Leave(u) \/ LeaveByCli(u) PROVE GroupOK'
  <2>1. /\ u \in members /\ IF u = owner THEN owner' \in members \ {u} ELSE owner' = owner
        /\ epoch' = epoch + 1 /\ members' = members \ {u} /\ at'[epoch'] = members'
    BY <1>3, LeaveSets DEF Leave, LeaveByCli
  <2>2. epoch = 0 \/ owner \in members OBVIOUS
  <2> QED BY <2>1, <2>2
<1>4. ASSUME NEW u \in User, Forget(u) \/ GiveUp(u) \/ ReadEpoch(u) \/ ReadMembers(u) PROVE GroupOK'
  BY <1>4 DEF Forget, GiveUp, ReadEpoch, ReadMembers
<1>6. ASSUME NEW u \in User, Rotate(u) \/ RotatePartly(u) PROVE GroupOK'
  BY <1>6 DEF Rotate, RotatePartly, Distribute
<1>7. ASSUME NEW u \in User, Sync(u) \/ \E t \in Text : Compose(u, t) PROVE GroupOK'
  BY <1>7 DEF Sync, Compose
<1>8. ASSUME NEW m \in outbox, Accept(m) PROVE GroupOK'
  BY <1>8 DEF Accept
<1>9. ASSUME NEW m \in queue, ReceiveKey(m) \/ ReceiveText(m) PROVE GroupOK'
  BY <1>9 DEF ReceiveKey, ReceiveText
<1>10. CASE UNCHANGED vars BY <1>10 DEF vars
<1> QED BY <1>1, <1>2, <1>21, <1>3, <1>4, <1>6, <1>7, <1>8, <1>9, <1>10 DEF Next

LEMMA TasksStep == TypeOK /\ ReadOK /\ GroupOK /\ TasksOK /\ [Next]_vars /\ ~cliLeft' => TasksOK'
<1> SUFFICES ASSUME TypeOK, ReadOK, GroupOK, TasksOK, [Next]_vars, ~cliLeft' PROVE TasksOK'
  OBVIOUS
<1>0. /\ epoch \in 0..MaxEpoch /\ MaxEpoch \in Nat /\ members \subseteq User /\ owner \in User \cup {NoUser}
      /\ Creator \in User /\ NoUser \notin User /\ since \in [User -> Nat]
      /\ \A u \in User : /\ task[u].members \subseteq User /\ task[u].epoch \in 0..MaxEpoch
  BY GroupKeysAssumption DEF TypeOK, Task
<1> USE <1>0 DEF ReadOK, GroupOK, TasksOK, Busy, HasRead, Epoch, groupVars
<1>1. CASE Create
  BY <1>1, CreateSets
<1>2. ASSUME NEW u \in User, NEW v \in User, Add(u, v) PROVE TasksOK'
  BY <1>2, AddSets
<1>21. ASSUME NEW u \in User, NEW v \in User, Kick(u, v) PROVE TasksOK'
  BY <1>21, KickSets
<1>3. ASSUME NEW u \in User, Leave(u) PROVE TasksOK'
  BY <1>3, LeaveSets DEF Leave
<1>4. ASSUME NEW u \in User, Forget(u) PROVE TasksOK'
  <2>1. task'[u].at = "idle" /\ \A x \in User \ {u} : task'[x] = task[x]
    BY <1>4, IdleSets
  <2>2. since' = [since EXCEPT ![u] = epoch + 1] /\ UNCHANGED <<members, epoch, owner, at>>
    BY <1>4 DEF Forget
  <2>3. \A v \in User : since'[v] <= epoch => since'[v] = since[v] BY <2>2
  <2> QED BY <2>1, <2>2, <2>3
<1>5. ASSUME NEW u \in User, GiveUp(u) PROVE TasksOK'
  BY <1>5, IdleSets DEF GiveUp
<1>6. ASSUME NEW u \in User, ReadEpoch(u) PROVE TasksOK'
  <2>1. /\ task[u].at = "epoch"
        /\ task'[u].at = "members" /\ task'[u].epoch = epoch
        /\ \A x \in User \ {u} : task'[x] = task[x]
    BY <1>6, ReadSets DEF ReadEpoch
  <2>2. UNCHANGED <<members, epoch, owner, at, since>> BY <1>6 DEF ReadEpoch
  <2>3. u = owner /\ epoch \in 1..epoch /\ u \in members /\ at[epoch] = members BY <2>1
  <2> QED BY <2>1, <2>2, <2>3
<1>7. ASSUME NEW u \in User, ReadMembers(u) PROVE TasksOK'
  <2>1. /\ task[u].at = "members"
        /\ task'[u].at = "rotate" /\ task'[u].epoch = task[u].epoch /\ task'[u].members = members
        /\ \A x \in User \ {u} : task'[x] = task[x]
    BY <1>7, ReadSets DEF ReadMembers
  <2>2. UNCHANGED <<members, epoch, owner, at, since>> BY <1>7 DEF ReadMembers
  <2> QED BY <2>1, <2>2
<1>8. ASSUME NEW u \in User, Rotate(u) \/ RotatePartly(u) PROVE TasksOK'
  BY <1>8, IdleSets DEF Rotate, RotatePartly, Distribute
<1>9. ASSUME NEW u \in User, Sync(u) \/ \E t \in Text : Compose(u, t) PROVE TasksOK'
  BY <1>9 DEF Sync, Compose
<1>10. ASSUME NEW m \in outbox, Accept(m) PROVE TasksOK'
  BY <1>10 DEF Accept
<1>11. ASSUME NEW m \in queue, ReceiveKey(m) \/ ReceiveText(m) PROVE TasksOK'
  BY <1>11 DEF ReceiveKey, ReceiveText
<1>12. CASE UNCHANGED vars BY <1>12 DEF vars
<1>13. ASSUME NEW u \in User, LeaveByCli(u) PROVE FALSE BY <1>13 DEF LeaveByCli
<1> QED BY <1>1, <1>2, <1>21, <1>3, <1>4, <1>5, <1>6, <1>7, <1>8, <1>9, <1>10, <1>11, <1>12, <1>13 DEF Next

-----------------------------------------------------------------------------
(* Who made a key.                                                         *)

Rotates(u) == Rotate(u) \/ RotatePartly(u)

LEMMA NothingMade ==
  ASSUME TypeOK, [Next]_vars, \A u \in User : ~Rotates(u),
         NEW w \in User, NEW e \in Epoch, Made(w, e)'
  PROVE  Made(w, e)
<1> USE GroupKeysAssumption DEF TypeOK, Made, Mail, mailVars
<1>1. CASE Create BY <1>1 DEF Create
<1>2. ASSUME NEW u \in User, NEW v \in User, Add(u, v) \/ Kick(u, v) PROVE Made(w, e)
  BY <1>2 DEF Add, Kick
<1>3. ASSUME NEW u \in User, Leave(u) \/ LeaveByCli(u) PROVE Made(w, e)
  BY <1>3 DEF Leave, LeaveByCli, LeaveTo
<1>4. ASSUME NEW u \in User, Forget(u) PROVE Made(w, e)
  BY <1>4 DEF Forget
<1>5. ASSUME NEW u \in User, GiveUp(u) \/ ReadEpoch(u) \/ ReadMembers(u) \/ Sync(u) PROVE Made(w, e)
  BY <1>5 DEF GiveUp, ReadEpoch, ReadMembers, Sync
<1>6. ASSUME NEW u \in User, NEW t \in Text, Compose(u, t) PROVE Made(w, e)
  <2>1. PICK f \in Epoch : outbox' = outbox \cup {TextFor(t, u, v, f) : v \in cache[u] \ {u}}
    BY <1>6 DEF Compose
  <2> QED BY <1>6, <2>1 DEF Compose, TextFor
<1>7. ASSUME NEW m \in outbox, Accept(m) PROVE Made(w, e)
  BY <1>7 DEF Accept
<1>8. ASSUME NEW m \in queue, ReceiveKey(m) PROVE Made(w, e)
  <2>1. m.to \in User /\ m.epoch \in Epoch /\ m.by \in User BY DEF Envelope
  <2>2. CASE \E u \in User : keys'[u][e] = w
    BY <1>8, <2>1, <2>2 DEF ReceiveKey
  <2> QED BY <1>8, <2>2 DEF ReceiveKey, Ack
<1>9. ASSUME NEW m \in queue, ReceiveText(m) PROVE Made(w, e)
  BY <1>9 DEF ReceiveText, Ack
<1>10. CASE UNCHANGED vars BY <1>10 DEF vars
<1> QED BY <1>1, <1>2, <1>3, <1>4, <1>5, <1>6, <1>7, <1>8, <1>9, <1>10 DEF Next, Rotates

LEMMA OneMade ==
  ASSUME TypeOK, NEW u \in User, Rotates(u),
         NEW w \in User, NEW e \in Epoch, Made(w, e)'
  PROVE  Made(w, e) \/ (w = u /\ e = task[u].epoch)
<1>1. PICK S \in SUBSET User : Distribute(u, S)
  BY DEF TypeOK, Task, Rotates, Rotate, RotatePartly
<1>2. /\ keys' = [keys EXCEPT ![u][task[u].epoch] = u]
      /\ outbox' = outbox \cup {KeyFor(u, v, task[u].epoch) : v \in S} /\ queue' = queue
  BY <1>1 DEF Distribute
<1>3. CASE \E x \in User : keys'[x][e] = w
  BY <1>2, <1>3 DEF TypeOK, Made
<1>4. CASE \E m \in Mail' : m.by = w /\ m.epoch = e
  BY <1>2, <1>4 DEF Made, Mail, KeyFor
<1> QED BY <1>3, <1>4 DEF Made

(* A rotation keys the epoch its task has read, and its owner is who keys. *)
LEMMA MakersStep ==
  TypeOK /\ ReadOK /\ GroupOK /\ TasksOK /\ MakersOK /\ OneMaker /\ [Next]_vars /\ ~cliLeft'
     => MakersOK' /\ OneMaker'
<1> SUFFICES ASSUME TypeOK, ReadOK, GroupOK, TasksOK, MakersOK, OneMaker, [Next]_vars, ~cliLeft'
             PROVE  MakersOK' /\ OneMaker'
  OBVIOUS
<1>0. epoch \in Nat /\ Epoch \subseteq Nat /\ owner \in User \cup {NoUser} /\ NoUser \notin User
  BY GroupKeysAssumption DEF TypeOK, Epoch
<1>1. ASSUME NEW u \in User, Rotates(u) PROVE MakersOK' /\ OneMaker'
  <2>1. /\ task[u].at = "rotate" /\ UNCHANGED <<epoch, owner>>
        /\ task'[u].at = "idle" /\ \A x \in User \ {u} : task'[x] = task[x]
    BY <1>1, IdleSets DEF Rotates, Rotate, RotatePartly, Distribute, groupVars
  <2>2. u = owner /\ task[u].epoch \in Epoch /\ task[u].epoch <= epoch
    BY <2>1 DEF TasksOK, ReadOK, Busy, HasRead
  <2>3. \A w \in User : Made(w, task[u].epoch) => w = u
    BY <2>1, <2>2 DEF MakersOK, HasRead
  <2>4. \A w \in User, e \in Epoch : Made(w, e)' => Made(w, e) \/ (w = u /\ e = task[u].epoch)
    BY <1>1, OneMade
  <2>5. OneMaker' BY <2>3, <2>4 DEF OneMaker
  <2>6. \A x \in User : HasRead(x)' => FALSE
    BY <2>1, <2>2 DEF HasRead, TasksOK, Busy
  <2>7. MakersOK' BY <2>1, <2>2, <2>4, <2>6 DEF MakersOK
  <2> QED BY <2>5, <2>7
<1>2. CASE \A u \in User : ~Rotates(u)
  <2>1. \A w \in User, e \in Epoch : Made(w, e)' => Made(w, e)
    BY <1>2, NothingMade
  <2>2. OneMaker' BY <2>1 DEF OneMaker
  <2> DEFINE Older(w, e) == e <= epoch' /\ (w = owner' \/ e < epoch')
             Free(w, e) == \A x \in User : HasRead(x)' /\ task'[x].epoch = e => w = x
  <2>3. SUFFICES ASSUME NEW w \in User, NEW e \in Epoch, Made(w, e) PROVE Older(w, e) /\ Free(w, e)
    BY <2>1, <2>2 DEF MakersOK
  <2>4. /\ e <= epoch /\ (w = owner \/ e < epoch)
        /\ \A x \in User : HasRead(x) /\ task[x].epoch = e => w = x
    BY <2>3 DEF MakersOK
  <2> USE <1>0
  <2>5. CASE Create
    BY <2>4, <2>5, CreateSets DEF HasRead
  <2>6. ASSUME NEW u \in User, NEW v \in User, Add(u, v) PROVE Older(w, e) /\ Free(w, e)
    <3>1. /\ epoch' = epoch + 1 /\ task'[u].at = "epoch"
          /\ \A x \in User \ {u} : task'[x] = task[x]
      BY <2>6, AddSets
    <3> QED BY <2>4, <3>1 DEF HasRead
  <2>7. ASSUME NEW u \in User, NEW v \in User, Kick(u, v) PROVE Older(w, e) /\ Free(w, e)
    <3>1. /\ epoch' = epoch + 1 /\ task'[u].at = "epoch"
          /\ \A x \in User \ {u} : task'[x] = task[x]
      BY <2>7, KickSets
    <3> QED BY <2>4, <3>1 DEF HasRead
  <2>8. ASSUME NEW u \in User, Leave(u) \/ LeaveByCli(u) PROVE Older(w, e) /\ Free(w, e)
    <3>1. /\ epoch' = epoch + 1 /\ task'[u].at \in {"epoch", "forget"}
          /\ \A x \in User \ {u} : task'[x] = task[x]
      BY <2>8, LeaveSets DEF Leave, LeaveByCli
    <3> QED BY <2>4, <3>1 DEF HasRead
  <2>9. ASSUME NEW u \in User, Forget(u) \/ GiveUp(u) PROVE Older(w, e) /\ Free(w, e)
    <3>1. /\ task'[u].at = "idle" /\ \A x \in User \ {u} : task'[x] = task[x]
          /\ UNCHANGED <<epoch, owner>>
      BY <2>9, IdleSets DEF Forget, GiveUp, groupVars
    <3> QED BY <2>4, <3>1 DEF HasRead
  <2>10. ASSUME NEW u \in User, ReadEpoch(u) PROVE Older(w, e) /\ Free(w, e)
    <3>1. /\ task[u].at = "epoch" /\ task'[u].epoch = epoch
          /\ \A x \in User \ {u} : task'[x] = task[x]
          /\ UNCHANGED <<epoch, owner>>
      BY <2>10, ReadSets DEF ReadEpoch, groupVars
    <3>2. u = owner BY <3>1 DEF TasksOK, Busy
    <3> QED BY <2>4, <3>1, <3>2 DEF HasRead
  <2>11. ASSUME NEW u \in User, ReadMembers(u) PROVE Older(w, e) /\ Free(w, e)
    <3>1. /\ task[u].at = "members" /\ task'[u].epoch = task[u].epoch
          /\ \A x \in User \ {u} : task'[x] = task[x]
          /\ UNCHANGED <<epoch, owner>>
      BY <2>11, ReadSets DEF ReadMembers, groupVars
    <3> QED BY <2>4, <3>1 DEF HasRead
  <2>12. CASE UNCHANGED <<epoch, owner, task>>
    BY <2>4, <2>12 DEF HasRead
  <2>13. ASSUME NEW u \in User, Sync(u) \/ \E t \in Text : Compose(u, t) PROVE UNCHANGED <<epoch, owner, task>>
    BY <2>13 DEF Sync, Compose, groupVars
  <2>14. ASSUME NEW m \in outbox, Accept(m) PROVE UNCHANGED <<epoch, owner, task>>
    BY <2>14 DEF Accept, groupVars
  <2>15. ASSUME NEW m \in queue, ReceiveKey(m) \/ ReceiveText(m) PROVE UNCHANGED <<epoch, owner, task>>
    BY <2>15 DEF ReceiveKey, ReceiveText, groupVars
  <2>16. CASE UNCHANGED vars BY <2>12, <2>16 DEF vars, groupVars
  <2> QED BY <1>2, <2>5, <2>6, <2>7, <2>8, <2>9, <2>10, <2>11, <2>12, <2>13, <2>14, <2>15, <2>16
          DEF Next, Rotates
<1> QED BY <1>1, <1>2

-----------------------------------------------------------------------------
(* Who holds a key.                                                        *)

(* The past of the group stays.                                            *)
LEMMA PastStays ==
  ASSUME TypeOK, [Next]_vars, NEW e \in Epoch, e <= epoch
  PROVE  at'[e] = at[e] /\ epoch <= epoch'
<1>0. epoch \in Nat BY GroupKeysAssumption DEF TypeOK
<1> USE <1>0 DEF groupVars
<1>1. CASE Create BY <1>1, ChangeSets, GroupKeysAssumption DEF Create
<1>2. ASSUME NEW u \in User, NEW v \in User, Add(u, v) PROVE at'[e] = at[e] /\ epoch <= epoch'
  BY <1>2, AddSets
<1>3. ASSUME NEW u \in User, NEW v \in User, Kick(u, v) PROVE at'[e] = at[e] /\ epoch <= epoch'
  BY <1>3, KickSets
<1>4. ASSUME NEW u \in User, Leave(u) \/ LeaveByCli(u) PROVE at'[e] = at[e] /\ epoch <= epoch'
  BY <1>4, LeaveSets DEF Leave, LeaveByCli
<1>5. CASE UNCHANGED <<at, epoch>> BY <1>5
<1>6. ASSUME NEW u \in User, Forget(u) \/ GiveUp(u) \/ ReadEpoch(u) \/ ReadMembers(u)
      PROVE  UNCHANGED <<at, epoch>>
  BY <1>6 DEF Forget, GiveUp, ReadEpoch, ReadMembers
<1>7. ASSUME NEW u \in User, Rotate(u) \/ RotatePartly(u) PROVE UNCHANGED <<at, epoch>>
  BY <1>7 DEF Rotate, RotatePartly, Distribute
<1>8. ASSUME NEW u \in User, Sync(u) \/ \E t \in Text : Compose(u, t) PROVE UNCHANGED <<at, epoch>>
  BY <1>8 DEF Sync, Compose
<1>9. ASSUME NEW m \in outbox, Accept(m) PROVE UNCHANGED <<at, epoch>>
  BY <1>9 DEF Accept
<1>10. ASSUME NEW m \in queue, ReceiveKey(m) \/ ReceiveText(m) PROVE UNCHANGED <<at, epoch>>
  BY <1>10 DEF ReceiveKey, ReceiveText
<1>11. CASE UNCHANGED vars BY <1>11 DEF vars
<1> QED BY <1>1, <1>2, <1>3, <1>4, <1>5, <1>6, <1>7, <1>8, <1>9, <1>10, <1>11 DEF Next

(* Apart from a rotation, a key comes only out of the mail, and no key     *)
(* gets into it.                                                           *)
LEMMA KeysFlow ==
  ASSUME TypeOK, [Next]_vars, \A u \in User : ~Rotates(u)
  PROVE  /\ \A u \in User, e \in Epoch :
              \/ keys'[u][e] \in {keys[u][e], NoUser}
              \/ \E m \in queue : IsKey(m) /\ u = m.to /\ e = m.epoch
         /\ \A m \in Mail' : IsKey(m) => m \in Mail
<1> DEFINE Flow == /\ \A u \in User, e \in Epoch :
                        \/ keys'[u][e] \in {keys[u][e], NoUser}
                        \/ \E m \in queue : IsKey(m) /\ u = m.to /\ e = m.epoch
                   /\ \A m \in Mail' : IsKey(m) => m \in Mail
<1> USE DEF mailVars, Mail
<1>1. CASE Create BY <1>1 DEF Create
<1>2. ASSUME NEW u \in User, NEW v \in User, Add(u, v) \/ Kick(u, v) PROVE Flow
  BY <1>2 DEF Add, Kick
<1>3. ASSUME NEW u \in User, Leave(u) \/ LeaveByCli(u) PROVE Flow
  BY <1>3 DEF Leave, LeaveByCli, LeaveTo
<1>4. ASSUME NEW u \in User, Forget(u) PROVE Flow
  BY <1>4 DEF Forget, TypeOK
<1>5. ASSUME NEW u \in User, GiveUp(u) \/ ReadEpoch(u) \/ ReadMembers(u) \/ Sync(u) PROVE Flow
  BY <1>5 DEF GiveUp, ReadEpoch, ReadMembers, Sync
<1>6. ASSUME NEW u \in User, NEW t \in Text, Compose(u, t) PROVE Flow
  <2>1. PICK f \in Epoch : outbox' = outbox \cup {TextFor(t, u, v, f) : v \in cache[u] \ {u}}
    BY <1>6 DEF Compose
  <2>2. \A v : ~IsKey(TextFor(t, u, v, f)) BY GroupKeysAssumption DEF IsKey, TextFor
  <2> QED BY <1>6, <2>1, <2>2 DEF Compose
<1>7. ASSUME NEW m \in outbox, Accept(m) PROVE Flow
  BY <1>7 DEF Accept
<1>8. ASSUME NEW m \in queue, ReceiveKey(m) PROVE Flow
  BY <1>8 DEF ReceiveKey, TypeOK, Ack
<1>9. ASSUME NEW m \in queue, ReceiveText(m) PROVE Flow
  BY <1>9 DEF ReceiveText, Ack
<1>10. CASE UNCHANGED vars BY <1>10 DEF vars
<1> QED BY <1>1, <1>2, <1>3, <1>4, <1>5, <1>6, <1>7, <1>8, <1>9, <1>10 DEF Next, Rotates

(* What a rotation does with the keys and the mail.                        *)
LEMMA RotationSets ==
  ASSUME TypeOK, ReadOK, NEW u \in User, Rotates(u)
  PROVE  /\ task[u].at = "rotate" /\ task[u].epoch \in Epoch /\ UNCHANGED <<groupVars, queue, since>>
         /\ keys' = [keys EXCEPT ![u][task[u].epoch] = u]
         /\ \E S \in SUBSET (task[u].members \ {u}) :
              /\ outbox' = outbox \cup {KeyFor(u, v, task[u].epoch) : v \in S}
              /\ ~torn' => S = task[u].members \ {u}
BY DEF Rotates, Rotate, RotatePartly, Distribute, ReadOK, HasRead

LEMMA HoldersStep ==
  TypeOK /\ ReadOK /\ TasksOK /\ MakersOK /\ HoldersOK /\ [Next]_vars => HoldersOK'
<1> SUFFICES ASSUME TypeOK, ReadOK, TasksOK, MakersOK, HoldersOK, [Next]_vars PROVE HoldersOK'
  OBVIOUS
<1>1. ASSUME NEW u \in User, NEW e \in Epoch, keys[u][e] # NoUser PROVE u \in at'[e]
  <2>1. keys[u][e] \in User BY <1>1 DEF TypeOK
  <2>2. e <= epoch BY <2>1 DEF MakersOK, Made
  <2> QED BY <1>1, <2>2, PastStays DEF HoldersOK
<1>2. ASSUME NEW m \in Mail, IsKey(m) PROVE m.epoch \in Epoch /\ m.to \in User /\ m.to \in at'[m.epoch]
  <2>1. m.epoch \in Epoch /\ m.by \in User /\ m.to \in User BY <1>2 DEF TypeOK, Mail, Envelope
  <2>2. m.epoch <= epoch BY <1>2, <2>1 DEF MakersOK, Made
  <2> QED BY <1>2, <2>1, <2>2, PastStays DEF HoldersOK
<1>3. ASSUME NEW u \in User, Rotates(u) PROVE HoldersOK'
  <2>1. PICK S \in SUBSET (task[u].members \ {u}) :
           outbox' = outbox \cup {KeyFor(u, v, task[u].epoch) : v \in S}
    BY <1>3, RotationSets
  <2>2. /\ keys' = [keys EXCEPT ![u][task[u].epoch] = u] /\ queue' = queue /\ at' = at
        /\ task[u].at = "rotate" /\ task[u].epoch \in Epoch
    BY <1>3, RotationSets DEF groupVars
  <2>3. u \in at[task[u].epoch] /\ S \subseteq at[task[u].epoch]
    BY <2>2 DEF TasksOK, HasRead
  <2>4. \A x \in User, e \in Epoch : keys'[x][e] # NoUser => x \in at'[e]
    BY <1>1, <2>2, <2>3 DEF TypeOK
  <2>5. \A m \in Mail' : IsKey(m) => m.to \in at'[m.epoch]
    BY <1>2, <2>1, <2>2, <2>3 DEF Mail, KeyFor
  <2> QED BY <2>4, <2>5 DEF HoldersOK
<1>4. CASE \A u \in User : ~Rotates(u)
  <2>1. \A x \in User, e \in Epoch : keys'[x][e] # NoUser => x \in at'[e]
    BY <1>1, <1>2, <1>4, KeysFlow DEF Mail
  <2>2. \A m \in Mail' : IsKey(m) => m.to \in at'[m.epoch]
    BY <1>2, <1>4, KeysFlow
  <2> QED BY <2>1, <2>2 DEF HoldersOK
<1> QED BY <1>3, <1>4

-----------------------------------------------------------------------------
(* Whom a key reaches.                                                     *)

Served(v, w, e) == keys[v][e] = w \/ KeyFor(w, v, e) \in Mail

(* Who has been there since an epoch was there before the step, too.       *)
LEMMA SinceStays ==
  ASSUME TypeOK, [Next]_vars, NEW v \in User, NEW e \in Epoch, e <= epoch,
         v \in members', since'[v] <= e
  PROVE  v \in members /\ since[v] <= e
<1>0. epoch \in Nat /\ e \in Nat /\ since \in [User -> Nat]
  BY GroupKeysAssumption DEF TypeOK, Epoch
<1> USE <1>0 DEF groupVars
<1>1. CASE Create BY <1>1 DEF Create, Change, Epoch
<1>2. ASSUME NEW u \in User, NEW x \in User, Add(u, x) PROVE v \in members /\ since[v] <= e
  <2>1. members' = members \cup {x} /\ since' = [since EXCEPT ![x] = epoch + 1]
    BY <1>2, AddSets
  <2>2. v # x BY <2>1
  <2> QED BY <2>1, <2>2
<1>3. ASSUME NEW u \in User, NEW x \in User, Kick(u, x) PROVE v \in members /\ since[v] <= e
  BY <1>3, KickSets
<1>4. ASSUME NEW u \in User, Leave(u) \/ LeaveByCli(u) PROVE v \in members /\ since[v] <= e
  BY <1>4, LeaveSets DEF Leave, LeaveByCli
<1>5. ASSUME NEW u \in User, Forget(u) PROVE v \in members /\ since[v] <= e
  <2>1. members' = members /\ since' = [since EXCEPT ![u] = epoch + 1] BY <1>5 DEF Forget
  <2>2. v # u BY <2>1
  <2> QED BY <2>1, <2>2
<1>6. CASE UNCHANGED <<members, since>> BY <1>6
<1>7. ASSUME NEW u \in User, GiveUp(u) \/ ReadEpoch(u) \/ ReadMembers(u) \/ Sync(u)
      PROVE  UNCHANGED <<members, since>>
  BY <1>7 DEF GiveUp, ReadEpoch, ReadMembers, Sync
<1>8. ASSUME NEW u \in User, Rotate(u) \/ RotatePartly(u) PROVE UNCHANGED <<members, since>>
  BY <1>8 DEF Rotate, RotatePartly, Distribute
<1>9. ASSUME NEW u \in User, NEW t \in Text, Compose(u, t) PROVE UNCHANGED <<members, since>>
  BY <1>9 DEF Compose
<1>10. ASSUME NEW m \in outbox, Accept(m) PROVE UNCHANGED <<members, since>>
  BY <1>10 DEF Accept
<1>11. ASSUME NEW m \in queue, ReceiveKey(m) \/ ReceiveText(m) PROVE UNCHANGED <<members, since>>
  BY <1>11 DEF ReceiveKey, ReceiveText
<1>12. CASE UNCHANGED vars BY <1>12 DEF vars
<1> QED BY <1>1, <1>2, <1>3, <1>4, <1>5, <1>6, <1>7, <1>8, <1>9, <1>10, <1>11, <1>12 DEF Next

(* Without a rotation, whoever is served stays so.                         *)
LEMMA ServedStays ==
  ASSUME TypeOK, OneMaker, [Next]_vars, \A u \in User : ~Rotates(u),
         NEW v \in User, NEW w \in User, NEW e \in Epoch, e <= epoch, since'[v] <= e,
         Made(w, e), Served(v, w, e)
  PROVE  Served(v, w, e)'
<1> USE DEF mailVars, Mail, Served
<1>1. CASE Create BY <1>1 DEF Create, KeyFor
<1>2. ASSUME NEW u \in User, NEW x \in User, Add(u, x) \/ Kick(u, x) PROVE Served(v, w, e)'
  BY <1>2 DEF Add, Kick, KeyFor
<1>3. ASSUME NEW u \in User, Leave(u) \/ LeaveByCli(u) PROVE Served(v, w, e)'
  BY <1>3 DEF Leave, LeaveByCli, LeaveTo, KeyFor
<1>4. ASSUME NEW u \in User, Forget(u) PROVE Served(v, w, e)'
  <2>1. since' = [since EXCEPT ![u] = epoch + 1] /\ outbox' = outbox /\ queue' = queue
        /\ keys' = [keys EXCEPT ![u] = [f \in Epoch |-> NoUser]]
    BY <1>4 DEF Forget
  <2>2. since \in [User -> Nat] /\ keys \in [User -> [Epoch -> User \cup {NoUser}]]
        /\ epoch \in Nat /\ e \in Nat
    BY GroupKeysAssumption DEF TypeOK, Epoch
  <2>3. v # u BY <2>1, <2>2
  <2> QED BY <2>1, <2>2, <2>3 DEF KeyFor
<1>5. ASSUME NEW u \in User, GiveUp(u) \/ ReadEpoch(u) \/ ReadMembers(u) \/ Sync(u)
      PROVE  Served(v, w, e)'
  BY <1>5 DEF GiveUp, ReadEpoch, ReadMembers, Sync, KeyFor
<1>6. ASSUME NEW u \in User, NEW t \in Text, Compose(u, t) PROVE Served(v, w, e)'
  BY <1>6 DEF Compose, KeyFor
<1>7. ASSUME NEW m \in outbox, Accept(m) PROVE Served(v, w, e)'
  BY <1>7 DEF Accept, KeyFor
<1>8. ASSUME NEW m \in queue, ReceiveKey(m) PROVE Served(v, w, e)'
  <2>1. m.to \in User /\ m.epoch \in Epoch /\ m.by \in User BY DEF TypeOK, Envelope
  <2>2. keys' = [keys EXCEPT ![m.to][m.epoch] = m.by] /\ outbox' = outbox
        /\ queue \ {m} \subseteq queue'
    BY <1>8 DEF ReceiveKey, Ack
  <2>3. CASE m.to = v /\ m.epoch = e
    <3>1. m.by = w BY <2>1, <2>3 DEF OneMaker, Made
    <3> QED BY <2>1, <2>2, <2>3, <3>1 DEF TypeOK
  <2>4. CASE m.to # v \/ m.epoch # e
    <3>1. m # KeyFor(w, v, e) BY <2>4 DEF KeyFor
    <3>2. keys'[v][e] = keys[v][e] BY <2>1, <2>2, <2>4 DEF TypeOK
    <3> QED BY <2>2, <3>1, <3>2 DEF KeyFor
  <2> QED BY <2>3, <2>4
<1>9. ASSUME NEW m \in queue, ReceiveText(m) PROVE Served(v, w, e)'
  <2>1. m # KeyFor(w, v, e) BY <1>9 DEF ReceiveText, IsKey, KeyFor
  <2> QED BY <1>9, <2>1 DEF ReceiveText, Ack, KeyFor
<1>10. CASE UNCHANGED vars BY <1>10 DEF vars, KeyFor
<1> QED BY <1>1, <1>2, <1>3, <1>4, <1>5, <1>6, <1>7, <1>8, <1>9, <1>10 DEF Next, Rotates

LEMMA ServedStep ==
  TypeOK /\ ReadOK /\ TasksOK /\ MakersOK /\ OneMaker /\ AllServed /\ [Next]_vars => AllServed'
<1> SUFFICES ASSUME TypeOK, ReadOK, TasksOK, MakersOK, OneMaker, AllServed, [Next]_vars PROVE AllServed'
  OBVIOUS
<1>0. members' \subseteq User BY TypeStep DEF TypeOK
<1> SUFFICES ASSUME ~torn', NEW w \in User, NEW e \in Epoch, Made(w, e)',
                    NEW v \in User, v \in members', since'[v] <= e
             PROVE  Served(v, w, e)'
  BY <1>0 DEF AllServed, Served
<1>1. ~torn
  <2> USE DEF pastVars
  <2>1. ASSUME NEW u \in User, Forget(u) \/ GiveUp(u) \/ ReadEpoch(u) \/ ReadMembers(u) \/ Sync(u)
        PROVE  ~torn
    BY <2>1 DEF Forget, GiveUp, ReadEpoch, ReadMembers, Sync
  <2>2. ASSUME NEW u \in User, Leave(u) \/ LeaveByCli(u) \/ Rotate(u) \/ RotatePartly(u) PROVE ~torn
    BY <2>2 DEF Leave, LeaveByCli, LeaveTo, Rotate, RotatePartly
  <2>3. ASSUME NEW u \in User, NEW x \in User, Add(u, x) \/ Kick(u, x) PROVE ~torn
    BY <2>3 DEF Add, Kick
  <2>4. ASSUME NEW u \in User, NEW t \in Text, Compose(u, t) PROVE ~torn
    BY <2>4 DEF Compose
  <2>5. ASSUME NEW m \in outbox, Accept(m) PROVE ~torn
    BY <2>5 DEF Accept
  <2>6. ASSUME NEW m \in queue, ReceiveKey(m) \/ ReceiveText(m) PROVE ~torn
    BY <2>6 DEF ReceiveKey, ReceiveText
  <2>7. CASE Create BY <2>7 DEF Create
  <2>8. CASE UNCHANGED vars BY <2>8 DEF vars
  <2> QED BY <2>1, <2>2, <2>3, <2>4, <2>5, <2>6, <2>7, <2>8 DEF Next
<1>2. CASE \A u \in User : ~Rotates(u)
  <2>1. Made(w, e) BY <1>2, NothingMade
  <2>2. e <= epoch BY <2>1 DEF MakersOK
  <2>3. v \in members /\ since[v] <= e BY <2>2, SinceStays
  <2>4. Served(v, w, e) BY <1>1, <2>1, <2>3 DEF AllServed, Served
  <2> QED BY <1>2, <2>1, <2>2, <2>4, ServedStays
<1>3. ASSUME NEW u \in User, Rotates(u) PROVE Served(v, w, e)'
  <2>1. PICK S \in SUBSET (task[u].members \ {u}) :
           /\ outbox' = outbox \cup {KeyFor(u, x, task[u].epoch) : x \in S}
           /\ S = task[u].members \ {u}
    BY <1>3, RotationSets
  <2>2. /\ keys' = [keys EXCEPT ![u][task[u].epoch] = u] /\ queue' = queue
        /\ members' = members /\ since' = since
        /\ task[u].at = "rotate" /\ task[u].epoch \in Epoch
    BY <1>3, RotationSets DEF groupVars
  <2>3. CASE w = u /\ e = task[u].epoch
    <3>1. v \in task[u].members BY <2>2, <2>3 DEF TasksOK
    <3>2. CASE v = u BY <2>2, <2>3, <3>2 DEF TypeOK, Served
    <3>3. CASE v # u
      <4>1. KeyFor(u, v, e) \in outbox' BY <2>1, <2>3, <3>1, <3>3
      <4> QED BY <2>3, <4>1 DEF Served, Mail, KeyFor
    <3> QED BY <3>2, <3>3
  <2>4. CASE ~(w = u /\ e = task[u].epoch)
    <3>1. Made(w, e) BY <1>3, <2>4, OneMade
    <3>2. e # task[u].epoch BY <2>2, <2>4, <3>1 DEF MakersOK, HasRead
    <3>3. keys'[v][e] = keys[v][e] BY <2>2, <3>2 DEF TypeOK
    <3>4. Served(v, w, e) BY <1>1, <2>2, <3>1 DEF AllServed, Served
    <3> QED BY <2>1, <2>2, <3>3, <3>4 DEF Served, Mail, KeyFor
  <2> QED BY <2>3, <2>4
<1> QED BY <1>2, <1>3

-----------------------------------------------------------------------------
(* The inductive invariant and what follows from it.                       *)

LEMMA IInvInit == Init => IInv
<1> SUFFICES ASSUME Init PROVE IInv
  OBVIOUS
<1> USE GroupKeysAssumption DEF Init
<1>1. TypeOK
  <2>1. task \in [User -> Task] BY DEF Task, Idle
  <2>2. keys \in [User -> [Epoch -> User \cup {NoUser}]] OBVIOUS
  <2>3. at \in [Epoch -> SUBSET User] /\ cache \in [User -> SUBSET User] OBVIOUS
  <2>4. owner \in User \cup {NoUser} /\ since \in [User -> Nat] OBVIOUS
  <2>5. epoch \in 0..MaxEpoch /\ faults \in 0..MaxFaults OBVIOUS
  <2>6. left \in BOOLEAN /\ torn \in BOOLEAN /\ cliLeft \in BOOLEAN OBVIOUS
  <2>7. members = {} /\ outbox = {} /\ queue = {} /\ posted = {} OBVIOUS
  <2> QED BY ONLY <2>1, <2>2, <2>3, <2>4, <2>5, <2>6, <2>7 DEF TypeOK
<1>2. ReadOK /\ GroupOK BY DEF ReadOK, GroupOK, Busy, HasRead, Idle
<1>3. \A w \in User, e \in Epoch : ~Made(w, e) BY DEF Made, Mail
<1>4. TasksOK /\ HoldersOK BY DEF TasksOK, HoldersOK, Busy, HasRead, Idle, Mail
<1> QED BY <1>1, <1>2, <1>3, <1>4 DEF IInv, Core, MakersOK, OneMaker, AllServed

LEMMA CliStays == [Next]_vars /\ ~cliLeft' /\ TypeOK => ~cliLeft
<1> SUFFICES ASSUME [Next]_vars, ~cliLeft' PROVE ~cliLeft
  OBVIOUS
<1> USE DEF pastVars
<1>1. ASSUME NEW u \in User, Forget(u) \/ GiveUp(u) \/ ReadEpoch(u) \/ ReadMembers(u) \/ Sync(u)
      PROVE  ~cliLeft
  BY <1>1 DEF Forget, GiveUp, ReadEpoch, ReadMembers, Sync
<1>2. ASSUME NEW u \in User, Leave(u) \/ LeaveByCli(u) \/ Rotate(u) \/ RotatePartly(u) PROVE ~cliLeft
  BY <1>2 DEF Leave, LeaveByCli, Rotate, RotatePartly
<1>3. ASSUME NEW u \in User, NEW x \in User, Add(u, x) \/ Kick(u, x) PROVE ~cliLeft
  BY <1>3 DEF Add, Kick
<1>4. ASSUME NEW u \in User, NEW t \in Text, Compose(u, t) PROVE ~cliLeft
  BY <1>4 DEF Compose
<1>5. ASSUME NEW m \in outbox, Accept(m) PROVE ~cliLeft
  BY <1>5 DEF Accept
<1>6. ASSUME NEW m \in queue, ReceiveKey(m) \/ ReceiveText(m) PROVE ~cliLeft
  BY <1>6 DEF ReceiveKey, ReceiveText
<1>7. CASE Create BY <1>7 DEF Create
<1>8. CASE UNCHANGED vars BY <1>8 DEF vars
<1> QED BY <1>1, <1>2, <1>3, <1>4, <1>5, <1>6, <1>7, <1>8 DEF Next

LEMMA IInvStep == IInv /\ [Next]_vars => IInv'
<1> SUFFICES ASSUME IInv, [Next]_vars PROVE IInv'
  OBVIOUS
<1>1. TypeOK /\ ReadOK /\ GroupOK BY DEF IInv
<1>2. TypeOK' /\ ReadOK' /\ GroupOK' BY <1>1, TypeStep, ReadStep, GroupStep
<1>3. ASSUME ~cliLeft' PROVE Core'
  <2>1. Core BY <1>1, <1>3, CliStays DEF IInv
  <2>2. TasksOK' BY <1>1, <1>3, <2>1, TasksStep DEF Core
  <2>3. MakersOK' /\ OneMaker' BY <1>1, <1>3, <2>1, MakersStep DEF Core
  <2>4. HoldersOK' BY <1>1, <2>1, HoldersStep DEF Core
  <2>5. AllServed' BY <1>1, <2>1, ServedStep DEF Core
  <2> QED BY <2>2, <2>3, <2>4, <2>5 DEF Core
<1> QED BY <1>2, <1>3 DEF IInv

(* The invariant holds of rotation, distribution and use of the keys       *)
(* (groups.rs, messaging.rs).                                              *)
THEOREM IInvAlways == Spec => []IInv
BY IInvInit, IInvStep, PTL DEF Spec

(* Every variable keeps its type.                                          *)
THEOREM TypesCorrect == Spec => []TypeOK
<1>1. IInv => TypeOK BY DEF IInv
<1> QED BY <1>1, IInvAlways, PTL

(* However late and often the envelopes of store_group_key arrive, the     *)
(* members that hold a key for an epoch hold the same one.                 *)
THEOREM EpochsHaveOneKey == Spec => []OneKeyPerEpoch
<1>1. IInv => OneKeyPerEpoch
  <2> SUFFICES ASSUME IInv, ~cliLeft, NEW u \in User, NEW v \in User, NEW e \in Epoch,
                      keys[u][e] # NoUser, keys[v][e] # NoUser
               PROVE  keys[u][e] = keys[v][e]
    BY DEF OneKeyPerEpoch
  <2>1. keys[u][e] \in User /\ keys[v][e] \in User BY DEF IInv, TypeOK
  <2>2. Made(keys[u][e], e) /\ Made(keys[v][e], e) BY DEF Made
  <2> QED BY <2>1, <2>2 DEF IInv, Core, OneMaker
<1> QED BY <1>1, IInvAlways, PTL

(* rotate_group_key gives no key to anybody outside its epoch.             *)
THEOREM OutsidersHaveNoKey == Spec => []NoOutsiderKey
<1>1. IInv => NoOutsiderKey BY DEF IInv, Core, HoldersOK, NoOutsiderKey
<1> QED BY <1>1, IInvAlways, PTL

(* handle_incoming can decrypt a text that waits for somebody who was      *)
(* there since its epoch, or its key is still to come.                     *)
THEOREM TextsAreReadable == Spec => []TextsReadable
<1>1. IInv => TextsReadable
  <2> SUFFICES ASSUME IInv, ~torn, ~cliLeft, NEW m \in queue, m.to \in members, since[m.to] <= m.epoch
               PROVE  keys[m.to][m.epoch] = m.by \/ KeyFor(m.by, m.to, m.epoch) \in outbox \cup queue
    BY DEF TextsReadable
  <2>1. m.by \in User /\ m.epoch \in Epoch BY DEF IInv, TypeOK, Envelope
  <2>2. Made(m.by, m.epoch) BY DEF Made, Mail
  <2> QED BY <2>1, <2>2 DEF IInv, Core, AllServed, Mail
<1> QED BY <1>1, IInvAlways, PTL
=============================================================================
