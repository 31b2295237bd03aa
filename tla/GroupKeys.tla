----------------------------- MODULE GroupKeys -----------------------------
(***************************************************************************)
(* The content keys of one group (client/src/groups.rs): the client that   *)
(* changes the membership reads the group back, makes a key for the epoch  *)
(* it reads and posts it to every member in sealed envelopes; a member     *)
(* encrypts with the newest key it holds and reads with the key a message  *)
(* names.  Membership changes are single steps here, as GroupAdmin shows   *)
(* they are; the relay passes an envelope on when both ends are members,   *)
(* in any order and more than once, as Relay shows it may.  Deleting the   *)
(* group is left out: it takes its keys with it.                           *)
(***************************************************************************)
EXTENDS Naturals, FiniteSets

CONSTANTS
    User,       \* accounts
    Creator,    \* who creates the group
    NoUser,     \* no user
    Text,       \* group messages
    NoText,     \* no message: the envelope carries a key
    MaxEpoch,   \* bound: membership changes
    MaxFaults   \* bound: commands cut short, and leaves by the CLI

ASSUME GroupKeysAssumption ==
    /\ Creator \in User /\ NoUser \notin User
    /\ NoText \notin Text
    /\ MaxEpoch \in Nat /\ MaxFaults \in Nat

VARIABLES
    members, epoch, owner,  \* the relay's group
    task,       \* task[u]: the membership command u's client is running
    cache,      \* cache[u]: group_members_cache of u
    keys,       \* keys[u][e]: who made the key u holds for epoch e
    outbox,     \* envelopes in their author's outbox
    queue,      \* envelopes pending at the relay
    posted,     \* history: texts that were composed
    at,         \* history: at[e]: the members at epoch e
    since,      \* history: since[u]: the first epoch u kept its keys from
    left,       \* history: the last change was a member's own leave
    torn,       \* history: a rotation was cut short
    cliLeft,    \* history: a member left by `groups remove-member`
    faults

groupVars == <<members, epoch, owner, at, left>>
pastVars == <<torn, cliLeft>>
mailVars == <<outbox, queue, posted>>
vars == <<groupVars, task, cache, keys, mailVars, since, pastVars, faults>>

Epoch == 1..MaxEpoch

(* No command.                                                             *)
Idle == [at |-> "idle", epoch |-> 0, members |-> {}]

KeyFor(u, v, e) ==
    [text |-> NoText, from |-> u, to |-> v, epoch |-> e, by |-> u]

TextFor(t, u, v, e) ==
    [text |-> t, from |-> u, to |-> v, epoch |-> e, by |-> keys[u][e]]

IsKey(m) == m.text = NoText

(* What happens a bounded number of times.                                 *)
Fault == faults < MaxFaults /\ faults' = faults + 1

(* u's client goes on with its command at p.                               *)
Goto(u, p) == task' = [task EXCEPT ![u].at = p]

-----------------------------------------------------------------------------
(* The group at the relay.                                                 *)

(* The membership becomes S, and the key epoch goes up with it.            *)
Change(S) ==
    /\ epoch < MaxEpoch
    /\ members' = S
    /\ epoch' = epoch + 1
    /\ at' = [at EXCEPT ![epoch + 1] = S]

Create ==
    /\ epoch = 0
    /\ Change({Creator})
    /\ owner' = Creator
    /\ since' = [since EXCEPT ![Creator] = 1]
    /\ Goto(Creator, "epoch")
    /\ UNCHANGED <<left, cache, keys, mailVars, pastVars, faults>>

(* groups_add_member, add_member_in_chat.                                  *)
Add(u, v) ==
    /\ task[u].at = "idle" /\ u = owner /\ v \notin members
    /\ Change(members \cup {v})
    /\ since' = [since EXCEPT ![v] = epoch + 1]
    /\ left' = FALSE
    /\ Goto(u, "epoch")
    /\ UNCHANGED <<owner, cache, keys, mailVars, pastVars, faults>>

(* groups_remove_member, remove_member_in_chat: the owner removes another. *)
Kick(u, v) ==
    /\ task[u].at = "idle" /\ u = owner /\ v \in members \ {u}
    /\ Change(members \ {v})
    /\ left' = FALSE
    /\ Goto(u, "epoch")
    /\ UNCHANGED <<owner, cache, keys, mailVars, since, pastVars, faults>>

(* u removes itself, and some heir owns the group if u did; then its       *)
(* client goes on at p.  The last member does not leave here.              *)
LeaveTo(u, p) ==
    /\ task[u].at = "idle" /\ u \in members /\ members # {u}
    /\ Change(members \ {u})
    /\ IF u = owner THEN owner' \in members \ {u} ELSE UNCHANGED owner
    /\ left' = TRUE
    /\ Goto(u, p)
    /\ UNCHANGED <<cache, keys, mailVars, since, torn>>

(* Mutant: the one who leaves rotates the key.                             *)
LeaveRotating(u) == LeaveTo(u, "epoch") /\ UNCHANGED <<cliLeft, faults>>

(* leave_group_in_chat: no rotation, "you're the one departing".           *)
Leave(u) == LeaveTo(u, "forget") /\ UNCHANGED <<cliLeft, faults>>

(* groups_remove_member on oneself rotates as for anybody else.            *)
LeaveByCli(u) == LeaveTo(u, "epoch") /\ Fault /\ cliLeft' = TRUE

(* delete_group_local.                                                     *)
Forget(u) ==
    /\ task[u].at = "forget"
    /\ cache' = [cache EXCEPT ![u] = {}]
    /\ keys' = [keys EXCEPT ![u] = [e \in Epoch |-> NoUser]]
    /\ since' = [since EXCEPT ![u] = epoch + 1]
    /\ task' = [task EXCEPT ![u] = Idle]
    /\ UNCHANGED <<groupVars, mailVars, pastVars, faults>>

(* group_info, as the answer to the change: the epoch first ...            *)
ReadEpoch(u) ==
    /\ task[u].at = "epoch"
    /\ task' = [task EXCEPT ![u].at = "members", ![u].epoch = epoch]
    /\ UNCHANGED <<groupVars, cache, keys, mailVars, since, pastVars, faults>>

(* ... and then the members, perhaps of a later epoch.                     *)
ReadMembers(u) ==
    /\ task[u].at = "members"
    /\ task' = [task EXCEPT ![u].at = "rotate", ![u].members = members]
    /\ UNCHANGED <<groupVars, cache, keys, mailVars, since, pastVars, faults>>

-----------------------------------------------------------------------------
(* The client.                                                             *)

(* cache_group and store_group_key, then one envelope to each of S.        *)
Distribute(u, S) ==
    /\ cache' = [cache EXCEPT ![u] = task[u].members]
    /\ keys' = [keys EXCEPT ![u][task[u].epoch] = u]
    /\ outbox' = outbox \cup {KeyFor(u, v, task[u].epoch) : v \in S}
    /\ task' = [task EXCEPT ![u] = Idle]
    /\ UNCHANGED <<groupVars, queue, posted, since>>

(* Mutant: the key goes to those the client knew before the change.        *)
RotateToCached(u) ==
    /\ task[u].at = "rotate"
    /\ Distribute(u, cache[u] \ {u})
    /\ UNCHANGED <<pastVars, faults>>

(* rotate_group_key.                                                       *)
Rotate(u) ==
    /\ task[u].at = "rotate"
    /\ Distribute(u, task[u].members \ {u})
    /\ UNCHANGED <<pastVars, faults>>

(* The rotation fails or the client dies before the last envelope.         *)
RotatePartly(u) ==
    /\ task[u].at = "rotate"
    /\ Fault
    /\ \E S \in SUBSET (task[u].members \ {u}) :
          S # task[u].members \ {u} /\ Distribute(u, S)
    /\ torn' = TRUE
    /\ UNCHANGED cliLeft

(* The answer to the command is lost, or the client dies before it.        *)
GiveUp(u) ==
    /\ task[u].at # "idle"
    /\ Fault
    /\ task' = [task EXCEPT ![u] = Idle]
    /\ UNCHANGED <<groupVars, cache, keys, mailVars, since, pastVars>>

(* sync_all_groups, ensure_current_key, groups_info, groups_list.          *)
Sync(u) ==
    /\ u \in members
    /\ cache' = [cache EXCEPT ![u] = members]
    /\ UNCHANGED <<groupVars, task, keys, mailVars, since, pastVars, faults>>

(* latest_group_key: the epochs u holds a key for, the newest of them.     *)
Held(u) == {e \in Epoch : keys[u][e] # NoUser}

IsLatest(u, e) == e \in Held(u) /\ \A f \in Held(u) : f <= e

(* compose_group: one envelope to every cached member, with the newest     *)
(* key the client holds, whatever epoch the group is at.                   *)
Compose(u, t) ==
    /\ t \notin posted
    /\ cache[u] \ {u} # {}
    /\ \E e \in Epoch :
          /\ IsLatest(u, e)
          /\ outbox' = outbox \cup {TextFor(t, u, v, e) : v \in cache[u] \ {u}}
    /\ posted' = posted \cup {t}
    /\ UNCHANGED <<groupVars, task, cache, keys, queue, since, pastVars, faults>>

(* handle_send with a group_id: both ends must be members.  An envelope    *)
(* that is refused stays in the outbox and is sent again.                  *)
Accept(m) ==
    /\ m \in outbox
    /\ m.from \in members /\ m.to \in members
    /\ outbox' = outbox \ {m}
    /\ queue' = queue \cup {m}
    /\ UNCHANGED <<groupVars, task, cache, keys, posted, since, pastVars, faults>>

(* The Ack takes the envelope from the relay's queue, unless it is lost.   *)
Ack(m) == queue' = queue \ {m} \/ queue' = queue

(* Mutant: acknowledged before the key is stored, and then the client dies.*)
ReceiveKeyAckFirst(m) ==
    /\ m \in queue /\ IsKey(m)
    /\ queue' = queue \ {m}
    /\ UNCHANGED <<groupVars, task, cache, keys, outbox, posted, since, pastVars, faults>>

(* handle_incoming (GroupKey): INSERT OR REPLACE the key; then the         *)
(* membership is fetched, when the relay answers.                          *)
ReceiveKey(m) ==
    /\ m \in queue /\ IsKey(m)
    /\ keys' = [keys EXCEPT ![m.to][m.epoch] = m.by]
    /\ \/ m.to \in members /\ cache' = [cache EXCEPT ![m.to] = members]
       \/ UNCHANGED cache
    /\ Ack(m)
    /\ UNCHANGED <<groupVars, task, outbox, posted, since, pastVars, faults>>

(* handle_incoming (GroupCiphertext): stored and acknowledged if it can be *)
(* decrypted; otherwise it stays queued.                                   *)
ReceiveText(m) ==
    /\ m \in queue /\ ~IsKey(m)
    /\ keys[m.to][m.epoch] = m.by
    /\ Ack(m)
    /\ UNCHANGED <<groupVars, task, cache, keys, outbox, posted, since, pastVars, faults>>

-----------------------------------------------------------------------------
Init ==
    /\ members = {} /\ epoch = 0 /\ owner = NoUser
    /\ task = [u \in User |-> Idle]
    /\ cache = [u \in User |-> {}]
    /\ keys = [u \in User |-> [e \in Epoch |-> NoUser]]
    /\ outbox = {} /\ queue = {} /\ posted = {}
    /\ at = [e \in Epoch |-> {}]
    /\ since = [u \in User |-> 0]
    /\ left = FALSE /\ torn = FALSE /\ cliLeft = FALSE /\ faults = 0

Next ==
    \/ Create
    \/ \E u, v \in User : Add(u, v) \/ Kick(u, v)
    \/ \E u \in User :
          \/ Leave(u) \/ LeaveByCli(u) \/ Forget(u)
          \/ ReadEpoch(u) \/ ReadMembers(u) \/ Rotate(u) \/ RotatePartly(u) \/ GiveUp(u)
          \/ Sync(u)
          \/ \E t \in Text : Compose(u, t)
    \/ \E m \in outbox : Accept(m)
    \/ \E m \in queue : ReceiveKey(m) \/ ReceiveText(m)

Spec == Init /\ [][Next]_vars

-----------------------------------------------------------------------------
Envelope == [text : Text \cup {NoText}, from : User, to : User,
             epoch : Epoch, by : User]

Task == [at : {"idle", "epoch", "members", "rotate", "forget"},
         epoch : 0..MaxEpoch, members : SUBSET User]

TypeOK ==
    /\ members \subseteq User
    /\ epoch \in 0..MaxEpoch
    /\ owner \in User \cup {NoUser}
    /\ task \in [User -> Task]
    /\ cache \in [User -> SUBSET User]
    /\ keys \in [User -> [Epoch -> User \cup {NoUser}]]
    /\ outbox \subseteq Envelope /\ queue \subseteq Envelope
    /\ posted \subseteq Text
    /\ at \in [Epoch -> SUBSET User]
    /\ since \in [User -> Nat]
    /\ left \in BOOLEAN /\ torn \in BOOLEAN /\ cliLeft \in BOOLEAN
    /\ faults \in 0..MaxFaults

(* All who hold a key for an epoch hold the same one, though it is written *)
(* with INSERT OR REPLACE and delivered late and repeatedly: no epoch is   *)
(* keyed by two clients, as long as nobody who left keys one.              *)
OneKeyPerEpoch ==
    ~cliLeft =>
        \A u, v \in User, e \in Epoch :
            keys[u][e] # NoUser /\ keys[v][e] # NoUser => keys[u][e] = keys[v][e]

(* Whoever was removed, or came later, never gets the key of an epoch it   *)
(* was not in, even if the membership changes between the two reads of     *)
(* group_info (and nobody who left keys an epoch).                         *)
NoOutsiderKey ==
    ~cliLeft => \A u \in User, e \in Epoch : keys[u][e] # NoUser => u \in at[e]

(* A text that waits for someone who has been in the group since the epoch *)
(* of its key can be read: the key is there, or still on its way.          *)
TextsReadable ==
    ~torn /\ ~cliLeft =>
        \A m \in queue :
            /\ ~IsKey(m)
            /\ m.to \in members /\ since[m.to] <= m.epoch
            => \/ keys[m.to][m.epoch] = m.by
               \/ KeyFor(m.by, m.to, m.epoch) \in outbox \cup queue

(* "rotated on every membership change (the server bumps key_epoch; the    *)
(* actor distributes a fresh key for the new epoch)" (groups.rs): once     *)
(* every command is over some member can encrypt for the current epoch.    *)
EpochKeyed ==
    epoch > 0 /\ faults = 0 /\ (\A u \in User : task[u].at = "idle")
        => \E u \in members : keys[u][epoch] # NoUser

(* "Only accept a group key if the sender is actually a member (we check   *)
(* when online ...)" (handle_incoming).                                    *)
KeysFromMembers ==
    [][\A u \in User, e \in Epoch :
          keys'[u][e] # keys[u][e] /\ keys'[u][e] \notin {NoUser, u}
             => keys'[u][e] \in members]_vars
=============================================================================
