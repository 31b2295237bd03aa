# Verification of yapayapa

TLA+ models of yapayapa, an end-to-end encrypted terminal messenger: a Rust
client (`client/`), a relay (`backend/`) and the types they share (`common/`).
TLC checks the models on small instances; TLAPS proves the central invariants
for every value of the constants. Every definition that stands for code is
mapped to its lines in `PROJECT.json`.

Source paths below are relative to the repository.

## The system

Two programs. The **client** keeps a keystore file and an SQLite database in
one data directory, and talks to the **relay** by HTTP requests and by one
WebSocket per open chat or `sync`. The relay keeps users, sessions, a message
queue, delivery receipts and groups in Postgres (or in memory), and, in memory
only, the map of who is online. Message content is sealed by the sending client
and opened by the receiving one.

| Component | State | Operations | Interaction | What makes it correct |
|---|---|---|---|---|
| Relay protocol (`backend/src/ws.rs`, `state.rs`) | `online` map; one task per connection; one FIFO channel each way | register, drain backlog, Send, Ack, ReceiptAck, cleanup | handlers of different connections share the store and `online`, and interleave at every await | no message or receipt lost, duplicated or left waiting for a connected client |
| Queue and receipts (`backend/src/store`) | `message_queue`, `message_status` | enqueue, pending, ack, upsert status, mark notified | called by the handlers, each call may fail | a row is deduplicated for ever; a receipt survives until confirmed |
| Client messaging (`client/src/messaging.rs`, `store.rs`, `chat.rs`) | local history, outbox | compose, flush, handle a frame, `/clear`, sync | at-least-once towards the relay | every message shown once; ticks tell the truth and never go back |
| Group administration (`backend/src/http.rs`, `store/pg.rs`) | group, roles, `key_epoch` | create, add, remove, delete | concurrent requests, several store calls each | cap, one owner, no members in a deleted group, one epoch per membership |
| Group keys (`client/src/groups.rs`, `messaging.rs`) | one key per (group, epoch), cached members | rotate, distribute, install, encrypt, decrypt | driven by membership commands; envelopes travel through the relay | an epoch has one key, only its members hold it, members can read |
| Accounts and sessions (`http.rs`, `auth.rs`, `client/src/commands.rs`) | users, sessions | register, login, logout, expiry | client calls, answers may be lost | a token is its user's own; logout ends it |
| Client keystore (`client/src/keystore.rs`, `session.rs`) | `keystore.json`, `keystore.json.tmp` | create, unlock, set_token, save | several processes on one directory | the only copy of the identity keys is never damaged or exchanged |
| Chat window (`client/src/tui.rs`) | chat list, open chat, loaded history, reply target, prompts, armed confirmations | keys, commands, frames | one event at a time, over the store | what is shown, quoted and destroyed belongs to the open chat |
| Contacts (`store.rs`, `commands.rs`, `tui.rs`, `groups.rs`) | pinned identities, verified marks; the relay's contact list | add, re-pin, verify, list, remove | several processes, prompts that stay open | a verified mark never stands for keys nobody compared; a key is replaced only when asked for |
| Rate limits (`state.rs`) | times of recent hits | `rate_allow` | called by handlers, which race for its lock | at most the limit in any window |
| LAN exchange (`client/src/lan.rs`) | none of its own | rendezvous, handshake, exchange of outboxes | clients over TCP, next to the relay's path | no loss, ticks agree, only the pinned contact, both sides end |
| Attachments and group posts (`attach.rs`, `groups.rs`, `tui.rs`, `http.rs`) | blobs and grants; one envelope per member, one history row | upload, grant, fan out, download | the upload comes between choosing the members and writing to them | whoever is sent an image may open it; the history tells what was sent |
| Cryptography, validation, configuration, HTTP client | none | pure functions and I/O | | |

The hard behaviours are the interleavings of relay handlers at their awaits; cut
links, crashes and retries between client, outbox, queue and receipts;
membership requests made of several store calls; key envelopes that race
membership changes; several client processes over the same files; and a window
whose state refers to lists and chats that change under it.

## Modules

| Module | Models | Composes |
|---|---|---|
| `Delivery` | abstract: who holds a message, and which ticks that justifies | |
| `Relay` | clients, WebSockets, handlers and the two relay tables | refines `Delivery` |
| `RelayProofs` | the inductive invariants of `Relay`, what follows, and that it implements `Delivery` | extends `Relay` |
| `Roster` | abstract: one membership change at a time, each with its epoch | |
| `GroupAdmin` | the group requests, one step per store call | refines `Roster` |
| `GroupAdminProofs` | its inductive invariant, and that it implements `Roster` | extends `GroupAdmin` |
| `GroupKeys` | making, sending, installing and using the content keys | rests on `Roster` and `Relay`, see below |
| `GroupKeysProofs` | its inductive invariant and what follows | extends `GroupKeys` |
| `ChatScreen` | the run loop of the chat window over the local store | |
| `ChatScreenProofs` | its inductive invariant and what follows | extends `ChatScreen` |
| `Accounts` | the relay's account handlers, client commands, keystore file | |
| `AccountsProofs` | its inductive invariant and what follows | extends `Accounts` |
| `Contacts` | one contact: its pinned row, the relay's list, the processes that change them | |
| `ContactsProofs` | its inductive invariant and what follows | extends `Contacts` |
| `RateLimit` | the sliding window for one key | |
| `Posts` | texts and images posted to a group: upload, grants, fan-out, history | extends `RateLimit`, whose actions are part of its own |
| `PostsProofs` | the limiter's bound, that `Posts` runs the limiter, and its own invariant | extends `Posts` |
| `LanExchange` | two peers on the local network, and the relay beside them | |
| `LanExchangeProofs` | its inductive invariant and what follows | extends `LanExchange` |
| `MC*` | model values, message directions, symmetry | extend the module of that name |

Definitions named in a comment starting "Mutant" are plausible slips of the code
(a dropped guard, a swapped order). They stand next to what they would replace
and no action uses them; substituting one must break the property `PROJECT.json`
pairs it with.

### Relay and Delivery

`up[c]` and `down[c]` are the two FIFO directions of connection `c`; `pc[c]` and
`cur[c]` say where its handler stands and with which message. Each handler is
split at every await on the store: `ReadSend`, `UpsertSent`, `PushDeliver` for
`handle_send`; `ReadAck`, `UpsertDelivered`, `PushReceipt` for `handle_ack`. The
start of `handle_socket` (register, drain messages, drain receipts, read) is the
sequence `Startup`. `local`, `outbox` and `inbox` are the clients' tables. The
client deletes an outbox row and advances a tick in two statements; a crash
between them is `CrashInAccepted`, and a crash between the history row and the
outbox row is `CrashInCompose`. `CutLink`, `Quit` and `RelayCrash` lose what is
in flight; each store call has a failing variant.

An account may have several client processes at once on one database: a chat or
window that stays and reconnects (`Window`), and short ones that synchronise and
end (`sync_once`, which `status`, `outbox retry` and the group commands call).
`Connect` does not look at whether others are connected. Each connection
overwrites the account's entry in `online` when its handler first runs
(`Register`), which may be long after it was accepted, and removes the entry only
if it is still its own (`Forget`). `latest[u]` is a history variable, the
connection of `u` that registered last; one that another overtook keeps running
and is pushed nothing until it reconnects (`Overtaken`). `set_state` is a SELECT
(`ReadState`, which leaves the process with what it read in `held`) and an UPDATE
without a condition (`Update`), so two processes can write over each other; the
messages they were at together are `raced`. The second statement, or the first,
may also fail (`SetStateFails`).

A message is its identity. A sealed envelope is readable by its addressee only,
so the text plays no part; the send limit and a failed membership or recipient
check are `RefuseSend`. Connection ids are reused once both ends have forgotten
them, which is what `conn_id` in the code prevents from being confused.

`Delivery` is the promise: custody passes from sender to relay to recipient and
a copy is only given up when the next holder has one; ticks follow custody. A
tick may slip back where two processes raced (`Slip`), custody never does.
`Holders` is the refinement mapping and `ImplementsDelivery` the check.

### GroupAdmin and Roster

A request is a record that advances through the store calls of its handler.
`CheckRequester` and `CheckTarget` read roles that may be stale when the next
call is made. The transaction of an add is three steps, since only the lock taken
by the first keeps the count true until the insert: `LockGroup`, `CountMembers`,
`Insert`; meanwhile (`Locked`) another add, a removal or a deletion waits for the
group's row. `Remove`, `Handover` and `Delete` are transactions of `pg.rs` that
decide nothing on what they read before, each one step. `Abandon` is a handler that goes no further: a failed
call, a dropped connection (axum drops the handler's future) or a crash. The
order of `joined` stands for `joined_at`. No code makes an admin, so the role is
kept in the guards that test it and never given. `Roster`'s actions are what the
in-memory store does under its one mutex, with the roles left out; the handlers
over either store implement it.

### GroupKeys

Membership changes are single steps, which `GroupAdmin` refining `Roster`
justifies. The relay is a bag without order that may hand out the same envelope
again, which is what `Relay` allows. The command of a client is split at
`ReadEpoch` and `ReadMembers`, the two calls of `group_info`, and `Rotate`,
which makes a key for the epoch read and posts it to the members read. A key is
identified by who made it and for which epoch: a client runs one command at a
time, and each reads an epoch at least as new as its own change, so it never
makes two keys for one epoch.

Left out: the last member leaving and deletion of the group (both end its keys),
the order of succession (any member may inherit), failures of `pin_contact`,
and the interval between `handle_send`'s membership check and the enqueue. A
member may also leave by `groups remove-member` with its own name: that code
path rotates afterwards, as somebody no longer in the group. `OneKeyPerEpoch`,
`NoOutsiderKey` and `TextsReadable` do not claim anything once that has
happened (`cliLeft`), and `TextsReadable` not after a rotation was cut short
(`torn`), since the code does not repair one.

### ChatScreen

One action is one event of the `select!` loop handled to its end: while a
handler awaits the network, the window takes no other event. `pick` is `sel_msg`
together with the mode (0 while typing). `armed` is the set of commands whose
`*_armed` flag is up; `Passed(cmd)` are the flags reset before the branch of
`cmd` is reached, which depends on the order of the `if`s in the code. Every
branch that rebuilds the list goes through `Rebuilt` and `ShowFirst`. Ticks,
flushing and reconnects are in `Relay`; the verify prompt and image picker are
modals that take every key until closed. Only one process writes the store.
`asked` is a history variable: for each command, the chat in which it was last
entered for the first time and whether the user has written since.

### Accounts

Processes share one data directory. `json`, `tmp` and `fd` model the two file
names and the file a process has open: `save` truncates the fixed temporary
name, writes, and renames, and a file renamed while another process has it open
is written under its new name. A crash, a lost answer or a failed call or file
operation may happen anywhere and counts against `MaxCuts`. The relay's
register is two store calls. `mem` is the unlocked keystore of a process and
`api` the token its requests carry, which differ when a save failed
(`refresh_token`). Passwords are right; a wrong one ends the command at unlock.
After a signup in the window `key_loss_screen` waits for a key (`shown`) and only
then reads the file back (`Unlock`), whatever another process made of it by then;
a process there, idle or in its window is at rest (`Resting`), with no save under
way.

### Contacts

`row` is the contact's row in the local database, `onRelay` its entry on the
relay's list and `published` what the relay answers when asked who it is.
`Republish` stands for a new installation of the contact and for a relay that
lies: the client cannot tell them apart. A process stands `at` a statement:
`upsert_contact` is a read with its check (`Check`) and a statement of its own
(`Write`), and a command that fetched a key may be overtaken between them by any
other. Windows and commands differ: a window removes, a command adds and lists;
`verify` in a command fetches an unknown contact first and then asks about the row
it reads back, in a window it shows the row. A prompt (`shown`) stays open while
others work, and frames that reach a window with a prompt still pin unknown
senders. An identity whose prekey signature fails is dropped before the store
sees it and is left out.

The properties have exceptions, and each is a window of the code, kept as a
history variable: `crossed` (the contact changed under an open prompt, whose yes
then marks keys nobody looked at: `set_verified` goes by id) and `owed` (a removal the relay
did not confirm, an entry by another session, or an add that stood between its
row and its entry when the contact was removed). Processes interleave freely in
all three. A key pinned between the two statements of an upsert is
overwritten unseen; `KeyKeptOrAsked` says that nothing else is.

### RateLimit and Posts

`log` is the history of all hits let through and `hits` the positions the
limiter still remembers. `rate_allow` takes the time before it takes the lock:
`Arrive` and `Admit`/`Refuse` are two steps, so that a request can be overtaken by
one that brought a later time and made the limiter forget. Such hits (`late`) are
not counted by `WindowBound`; with them the limit can be exceeded.

`Posts` is one author who posts to one group, one post at a time, while the
group changes, its members are cached again by another process (`Sync`),
contacts are removed and the outbox is flushed between any two statements. An
image is uploaded with a grant for each member cached (`PostImage`), waits for
the relay (`Reach`, `Upload`, which pass the limiter), and is then fanned out to
the members cached by then (`Uploaded`); each `Seal` queues one envelope and the
row is written last, under the id of the first. `crossed` are pairs of a post and a member whom another process
cached newly while the post was uploading: only these may be sent an image they
were not granted.
`early` are the posts with an envelope that left before the row existed. An envelope the relay accepted reaches its member
(`Delivery`); what it is encrypted with is `GroupKeys`.

### LanExchange

A peer runs one command at a time. `at` is where `peers connect` stands:
searching, in the handshake (`hello`, `sign`, `auth`), writing what it has
(`send`), or reading (`loop`, with `ack` and `settle` for the statements a frame
leads to). A connection has a buffer of `Cap` frames each way, a writer waits for
room, and an end that closes on unread frames may take along what it sent (TCP's
reset). `Close` shows both outcomes. A signature is what it proves: who is at the
other end; `pinned` says who still has the keys that were pinned. `Compose`,
`SyncSend` and `SyncReceive` are the relay's path for the same messages, taken
between commands, with an Accepted that may be lost. `GiveUp` is the 20-second
timeout of the read loop and the end of the stream; the handshake has no
timeout, so there a peer that hears nothing waits until it is interrupted.

## Runs

| Run | Properties | Shows |
|---|---|---|
| `relay_safety` | `NoLoss TicksAreTrue ConfirmedIsRecorded NoMissedReceipt Consistent TicksNeverRegress ImplementsDelivery` | custody, ticks and receipts with two processes of the author side by side, and that every step is one of `Delivery` |
| `relay_live` | `ShownOnce NoMissedMessage EventuallyStored OutboxDrains` | deduplication; nothing is left unseen for the connection that registered last; every posted message is stored and leaves the outbox, after a failed call once the windows were offline |
| `relay_receipt_race` | `ReceiptKept` (violated) | a receipt is overwritten by the sender's late status write, after a second process of the recipient drained and acked |
| `groups_admin` | `WithinCap NoGhosts OldestOwns ImplementsRoster` | cap, ownership, deletion and refinement under racing requests |
| `groups_ownerless` | `AlwaysManageable` (violated) | an owner's removal that stops half-way |
| `groupkeys` | `OneKeyPerEpoch NoOutsiderKey TextsReadable` | keys agree, stay inside their epoch and reach the readers |
| `chat_screen` | `ScreenShowsOpenChat ListedAreKnown QuoteStaysInChat UnreadIsMarked TwiceAsked MessageWithdraws` | list, open chat, history, badges and confirmations agree |
| `accounts` | `KeysMatchAccount TokenIsOurs EndedIsCleared AccountHasKeys KeystoreKept` | keystore and account agree, whatever is cut short |
| `contacts` | `MarkWasCompared ListedIsPinned KeyKeptOrAsked` | marks stand by compared keys, keys by consent, removals by the relay's list |
| `posts` | `ImagesOpen HistoryMeansAll WaitingIsWaiting WindowBound` | grants cover the fan-out, the history tells what was queued, uploads keep the limit |
| `lan` | `NothingLost TicksAgree OnlyPinnedContacts ExchangeEnds` | two paths, one outbox: no loss; only the pinned contact; both sides end |
| `lan_rendezvous` | `RendezvousMeets` (violated) | peers that dial each other at once take different connections |

`TypeOK` is a conjunct of each inductive invariant and proved with it; where it is
not among the properties of a run it can be added to the configuration.

### Bounds

* `relay_safety`: one message; the author has a window and a process that
  synchronises, the addressee a window, with one connection each; one drop, one
  failed call, no `/clear`. Two processes are the smallest case of a raced
  `set_state` and of a connection overtaken by another process. A process that
  synchronises for the addressee is in `relay_receipt_race` only; the theorems
  are for any.
* `relay_live`: one message, one connection of the author and two of the addressee's
  window, one drop, one failed or refused call, one `/clear`: a reconnect
  overlaps the old handler, whichever registers last; a status write or a send
  fails on a healthy link; a message whose Ack was lost comes back after a
  `/clear`.
* `groups_admin`: four users for three places, two requests at once, six
  epochs: enough for a race for the last place, an heir that leaves during the
  handover, and a deletion or a removal that waits for an add's lock.
* `groupkeys`: three users, four epochs, one text, one mishap. Creation and one
  add use two epochs; a removal and a re-add the other two.
* `chat_screen`: two contacts and a group, two messages with a window of two,
  two first entries. Two requests in different chats are the smallest case of
  a misdirected confirmation. The window of 200 messages is never the limit.
* `accounts`: two processes, two names, two key pairs, three sessions, one cut.
* `contacts`: a window and a command, three keys and two new answers of the
  relay: a key that was compared, one that replaced it, and one that comes
  between the check and the write.
* `posts`: two members, two posts, an upload each, one change of the group or
  the contacts. One upload per two ticks of a clock that goes to three lets the
  window slide past a hit. With a limit of one an overtaken request stays within
  it; the theorem covers the other limits.
* `lan`: two peers that look for each other and a third that looks for one of
  them, two connections of one frame each way, three messages of which one may
  also go by the relay, one interruption and one command per peer. One entry
  between two buffers of one frame always fits, and a second may not:
  `ExchangeEnds` is about exchanges with fewer entries than buffer places, as
  beyond that both sides can wait for room (`lan.rs:327`).

Symmetry is used for the interchangeable connections of one user, for ordinary
members and requests, and for processes and names. Deadlock is not checked where
the system may stop: a chat that is delivered, a window that is quiet, a bound
that is used up.

### Fairness

`FairSpec` of `Relay` assumes weak fairness of `Connect` per window (the chat
loop retries when it is offline, on a 5-second tick; a process that synchronises
need not be started), of `ClientStep` per connection (the loop polls the socket),
of `FinishFrame` per process (a statement that can be taken is) and of
`HandlerStep` per connection (the runtime polls every task, in any order). Nothing
is assumed of cuts, crashes, failures, composition or clearing.

The liveness properties say what follows once there are no more failures, and no
more than the code gives. While no call has failed, a posted message is stored and
leaves the outbox, whatever is cut. A failed or refused call may leave a message
waiting on a healthy link: `handle_send` does not push after a failed status write
(`ws.rs:220`), and the client's tick flushes only when it was offline
(`tui.rs:917`). So after failures both properties ask that the windows concerned
were offline once (`Offline`), and promise nothing before that. A recipient whose
connection was overtaken (`Overtaken`) may wait until it reconnects. The number of
drops is bounded: the code promises nothing while a link flaps for ever.

`FairSpec` of `LanExchange` assumes weak fairness of `Step` per peer: the next
statement of `handshake` or `exchange` when it can be taken, and the timeout of a
read when nothing comes. Nothing is assumed of dialling, interruptions or syncs.

## What the runs found

1. A receipt can be lost (`relay_receipt_race`, `ws.rs:220`): `handle_send`
   enqueues and then writes `SentToRelay, notified`; in between the recipient may
   drain and ack on another connection, and the receipt row is overwritten. The
   author keeps one tick.
2. A group can lose its owner for good (`groups_ownerless`, `http.rs:373`): the
   removal and the handover are separate calls.
3. Peers that look for each other may not meet (`lan_rendezvous`,
   `lan.rs:219`): each dials, each goes on with its own connection, and the
   handshake waits without a timeout for a Hello written to the other one,
   although the comment says that whichever direction connects first is used.

Also met while modelling, and not runs of their own. The first five are stated as
properties in their modules; adding the name to the configuration shows them
violated.

* "Advance a message's state (never downgrade)" (`store.rs:328`) does not hold for two
  processes on one database (`TicksOnlyAdvance`, in `relay_safety`): one reads
  the state for an Accepted, the other writes delivered, the first writes sent.
* Leaving a group in the chat makes an epoch that no one keys (`EpochKeyed`,
  `tui.rs:1397`), and sending is refused until the owner changes the membership
  again, although `groups.rs:3-5` says that keys are rotated on every change.
* A group key is installed without looking at whether its maker is a member
  (`KeysFromMembers`, `messaging.rs:178`), although the comment above says so.
* A confirmation follows the user to another chat (`ConfirmedHere`,
  `tui.rs:869`): `/clear` here, Tab, `/clear` there clears the other chat.
* A no to `/verify` in the window leaves an older verified mark standing
  (`RejectedNotVerified`, `tui.rs:457-459`); the same answer in the command
  clears it (`commands.rs:238-240`).
* A connection that another one of its account overtook in the online map is never
  pushed to again, though it is open: `NoMissedMessage` for every open connection
  instead of the latest is violated in `relay_live`. The other may be a process
  that synchronises beside an open chat, or the chat's own older connection whose
  handler started late; its cleanup then removes the entry, and the chat waits
  until it reconnects. The comment at `ws.rs:119` considers only the order in which
  the newer one registers last.
* A contact re-pinned or removed while a fingerprint prompt is open is then
  marked verified by id, with keys nobody saw: `MarkWasCompared` without
  `crossed`.
* A member whom another process caches while an image is uploaded is sent the image
  and cannot open it (`tui.rs:1575`): `ImagesOpen` without `crossed`. A removal that
  the relay did not confirm is undone by the next list (`tui.rs:1441`):
  `ListedIsPinned` without `owed`.
* An envelope of a group post that is flushed before the post's row exists
  leaves the row waiting for ever (`groups.rs:136`): `WaitingIsWaiting` without
  `early`. A post whose fan-out stops at a member that is no longer a contact
  (`groups.rs:119`) has reached some members and is not in the author's history.
* An overtaken request can pass the limiter beyond its limit (`state.rs:59`
  takes the time before the lock): `WindowBound` without `late`.
* Both sides of a LAN exchange write everything before they read
  (`lan.rs:327`): with more entries than the buffers hold, both wait.
* Two processes that save at once share `keystore.json.tmp`; one may rename the
  other's half-written file, against the comment "atomically rewrite"
  (`keystore.rs:146`). Dropping the conjunct `lone` of `KeystoreKept` shows it.
* Opening a chat marks it read but its own entry keeps the count that was
  computed before (`tui.rs:388`), until Tab comes back to it.
* A group text is sent under one id per member and remembered under the first
  (`groups.rs:122`): replies to it do not resolve elsewhere, and the ticks follow
  one member.
* `/add` and `/img` without an argument are trimmed before they are compared
  with their prefix, which ends in a space, and are sent as a message
  (`tui.rs:571`, `tui.rs:761`).

## Proofs

The eight proof modules are checked by TLAPS without a leaf left out, from the
named assumptions of the modules they are about only: senders, recipients and
owners are functions of the right sets and nobody writes to themselves
(`RelayAssumption`), sets whose size is counted are finite
(`RelayAssumption`, `GroupAdminAssumption`, `MsgAssumption`), limits and bounds
are numbers, the list of chats names every chat once (`OrderAssumption`), and the
values that mean "none" are none of the others (`NoneAssumption`,
`NothingAssumption`, `GroupKeysAssumption`, `ValueAssumption`). Nothing else is
assumed of the number of users, processes, messages, connections, requests or
faults.

**Relay.** `NoLoss` alone is not inductive: an Ack in flight is what allows the
relay to give up its copy, so the invariant must say that an Ack only exists for
a message that was stored. `Consistent` says for each frame in flight (`UpOK`,
`DownOK`), each handler at work (`HandlerOK`) and each row (`CustodyOK`,
`TicksOK`, `StatusOK`, `ShownOK`) what the other parts of the state must then
be. It is an invariant of `relay_safety` too. The proof has one step per action,
with lemmas on `Put`, `Append`, `Tail` and on frames that are concatenated to a
channel. From it follow

* `ConsistentAlways`, `TypesCorrect`;
* `NothingIsLost` (`NoLoss`), `TicksTellTheTruth` (`TicksAreTrue`),
  `ConfirmedMeansRecorded` (`ConfirmedIsRecorded`), `NeverShownTwice`
  (`ShownOnce`);
* `TicksRegressOnlyInRaces` (`TicksNeverRegress`), an action property: what a
  process holds between the two statements of `set_state` is still what the row
  says, unless another process was at the same message or the chat was cleared
  (`HeldOK`).

`NoMessageMissed` (`NoMissedMessage`) and `NoReceiptMissed` (`NoMissedReceipt`)
need two more invariants. `Routed` says that an open connection is the one its
process uses, and that the connection of a user that registered last, while it is
open, is the one the online map leads to (`OnlineIsLatest`): the cleanup of any
other leaves its entry alone. It needs no assumption on the order in which
handlers start or on how many processes an account has. `Served` says, while no
store call has failed, where a pending message or an unconfirmed receipt is for every
drained connection that is the latest of its user: on the connection, with its
process between the two statements of `set_state`, answered by an Ack on its way
back, or in the hand of a handler about to push it. Each step is described once by what it
may take from these places (`Moves`: a frame that is read leaves an answer, what
leaves a hand is pushed, what is newly pending is in a hand), and `Served` follows
from that description instead of from each action; the drain itself puts
whatever is pending on the connection.

**GroupAdmin.** The cap and the absence of ghosts are inductive together with the
types once the requests are known to be well formed: a request at work names
users, and one at its handover has an heir (`Wellformed`); and once it is known
that one add at a time is past the lock and that the room it counted is still
there when it inserts (`LockHeld`), since whatever else changes the members waits
for the lock or makes room. `Sound` is the five of them. From it follow `SoundAlways`,
`TypesCorrect`, `CapHolds` (`WithinCap`), `NobodyInDeletedGroup` (`NoGhosts`) and
`HandlersImplementRoster` (`ImplementsRoster`), which maps the initial state and
every step of every handler to `Roster`, with stale reads and abandoned requests.
`OldestAlwaysOwns` (`OldestOwns`) needs the line of succession (`Lineage`): no two
members joined at the same epoch (`Ordered`), at most one request is at work
until two overlap or one is abandoned (`OneAtWork`), and then the owner is the
first to have joined of the members, except between its removal and the
handover, when there is no owner and the heir that was read is the first
(`Line`).

**Relay implements Delivery** (`RelayImplementsDelivery`). From
`Consistent`: the frame that a step reads says enough of its message for the
step to be the one of `Delivery`: an Accepted means that relay or recipient
holds it, a Send that only the sender does if there is no row, an Ack that the
recipient does. An UPDATE of `set_state` is a `Tick`, a `Slip`, or, where the row does
not change, a `Release` of the outbox row. Steps that leave `outbox`, `queue`, `shows` and `local` alone
are invisible.

**GroupKeys.** `IInv` says who can make a key: only the owner follows up a
change (`TasksOK`), nobody is added meanwhile, so the members it reads were all
members at the epoch it keys; every key that exists anywhere (held, in an outbox
or in the queue, or named by a text: `Made`) has an epoch up to the current one,
and for the current one it is the owner's (`MakersOK`). Hence one maker per
epoch (`OneMaker`) and holders that were members (`HoldersOK`); `AllServed` adds
that a key once made is held by, or on its way to, every member since its epoch.
All but the types are conditional on `cliLeft`, as the properties are:
`EpochsHaveOneKey`, `OutsidersHaveNoKey`, `TextsAreReadable`, `TypesCorrect`.

**Contacts.** A prompt that nothing crossed shows the key of the row
(`PromptShowsRow`), so a yes marks what was compared; a write that was not asked
for goes through a check that saw no other key (`WriteIsChecked`); an add that is
about to tell the relay has a row, and a removal that is about to drop the row
has told the relay, unless `owed` (`Order`), however processes interleave.
`MarksWereCompared`, `KeysAreKept`, `ConfirmedRemovalsStand`.

**RateLimit and Posts.** The limiter remembers every hit that is younger than
the window by the latest time it has seen (`ForgottenIsOld`), and no hit is ahead
of that time; so a request that was not overtaken meets all the hits of any
window it would end, and they are fewer than the limit: `BoundHolds`. Every step
of `Posts` is a step of the limiter or leaves it alone (`PostsAreLimited`), which
carries the bound over (`UploadsBounded`). For the rest, the stage of the process
says what of the post under way is queued, granted and answered, and every member
cached during an upload is granted or `crossed`:
`ImagesAreOpen`, `HistoryIsComplete`, `WaitingPostsWait`.

**LanExchange.** Frames only travel on connections whose reader is open, with
ends that are the two peers of the connection (`NetOK`, `UsesOK`); an Ack in
flight is about a stored message (`FramesOK`, `CurOK`), and so is a row that the
relay saw acked (`RelayOK`): `NothingIsLost` and `TicksAlwaysAgree`. A peer past
the Hello knows its contact (`HelloOK`), and an Auth on the wire comes from one
that knew the reader (`AuthOK`): `ExchangesArePinned`.

**Accounts.** Any process may rename a file that another is still writing, so
nothing can be said of one process and its file alone. `KnownMatch` and
`TokensOurs` therefore speak of every content there is, in either file name or
in memory, once the relay was told of it: its keys are those of its user's
account, its token was issued to that user. `KeystoreMatchesAccount` and
`TokensAreOurs` follow. For `EndedSessionsAreCleared`, `Sessions` says that
a token on its way to `keystore.json` is not an ended one, is in no file yet and
is carried by one process, so that the logout that ends a session is never
overtaken by an older save of it. `Turns` and `KeysHad` hold while processes
take turns: at most one is at work, and it works on the keystore that is in the
file, or registers where there is none. `AccountsHaveKeys` and the action
property `KeystoreIsKept` follow.

**ChatScreen.** The proof sorts the actions by what they do to the list, the
screen and the messages (`NextKind`): they leave them (`Stays`), store a message
(`Posts`), clear the open chat (`Clears`), show a chat of a list (`Shows`) or
close the window (`Closes`). Screen, list and badges are inductive with the
types, given that a rebuilt list has an entry for each chat that is known and
no other (`Loads`, from the rank of each chat among them: the ranks differ and
there are as many as chats). A quote stays in its chat because identities are
given out in order and each to one chat (`IdsAreGiven`): the next message is
quoted by none and is no reply target (`PostedNumbered`). A command that is armed
was asked for and nothing was written since (`ArmedIsAsked`), and the steps that
clear or forget a chat carry out an armed command (`Destruction`), which gives
both action properties. `ScreenIsTheOpenChat`, `ListHoldsKnownChats`,
`QuotesStayInTheirChat`, `UnreadChatsAreMarked`, `DestructionIsAskedTwice`,
`WritingWithdraws`.

The inductive invariants of `Accounts` and `ChatScreen` were checked by TLC on
the instances of `accounts` and `chat_screen` before they were proved; adding
their names to a configuration of the proof modules repeats that.

Only model-checked: `EventuallyStored`, `OutboxDrains` and `ExchangeEnds`. They are
liveness under fairness, which needs ENABLED, and the prover has no rule for it.
Every other property of a passing run is a theorem.

## Not modelled

Cryptography (calls into libraries; an envelope is readable by its addressee, a
signature proves who made it), validation, configuration, argument parsing and
the HTTP client (no state); drawing and line editing; password hashing;
downloads and the local cache of images, export and paging of the history;
deletion of a group together with its keys; service discovery by mDNS beyond
that a peer that searches can be dialled.

## Plan

Written so far: `Relay` with `Delivery`, `GroupAdmin` with `Roster`, `GroupKeys`,
`ChatScreen`, `Accounts`, `Contacts`, `RateLimit` with `Posts`, `LanExchange`, and
the proofs listed above. What is left:

1. Replies to group posts: which member's copy a quoted id names.
2. Deletion of a group together with its keys, in `GroupKeys`.
3. The safety behind `ExchangeEnds`: two peers on one connection whose entries fit
   never both wait for room. The argument counts, for each peer, the entries it
   has still to write, its messages on the wire, the one the other is about to
   ack and the Acks on their way back: together at most `need`. Two full buffers
   would then hold fewer frames than they have places.
4. The same behind `EventuallyStored`: a message not yet stored always has a step
   of the relay or of a client that advances it.
