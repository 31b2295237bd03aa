------------------------------- MODULE Relay -------------------------------
(***************************************************************************)
(* Direct messages between clients through the relay: the client's local   *)
(* history and outbox (client/src/messaging.rs, client/src/store.rs), one  *)
(* WebSocket per connection with a FIFO channel each way, and the relay's  *)
(* per-connection handler tasks (backend/src/ws.rs) over its durable queue *)
(* and receipt table (backend/src/store).                                  *)
(*                                                                         *)
(* An account may have several client processes at once on one database: a *)
(* chat or window, which stays, and short ones that synchronise and end    *)
(* (sync_once).  Each has a connection of its own; the relay pushes to the *)
(* one that registered last.  Every await of a handler that touches the    *)
(* store is a step of its own, and so is every statement of set_state, so  *)
(* handlers and processes interleave there.  A connection may be cut, a    *)
(* client may quit or crash and the relay may crash at any point           *)
(* ("drops"); a store call or a check may fail ("errors"); a user may      *)
(* clear a chat ("clears").                                                *)
(***************************************************************************)
EXTENDS Naturals, SequencesExt

CONSTANTS
    User,       \* accounts
    Client,     \* client processes
    Window,     \* those that stay and reconnect; the others only synchronise
    Account,    \* Account[p]: the user process p runs for
    Msg,        \* message ids, fresh Uuids drawn by compose_direct
    Conn,       \* connection ids (conn_id in ws.rs), reusable once forgotten
    NoConn,     \* no connection
    NoMsg,      \* no message
    Sender,     \* Sender[m]: the author of m
    Recipient,  \* Recipient[m]: its addressee
    Owner,      \* Owner[c]: the client process that opens connection c
    MaxDrops,   \* bound: cut links, client exits, client and relay crashes
    MaxErrors,  \* bound: failed store calls and refused or unreadable messages
    MaxClears   \* bound: /clear commands

ASSUME RelayAssumption ==
    /\ Sender \in [Msg -> User]
    /\ Recipient \in [Msg -> User]
    /\ \A m \in Msg : Sender[m] # Recipient[m]
    /\ Window \subseteq Client
    /\ Account \in [Client -> User]
    /\ Owner \in [Conn -> Client]
    /\ NoConn \notin Conn
    /\ NoMsg \notin Msg
    /\ IsFiniteSet(Msg)
    /\ MaxDrops \in Nat
    /\ MaxErrors \in Nat
    /\ MaxClears \in Nat

VARIABLES
    local,      \* local[m]: state of the sender's history row for m
    outbox,     \* messages in their sender's outbox table
    inbox,      \* messages with a history row at their recipient
    held,       \* held[p]: the frame process p is in set_state for, what it read
    link,       \* link[p]: the connection process p is using
    open,       \* open[c]: frames put on c still travel
    up, down,   \* up[c], down[c]: frames in flight to the relay, to the client
    queue,      \* queue[m]: the relay's message_queue row for m
    status,     \* status[m]: the relay's message_status row for m
    notified,   \* notified[m]: that row's notified flag
    online,     \* online[u]: the connection AppState.online holds for u
    pc, cur,    \* where handler c stands, and the message it is handling
    posted,     \* history: messages that ever reached an outbox
    shows,      \* history: shows[m], times m was stored as new by its recipient
    raced,      \* history: messages two processes were in set_state for at once
    latest,     \* history: latest[u], the connection of u that registered last
    drops, errors, clears

clientVars  == <<local, outbox, inbox, posted, shows, raced, held>>
linkVars    == <<link, open>>
storeVars   == <<queue, status, notified>>
handlerVars == <<online, latest, pc, cur>>
faultVars   == <<drops, errors, clears>>
vars == <<clientVars, linkVars, up, down, storeVars, handlerVars, faultVars>>

-----------------------------------------------------------------------------
(* Frames and the channels that carry them.                                *)

Frame(t, m) == [type |-> t, msg |-> m]

ClientFrame == [type : {"Send", "Ack", "ReceiptAck"}, msg : Msg]
ServerFrame == [type : {"Deliver", "Accepted", "Receipt", "Error"}, msg : Msg]

(* A frame put on channel c of chan, lost when c is no longer open.        *)
Put(chan, c, f) == IF open[c] THEN [chan EXCEPT ![c] = Append(@, f)] ELSE chan

(* One frame of type t for each message of S.                              *)
Frames(t, S) ==
    LET order == SetToSeq(S) IN [i \in 1..Len(order) |-> Frame(t, order[i])]

(* send_if_online: push to the connection the online map holds for u.      *)
PutIfOnline(chan, u, f) ==
    IF online[u] = NoConn THEN chan ELSE Put(chan, online[u], f)

(* The next frame of chan[c] is of type t.                                 *)
NextIs(chan, c, t) == chan[c] # <<>> /\ Head(chan[c]).type = t

-----------------------------------------------------------------------------
(* The client.                                                             *)

(* The states of an outgoing history row, in order; "absent" is no row.     *)
Rank == [absent |-> 0, queued_local |-> 1, sent |-> 2, delivered |-> 3]

LocalState == DOMAIN Rank

(* The frame a process is in set_state for, and the state its SELECT saw.  *)
Idle == [type |-> "none", msg |-> NoMsg, old |-> "absent"]

Held == {Idle} \cup [type : {"Accepted", "Receipt"}, msg : Msg, old : LocalState]

(* Mutant: the comparison is forgotten.                                    *)
AdvanceAlways(old, read, new) == IF old = "absent" THEN old ELSE new

(* The second statement of set_state: the row, which is old by now, is     *)
(* updated if there is one and new is further than what was read.          *)
Advance(old, read, new) ==
    IF old # "absent" /\ read # "absent" /\ Rank[new] > Rank[read] THEN new ELSE old

(* The UPDATE of process p, to state new.                                  *)
Update(p, new) ==
    LET m == held[p].msg
    IN  /\ local' = [local EXCEPT ![m] = Advance(@, held[p].old, new)]
        /\ raced' = IF \E q \in Client \ {p} : held[q].msg = m
                    THEN raced \cup {m} ELSE raced

(* The messages flush_outbox of user u re-sends, given the outbox table o. *)
OutboxOf(u, o) == {m \in o : Sender[m] = u}

(***************************************************************************)
(* compose_direct: write the history row as queued_local, seal, add to the *)
(* outbox; the chat loop then flushes the WHOLE outbox if it believes it   *)
(* is connected.                                                           *)
(***************************************************************************)
Compose(p, m) ==
    LET c == link[p]
    IN  /\ p \in Window /\ Account[p] = Sender[m] /\ held[p] = Idle
        /\ local[m] = "absent" /\ m \notin posted
        /\ local' = [local EXCEPT ![m] = "queued_local"]
        /\ outbox' = outbox \cup {m}
        /\ posted' = posted \cup {m}
        /\ up' = IF c # NoConn /\ open[c]
                 THEN [up EXCEPT ![c] = @ \o Frames("Send", OutboxOf(Sender[m], outbox'))]
                 ELSE up
        /\ UNCHANGED <<inbox, shows, raced, held, linkVars, down, storeVars,
                       handlerVars, faultVars>>

(* The process ends: its socket closes, what it had not read is gone, what *)
(* it had written may still be read by the relay's handler.                *)
CloseClient(p) ==
    LET c == link[p]
    IN  /\ drops < MaxDrops
        /\ drops' = drops + 1
        /\ link' = [link EXCEPT ![p] = NoConn]
        /\ held' = [held EXCEPT ![p] = Idle]
        /\ IF c = NoConn
           THEN UNCHANGED <<open, down>>
           ELSE /\ open' = [open EXCEPT ![c] = FALSE]
                /\ down' = [down EXCEPT ![c] = <<>>]

(* The client dies after the history row of m and before its outbox row.   *)
CrashInCompose(p, m) ==
    /\ p \in Window /\ Account[p] = Sender[m] /\ held[p] = Idle
    /\ local[m] = "absent" /\ m \notin posted
    /\ local' = [local EXCEPT ![m] = "queued_local"]
    /\ CloseClient(p)
    /\ UNCHANGED <<outbox, inbox, posted, shows, raced, up, storeVars, handlerVars,
                   errors, clears>>

(* /quit, the end of sync_once, or a crash between two statements.         *)
Quit(p) ==
    /\ link[p] # NoConn
    /\ CloseClient(p)
    /\ UNCHANGED <<local, outbox, inbox, posted, shows, raced, up, storeVars,
                   handlerVars, errors, clears>>

(* Mutant: drain first, register after.                                    *)
StartupDrainFirst == <<"drain_messages", "drain_receipts", "register", "read">>

(* handle_socket: put the connection in the online map, drain the queue,   *)
(* drain the receipts, read frames.  Registering first is what keeps a     *)
(* message enqueued during the drain from being missed.                    *)
Startup == <<"register", "drain_messages", "drain_receipts", "read">>

After(phase) == Startup[1 + CHOOSE i \in 1..3 : Startup[i] = phase]

(* connect_ws, then flush_outbox before any frame is read; whether other   *)
(* processes of the user are connected is not looked at.                   *)
Connect(c) ==
    LET p == Owner[c]
    IN  /\ link[p] = NoConn /\ pc[c] = "none"
        /\ link' = [link EXCEPT ![p] = c]
        /\ open' = [open EXCEPT ![c] = TRUE]
        /\ up' = [up EXCEPT ![c] = Frames("Send", OutboxOf(Account[p], outbox))]
        /\ down' = [down EXCEPT ![c] = <<>>]
        /\ pc' = [pc EXCEPT ![c] = Startup[1]]
        /\ UNCHANGED <<clientVars, storeVars, online, latest, cur, faultVars>>

(* The client at the other end of c takes the next frame, of type t.       *)
ClientReads(c, t) ==
    /\ link[Owner[c]] = c /\ held[Owner[c]] = Idle
    /\ NextIs(down, c, t)
    /\ down' = [down EXCEPT ![c] = Tail(@)]

(* Mutant: a plain insert under a key of its own.                          *)
TimesStoredAgain(m) == shows[m] + 1

(* handle_incoming: INSERT OR IGNORE by message_id, so a duplicate is not  *)
(* stored again.                                                           *)
TimesStored(m) == IF m \in inbox THEN shows[m] ELSE shows[m] + 1

(* Deliver: store, then Ack, a duplicate included.                         *)
ReceiveDeliver(c) ==
    /\ ClientReads(c, "Deliver")
    /\ LET m == Head(down[c]).msg
       IN  /\ inbox' = inbox \cup {m}
           /\ shows' = [shows EXCEPT ![m] = TimesStored(m)]
           /\ up' = Put(up, c, Frame("Ack", m))
    /\ UNCHANGED <<local, outbox, posted, raced, held, linkVars, storeVars,
                   handlerVars, faultVars>>

(* Deliver whose sender lookup, decryption or insert fails: no Ack.        *)
RejectDeliver(c) ==
    /\ ClientReads(c, "Deliver")
    /\ errors < MaxErrors
    /\ errors' = errors + 1
    /\ UNCHANGED <<clientVars, linkVars, up, storeVars, handlerVars, drops, clears>>

(* Accepted and Receipt: set_state reads the state of the row.             *)
ReadState(c) ==
    /\ \E t \in {"Accepted", "Receipt"} :
         /\ ClientReads(c, t)
         /\ LET m == Head(down[c]).msg
            IN  held' = [held EXCEPT ![Owner[c]] = [type |-> t, msg |-> m, old |-> local[m]]]
    /\ UNCHANGED <<local, outbox, inbox, posted, shows, raced, linkVars, up, storeVars,
                   handlerVars, faultVars>>

(* Accepted: the row becomes sent, then the outbox row is deleted.         *)
ReceiveAccepted(p) ==
    /\ held[p].type = "Accepted"
    /\ Update(p, "sent")
    /\ outbox' = outbox \ {held[p].msg}
    /\ held' = [held EXCEPT ![p] = Idle]
    /\ UNCHANGED <<inbox, posted, shows, linkVars, up, down, storeVars, handlerVars,
                   faultVars>>

(* The client dies between the two.                                        *)
CrashInAccepted(p) ==
    /\ held[p].type = "Accepted"
    /\ Update(p, "sent")
    /\ CloseClient(p)
    /\ UNCHANGED <<outbox, inbox, posted, shows, up, storeVars, handlerVars,
                   errors, clears>>

(* Receipt: persist delivered, whatever state it carries, then ReceiptAck. *)
ReceiveReceipt(p) ==
    /\ held[p].type = "Receipt"
    /\ Update(p, "delivered")
    /\ up' = Put(up, link[p], Frame("ReceiptAck", held[p].msg))
    /\ held' = [held EXCEPT ![p] = Idle]
    /\ UNCHANGED <<outbox, inbox, posted, shows, linkVars, down, storeVars, handlerVars,
                   faultVars>>

(* Mutant: a refused message is given up.                                  *)
ReceiveErrorGivesUp(c) ==
    /\ ClientReads(c, "Error")
    /\ outbox' = outbox \ {Head(down[c]).msg}
    /\ UNCHANGED <<local, inbox, posted, shows, raced, held, linkVars, up, storeVars,
                   handlerVars, faultVars>>

(* Error: printed; the message stays in the outbox.                        *)
ReceiveError(c) ==
    /\ ClientReads(c, "Error")
    /\ UNCHANGED <<clientVars, linkVars, up, storeVars, handlerVars, faultVars>>

(* The client sees the end of a closed stream; frames behind it are lost.  *)
ClientSeesEnd(c) ==
    /\ link[Owner[c]] = c /\ held[Owner[c]] = Idle /\ ~open[c]
    /\ link' = [link EXCEPT ![Owner[c]] = NoConn]
    /\ down' = [down EXCEPT ![c] = <<>>]
    /\ UNCHANGED <<clientVars, open, up, storeVars, handlerVars, faultVars>>

(* clear_chat: user u deletes every row of the chat with v, and with them  *)
(* the memory insert_message dedupes by.                                   *)
ClearChat(u, v) ==
    /\ clears < MaxClears
    /\ clears' = clears + 1
    /\ inbox' = {m \in inbox : ~(Recipient[m] = u /\ Sender[m] = v)}
    /\ local' = [m \in Msg |-> IF Sender[m] = u /\ Recipient[m] = v
                               THEN "absent" ELSE local[m]]
    /\ UNCHANGED <<outbox, posted, shows, raced, held, linkVars, up, down, storeVars,
                   handlerVars, drops, errors>>

-----------------------------------------------------------------------------
(* The relay: handler c of the connection that Owner[c] opened, and the    *)
(* user it is authenticated as.                                            *)

UserOf(c) == Account[Owner[c]]

Phase == {"none", "read", "register", "drain_messages", "drain_receipts",
          "upsert_sent", "push_deliver", "upsert_delivered", "push_receipt"}

Goto(c, phase) == pc' = [pc EXCEPT ![c] = phase]

(* The handler goes on to phase, handling m.                               *)
Handle(c, phase, m) ==
    /\ Goto(c, phase)
    /\ cur' = [cur EXCEPT ![c] = m]

(* The store call, lookup or check the handler is at fails.                *)
Fails ==
    /\ errors < MaxErrors
    /\ errors' = errors + 1
    /\ UNCHANGED <<drops, clears>>

(* set_state fails, say on a locked database: nothing else is done for the *)
(* frame, and the loop goes on with the next.                              *)
SetStateFails(p) ==
    /\ held[p] # Idle
    /\ Fails
    /\ held' = [held EXCEPT ![p] = Idle]
    /\ UNCHANGED <<local, outbox, inbox, posted, shows, raced, linkVars, up, down,
                   storeVars, handlerVars>>

(* The online map gets this connection in place of whatever it held.       *)
Register(c) ==
    /\ pc[c] = "register"
    /\ online' = [online EXCEPT ![UserOf(c)] = c]
    /\ latest' = [latest EXCEPT ![UserOf(c)] = c]
    /\ Goto(c, After("register"))
    /\ UNCHANGED <<clientVars, linkVars, up, down, storeVars, cur, faultVars>>

(* pending_messages: the rows addressed to u that nobody acked.            *)
Pending(u) == {m \in Msg : Recipient[m] = u /\ queue[m] = "pending"}

DrainMessages(c) ==
    /\ pc[c] = "drain_messages"
    /\ down' = IF open[c]
               THEN [down EXCEPT ![c] = @ \o Frames("Deliver", Pending(UserOf(c)))]
               ELSE down
    /\ Goto(c, After("drain_messages"))
    /\ UNCHANGED <<clientVars, linkVars, up, storeVars, online, latest, cur, faultVars>>

(* Mutant: the notified flag is not looked at.                             *)
AllReceipts(u) == {m \in Msg : Sender[m] = u /\ status[m] # "none"}

(* unnotified_receipts: the status rows of u's messages still to confirm.  *)
Unnotified(u) == {m \in Msg : Sender[m] = u /\ status[m] # "none" /\ ~notified[m]}

DrainReceipts(c) ==
    /\ pc[c] = "drain_receipts"
    /\ down' = IF open[c]
               THEN [down EXCEPT ![c] = @ \o Frames("Receipt", Unnotified(UserOf(c)))]
               ELSE down
    /\ Goto(c, After("drain_receipts"))
    /\ UNCHANGED <<clientVars, linkVars, up, storeVars, online, latest, cur, faultVars>>

(* drain_backlog fails: the rest of the drain is skipped, with a warning.  *)
DrainFails(c) ==
    /\ pc[c] \in {"drain_messages", "drain_receipts"}
    /\ Fails
    /\ Goto(c, "read")
    /\ UNCHANGED <<clientVars, linkVars, up, down, storeVars, online, latest, cur>>

(* The handler takes the next frame, of type t.                            *)
HandlerReads(c, t) ==
    /\ pc[c] = "read"
    /\ NextIs(up, c, t)
    /\ up' = [up EXCEPT ![c] = Tail(@)]

(* Mutant: only a row that is still pending counts as a duplicate.         *)
ReadSendPendingOnly(c) ==
    /\ HandlerReads(c, "Send")
    /\ LET m == Head(up[c]).msg
       IN  IF queue[m] # "pending"
           THEN /\ queue' = [queue EXCEPT ![m] = "pending"]
                /\ Handle(c, "upsert_sent", m)
                /\ UNCHANGED down
           ELSE /\ down' = Put(down, c, Frame("Accepted", m))
                /\ UNCHANGED <<queue, pc, cur>>
    /\ UNCHANGED <<clientVars, linkVars, status, notified, online, latest, faultVars>>

(* Mutant: a duplicate is dropped without an answer.                       *)
ReadSendSilent(c) ==
    /\ HandlerReads(c, "Send")
    /\ LET m == Head(up[c]).msg
       IN  IF queue[m] = "absent"
           THEN /\ queue' = [queue EXCEPT ![m] = "pending"]
                /\ Handle(c, "upsert_sent", m)
           ELSE UNCHANGED <<queue, pc, cur>>
    /\ UNCHANGED <<clientVars, linkVars, down, status, notified, online, latest, faultVars>>

(* handle_send up to enqueue_message.  A message already queued, acked or  *)
(* not, is accepted again and nothing else happens.                        *)
ReadSend(c) ==
    /\ HandlerReads(c, "Send")
    /\ LET m == Head(up[c]).msg
       IN  IF queue[m] = "absent"
           THEN /\ queue' = [queue EXCEPT ![m] = "pending"]
                /\ Handle(c, "upsert_sent", m)
                /\ UNCHANGED down
           ELSE /\ down' = Put(down, c, Frame("Accepted", m))
                /\ UNCHANGED <<queue, pc, cur>>
    /\ UNCHANGED <<clientVars, linkVars, status, notified, online, latest, faultVars>>

(* Rate limit, unknown recipient, not both group members, or a failed      *)
(* store call up to enqueue_message: the client is told, nothing changes.  *)
RefuseSend(c) ==
    /\ HandlerReads(c, "Send")
    /\ Fails
    /\ down' = Put(down, c, Frame("Error", Head(up[c]).msg))
    /\ UNCHANGED <<clientVars, linkVars, storeVars, handlerVars>>

(* upsert_status: the row is overwritten, whatever it held.                *)
Upsert(m, s, n) ==
    /\ status' = [status EXCEPT ![m] = s]
    /\ notified' = [notified EXCEPT ![m] = n]

UpsertSent(c) ==
    /\ pc[c] = "upsert_sent"
    /\ Upsert(cur[c], "sent_to_relay", TRUE)
    /\ Goto(c, "push_deliver")
    /\ UNCHANGED <<clientVars, linkVars, up, down, queue, online, latest, cur, faultVars>>

(* The message is queued, but its sender is told of an internal error and  *)
(* its recipient is not pushed anything.                                   *)
UpsertSentFails(c) ==
    /\ pc[c] = "upsert_sent"
    /\ Fails
    /\ down' = Put(down, c, Frame("Error", cur[c]))
    /\ Handle(c, "read", NoMsg)
    /\ UNCHANGED <<clientVars, linkVars, up, storeVars, online, latest>>

(* Push to the recipient if it is online, then answer Accepted.            *)
PushDeliver(c) ==
    /\ pc[c] = "push_deliver"
    /\ LET m == cur[c]
       IN  down' = Put(PutIfOnline(down, Recipient[m], Frame("Deliver", m)),
                       c, Frame("Accepted", m))
    /\ Handle(c, "read", NoMsg)
    /\ UNCHANGED <<clientVars, linkVars, up, storeVars, online, latest, faultVars>>

(* handle_ack up to ack_message, which answers once.                       *)
ReadAck(c) ==
    /\ HandlerReads(c, "Ack")
    /\ LET m == Head(up[c]).msg
       IN  IF queue[m] = "pending" /\ Recipient[m] = UserOf(c)
           THEN /\ queue' = [queue EXCEPT ![m] = "acked"]
                /\ Handle(c, "upsert_delivered", m)
           ELSE UNCHANGED <<queue, pc, cur>>
    /\ UNCHANGED <<clientVars, linkVars, down, status, notified, online, latest, faultVars>>

AckFails(c) ==
    /\ HandlerReads(c, "Ack")
    /\ Fails
    /\ UNCHANGED <<clientVars, linkVars, down, storeVars, handlerVars>>

(* Mutant: pushing the receipt counts as having delivered it.              *)
UpsertDeliveredNotified(c) ==
    /\ pc[c] = "upsert_delivered"
    /\ Upsert(cur[c], "delivered", TRUE)
    /\ Goto(c, "push_receipt")
    /\ UNCHANGED <<clientVars, linkVars, up, down, queue, online, latest, cur, faultVars>>

UpsertDelivered(c) ==
    /\ pc[c] = "upsert_delivered"
    /\ Upsert(cur[c], "delivered", FALSE)
    /\ Goto(c, "push_receipt")
    /\ UNCHANGED <<clientVars, linkVars, up, down, queue, online, latest, cur, faultVars>>

(* The row is acked for good, but no receipt is recorded.                  *)
UpsertDeliveredFails(c) ==
    /\ pc[c] = "upsert_delivered"
    /\ Fails
    /\ Handle(c, "read", NoMsg)
    /\ UNCHANGED <<clientVars, linkVars, up, down, storeVars, online, latest>>

PushReceipt(c) ==
    /\ pc[c] = "push_receipt"
    /\ down' = PutIfOnline(down, Sender[cur[c]], Frame("Receipt", cur[c]))
    /\ Handle(c, "read", NoMsg)
    /\ UNCHANGED <<clientVars, linkVars, up, storeVars, online, latest, faultVars>>

(* ReceiptAck: mark_receipts_notified, on the sender's own rows only.      *)
ReadReceiptAck(c) ==
    /\ HandlerReads(c, "ReceiptAck")
    /\ LET m == Head(up[c]).msg
       IN  notified' = [notified EXCEPT ![m] =
               @ \/ (status[m] # "none" /\ Sender[m] = UserOf(c))]
    /\ UNCHANGED <<clientVars, linkVars, down, queue, status, handlerVars, faultVars>>

ReceiptAckFails(c) ==
    /\ HandlerReads(c, "ReceiptAck")
    /\ Fails
    /\ UNCHANGED <<clientVars, linkVars, down, storeVars, handlerVars>>

(* Mutant: whatever entry the user has is removed.                         *)
ForgetUser(c) == [online EXCEPT ![UserOf(c)] = NoConn]

(* The map without the entry of connection c: a reconnect's is kept.       *)
Forget(c) ==
    [u \in User |-> IF online[u] = c THEN NoConn ELSE online[u]]

(* The stream of a closed connection ends; frames behind it are lost.      *)
HandlerEnds(c) ==
    /\ pc[c] = "read" /\ ~open[c]
    /\ online' = Forget(c)
    /\ up' = [up EXCEPT ![c] = <<>>]
    /\ Goto(c, "none")
    /\ UNCHANGED <<clientVars, linkVars, down, storeVars, latest, cur, faultVars>>

-----------------------------------------------------------------------------
(* Faults of the network and of the relay's process.                       *)

CutLink(c) ==
    /\ open[c]
    /\ drops < MaxDrops
    /\ drops' = drops + 1
    /\ open' = [open EXCEPT ![c] = FALSE]
    /\ UNCHANGED <<clientVars, link, up, down, storeVars, handlerVars, errors, clears>>

(* Every task and the online map are gone; the database is not.            *)
RelayCrash ==
    /\ drops < MaxDrops
    /\ drops' = drops + 1
    /\ open' = [c \in Conn |-> FALSE]
    /\ up' = [c \in Conn |-> <<>>]
    /\ online' = [u \in User |-> NoConn]
    /\ pc' = [c \in Conn |-> "none"]
    /\ cur' = [c \in Conn |-> NoMsg]
    /\ UNCHANGED <<clientVars, link, down, storeVars, latest, errors, clears>>

-----------------------------------------------------------------------------
Init ==
    /\ local = [m \in Msg |-> "absent"]
    /\ outbox = {} /\ inbox = {} /\ posted = {}
    /\ shows = [m \in Msg |-> 0]
    /\ raced = {} /\ held = [p \in Client |-> Idle]
    /\ link = [p \in Client |-> NoConn]
    /\ open = [c \in Conn |-> FALSE]
    /\ up = [c \in Conn |-> <<>>]
    /\ down = [c \in Conn |-> <<>>]
    /\ queue = [m \in Msg |-> "absent"]
    /\ status = [m \in Msg |-> "none"]
    /\ notified = [m \in Msg |-> FALSE]
    /\ online = [u \in User |-> NoConn]
    /\ latest = [u \in User |-> NoConn]
    /\ pc = [c \in Conn |-> "none"]
    /\ cur = [c \in Conn |-> NoMsg]
    /\ drops = 0 /\ errors = 0 /\ clears = 0

(* The chat loop of a client that is running: read, or notice the end.     *)
ClientStep(c) ==
    \/ ReceiveDeliver(c) \/ ReadState(c) \/ ReceiveError(c) \/ ClientSeesEnd(c)

(* The rest of the frame process p is at.                                  *)
FinishFrame(p) == ReceiveAccepted(p) \/ ReceiveReceipt(p)

(* A handler task of the relay.                                            *)
HandlerStep(c) ==
    \/ Register(c) \/ DrainMessages(c) \/ DrainReceipts(c)
    \/ ReadSend(c) \/ UpsertSent(c) \/ PushDeliver(c)
    \/ ReadAck(c) \/ UpsertDelivered(c) \/ PushReceipt(c)
    \/ ReadReceiptAck(c) \/ HandlerEnds(c)

Failure(c) ==
    \/ RejectDeliver(c) \/ DrainFails(c) \/ RefuseSend(c) \/ UpsertSentFails(c)
    \/ AckFails(c) \/ UpsertDeliveredFails(c) \/ ReceiptAckFails(c)

Next ==
    \/ \E p \in Client :
          \/ \E m \in Msg : Compose(p, m) \/ CrashInCompose(p, m)
          \/ FinishFrame(p) \/ SetStateFails(p) \/ CrashInAccepted(p) \/ Quit(p)
    \/ \E u, v \in User : ClearChat(u, v)
    \/ \E c \in Conn :
          \/ Connect(c) \/ ClientStep(c) \/ HandlerStep(c) \/ Failure(c)
          \/ CutLink(c)
    \/ RelayCrash

Spec == Init /\ [][Next]_vars

(***************************************************************************)
(* The retry tick of a window reconnects it when it is offline, a client's *)
(* loop reads what arrives and handles it to its end, and the relay's      *)
(* runtime polls every handler.                                            *)
(***************************************************************************)
Fairness ==
    /\ \A p \in Window : WF_vars(\E c \in Conn : Owner[c] = p /\ Connect(c))
    /\ \A p \in Client : WF_vars(FinishFrame(p))
    /\ \A c \in Conn : WF_vars(ClientStep(c)) /\ WF_vars(HandlerStep(c))

FairSpec == Spec /\ Fairness

-----------------------------------------------------------------------------
TypeOK ==
    /\ local \in [Msg -> LocalState]
    /\ outbox \subseteq Msg /\ inbox \subseteq Msg /\ posted \subseteq Msg
    /\ shows \in [Msg -> Nat]
    /\ raced \subseteq Msg
    /\ held \in [Client -> Held]
    /\ link \in [Client -> Conn \cup {NoConn}]
    /\ open \in [Conn -> BOOLEAN]
    /\ up \in [Conn -> Seq(ClientFrame)]
    /\ down \in [Conn -> Seq(ServerFrame)]
    /\ queue \in [Msg -> {"absent", "pending", "acked"}]
    /\ status \in [Msg -> {"none", "sent_to_relay", "delivered"}]
    /\ notified \in [Msg -> BOOLEAN]
    /\ online \in [User -> Conn \cup {NoConn}]
    /\ latest \in [User -> Conn \cup {NoConn}]
    /\ pc \in [Conn -> Phase]
    /\ cur \in [Conn -> Msg \cup {NoMsg}]
    /\ drops \in 0..MaxDrops /\ errors \in 0..MaxErrors /\ clears \in 0..MaxClears

(* Frames in flight on a channel.                                          *)
Carries(chan, c, t, m) == Frame(t, m) \in Range(chan[c])

(* A handler stands at one of phases with m in hand.                       *)
InHand(m, phases) == \E c \in Conn : pc[c] \in phases /\ cur[c] = m

(* No copy is given up before the next one exists: a message that reached  *)
(* the outbox (compose_direct) is there still, or pending in the relay's   *)
(* queue, or was stored by its recipient, whatever is cut, crashes, fails  *)
(* or is answered twice.                                                   *)
NoLoss ==
    \A m \in posted : m \in outbox \/ queue[m] = "pending" \/ shows[m] > 0

(* The ticks tell the truth: one tick (Accepted handled) only for a        *)
(* message the relay has queued, two ticks (Receipt handled) only for one  *)
(* its recipient stored and the relay will not deliver again.              *)
TicksAreTrue ==
    \A m \in Msg :
        /\ local[m] = "sent" => queue[m] # "absent"
        /\ local[m] = "delivered" => queue[m] = "acked" /\ shows[m] > 0

(* The relay stops re-sending a receipt (notified) only once the sender's  *)
(* history has it: "persist first, then confirm".  The history then says   *)
(* so for good, unless two processes of the sender were in set_state for   *)
(* the message at once.                                                    *)
ConfirmedIsRecorded ==
    \A m \in Msg : status[m] = "delivered" /\ notified[m]
                      => local[m] \in {"delivered", "absent"} \/ m \in raced

(* However often a message is delivered, it is shown once, and once more   *)
(* only if the user wiped the chat in between (insert_message, clear_chat).*)
ShownOnce == \A m \in Msg : shows[m] <= 1 + clears

(* While no store call fails, a message pending for a client whose         *)
(* connection is the latest of its account to have registered, and whose   *)
(* drain is over, is on its way to it: register-then-drain, the push after *)
(* the enqueue and the conn_id test of the cleanup leave no gap, whichever *)
(* processes of the account come and go.  A connection that another one    *)
(* overtook in the online map waits for what comes later (see Overtaken).  *)
NoMissedMessage ==
    errors = 0 =>
        \A m \in Msg : LET c == latest[Recipient[m]] IN
            /\ queue[m] = "pending"
            /\ c # NoConn
            /\ open[c] /\ pc[c] \notin {"register", "drain_messages"}
            => \/ Carries(down, c, "Deliver", m) \/ Carries(up, c, "Ack", m)
               \/ InHand(m, {"upsert_sent", "push_deliver"})

(* The same of receipts: one that is recorded and unconfirmed is on its    *)
(* way to the latest connection of the sender, or in its process's hand.   *)
NoMissedReceipt ==
    errors = 0 =>
        \A m \in Msg : LET c == latest[Sender[m]] IN
            /\ status[m] = "delivered" /\ ~notified[m]
            /\ c # NoConn
            /\ open[c] /\ pc[c] \notin {"register", "drain_messages", "drain_receipts"}
            => \/ Carries(down, c, "Receipt", m) \/ Carries(up, c, "ReceiptAck", m)
               \/ held[Owner[c]].type = "Receipt" /\ held[Owner[c]].msg = m
               \/ InHand(m, {"push_receipt"})

(* "Advance a message's state (never downgrade)" (set_state): a tick is    *)
(* taken back only by clearing the chat, or where two processes of the     *)
(* sender were in set_state for the message at once; late and repeated     *)
(* frames on any of its connections do not.                                *)
TicksNeverRegress ==
    [][\A m \in Msg : \/ Rank[local'[m]] >= Rank[local[m]]
                      \/ local'[m] = "absent" /\ clears' > clears
                      \/ m \in raced]_vars

(* The comment as it stands.  The SELECT and the UPDATE of set_state are   *)
(* two statements, so a process that read before another wrote delivered   *)
(* still writes sent.                                                      *)
TicksOnlyAdvance ==
    [][\A m \in Msg : \/ Rank[local'[m]] >= Rank[local[m]]
                      \/ local'[m] = "absent" /\ clears' > clears]_vars

(* A receipt the relay has recorded stays re-deliverable until the sender  *)
(* has persisted it (the comment in handle_ack).                           *)
ReceiptKept ==
    [][\A m \in Msg : status[m] = "delivered" /\ ~notified[m]
          => \/ status'[m] = "delivered" /\ ~notified'[m]
             \/ local[m] \in {"delivered", "absent"}]_vars

(* A connection of user u is open and at work, and the online map leads    *)
(* elsewhere: it is pushed nothing until it is closed and opened again.    *)
Overtaken(u) ==
    \E p \in Client : LET c == link[p] IN
        /\ Account[p] = u /\ c # NoConn
        /\ open[c] /\ pc[c] # "register" /\ latest[u] # c

(* No window of u is connected.                                            *)
Offline(u) == \A p \in Window : Account[p] = u => link[p] = NoConn

(* Every message that reaches the outbox is stored by its recipient, if    *)
(* the windows keep reconnecting and no call fails; and after a failed or  *)
(* refused call, once both windows have been offline.  A connection of the *)
(* recipient that was overtaken may wait for ever.                         *)
EventuallyStored ==
    \A m \in Msg, e \in 0..MaxErrors :
        (/\ m \in posted /\ errors = e
         /\ e = 0 \/ (Offline(Sender[m]) /\ Offline(Recipient[m])))
            ~> (shows[m] > 0 \/ errors > e \/ Overtaken(Recipient[m]))

(* It leaves the outbox under the same conditions on its sender alone,     *)
(* overtaken or not: Accepted is answered on the connection that sent it.  *)
OutboxDrains ==
    \A m \in Msg, e \in 0..MaxErrors :
        (m \in posted /\ errors = e /\ (e = 0 \/ Offline(Sender[m])))
            ~> (m \notin outbox \/ errors > e)

-----------------------------------------------------------------------------
(* The inductive invariant: what the frames in flight, the handlers at     *)
(* work and the tables say of one message never contradicts its custody.   *)

(* The sender's history has the receipt of m, or a race took it back.      *)
Recorded(m) == local[m] \in {"delivered", "absent"} \/ m \in raced

UpOK(f) ==
    /\ f.type = "Send" => f.msg \in posted
    /\ f.type = "Ack" => shows[f.msg] > 0
    /\ f.type = "ReceiptAck" => /\ queue[f.msg] = "acked"
                                /\ Recorded(f.msg)

DownOK(f) ==
    /\ f.type \in {"Deliver", "Accepted"} => queue[f.msg] # "absent"
    /\ f.type = "Receipt" => queue[f.msg] = "acked"

HandlerOK(c) ==
    /\ pc[c] \in {"upsert_sent", "push_deliver"}
          => cur[c] \in Msg /\ queue[cur[c]] # "absent"
    /\ pc[c] \in {"upsert_delivered", "push_receipt"}
          => cur[c] \in Msg /\ queue[cur[c]] = "acked"

(* What process p is about to write was so when it read, and still is if   *)
(* no other process was at the same message.                               *)
HeldOK(p) ==
    LET h == held[p]
    IN  h # Idle =>
          /\ link[p] # NoConn
          /\ queue[h.msg] # "absent"
          /\ h.type = "Receipt" => queue[h.msg] = "acked"
          /\ h.msg \notin raced => local[h.msg] \in {h.old, "absent"}

CustodyOK(m) ==
    /\ m \notin posted => m \notin outbox /\ queue[m] = "absent"
    /\ m \in posted => m \in outbox \/ queue[m] # "absent"
    /\ shows[m] > 0 => queue[m] # "absent"
    /\ queue[m] = "acked" => shows[m] > 0

TicksOK(m) ==
    /\ local[m] = "sent" => queue[m] # "absent"
    /\ local[m] = "delivered" => queue[m] = "acked"

StatusOK(m) ==
    /\ status[m] # "none" => queue[m] # "absent"
    /\ status[m] = "sent_to_relay" => notified[m]
    /\ status[m] = "delivered" => queue[m] = "acked"
    /\ status[m] = "delivered" /\ notified[m] => Recorded(m)

ShownOK(m) ==
    /\ shows[m] <= 1 + clears
    /\ m \in inbox => shows[m] > 0
    /\ m \notin inbox => shows[m] <= clears

(* Everything a relay, its queue and its clients know about a message is   *)
(* consistent with where the message is; NoLoss, TicksAreTrue,             *)
(* ConfirmedIsRecorded and ShownOnce follow.                               *)
Consistent ==
    /\ TypeOK
    /\ \A c \in Conn : \A f \in Range(up[c]) : UpOK(f)
    /\ \A c \in Conn : \A f \in Range(down[c]) : DownOK(f)
    /\ \A c \in Conn : HandlerOK(c)
    /\ \A p \in Client : HeldOK(p)
    /\ \A m \in Msg : CustodyOK(m) /\ TicksOK(m) /\ StatusOK(m) /\ ShownOK(m)

-----------------------------------------------------------------------------
(* The abstract promise this protocol implements: the sender holds what is *)
(* in the outbox, the relay what is pending, the recipient what it stored. *)
Holders ==
    [m \in Msg |->
        {p \in {"sender", "relay", "recipient"} :
            \/ p = "sender" /\ m \in outbox
            \/ p = "relay" /\ queue[m] = "pending"
            \/ p = "recipient" /\ shows[m] > 0}]

D == INSTANCE Delivery WITH holders <- Holders, tick <- local

(* Every step of clients, connections and handlers is a custody step of    *)
(* Delivery or invisible to it.                                            *)
ImplementsDelivery == D!Spec
=============================================================================
