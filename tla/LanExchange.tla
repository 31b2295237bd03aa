----------------------------- MODULE LanExchange ----------------------------
(***************************************************************************)
(* `peers connect` (client/src/lan.rs): two clients find each other on the *)
(* local network, prove their identities, and hand each other what their   *)
(* outboxes hold for the other; and the relay path, which carries the same *)
(* messages when the user syncs instead.                                   *)
(*                                                                         *)
(* A peer runs one command at a time.  A connection has two ends and a     *)
(* buffer of Cap frames towards each; a writer waits for room.  An end     *)
(* that closes on unread frames may take along what it sent.  A peer may   *)
(* be interrupted anywhere.  An identity is that of the peer it belongs    *)
(* to: a signature of the challenge shows who is at the other end, and     *)
(* `pinned` whether the contact still has the keys that were pinned.       *)
(***************************************************************************)
EXTENDS Integers, FiniteSets, Sequences

CONSTANTS
  Peer, Conn, Msg,
  Target,      \* the contact each peer connects to
  Sender,      \* Sender[m] and Recipient[m]
  Recipient,
  Synced,      \* bound: the messages that a sync may carry
  Cap,         \* frames a socket buffers
  MaxStarts,   \* bound: how often each peer connects
  MaxQuits,    \* bound: interruptions
  None

ASSUME CapAssumption == Cap \in Nat \ {0}
ASSUME TargetAssumption == \A p \in Peer : Target[p] \in Peer \ {p}
ASSUME MsgAssumption ==
  /\ IsFiniteSet(Msg)
  /\ \A m \in Msg : Sender[m] \in Peer /\ Recipient[m] \in Peer
ASSUME NoneAssumption ==
  /\ None \notin Conn \cup Msg
  /\ None \notin {"pending", "acked", "queued", "sent", "delivered"}
  /\ None \notin Peer \X Peer

VARIABLES
  pinned,     \* peers whose pinned contact has the keys it had when pinned
  outbox,     \* the messages in their sender's outbox
  tick,       \* the state of a message in its sender's history
  stored,     \* the messages in their recipient's history
  relay,      \* the relay's row of a message: None, pending or acked
  at,         \* where each peer's command is
  on,         \* the connection it uses
  left,       \* the outgoing entries it has still to write
  need,       \* how many there were
  acked,      \* the Acks it has handled
  bye,        \* the other side said Bye
  cur,        \* the message whose Ack it is about to write, or has read
  ends,       \* the peers whose end of a connection is open
  link,       \* the dialling and the accepting peer of a connection
  wire,       \* wire[c][p]: the frames on their way to p
  starts, quits

messages == <<outbox, tick, stored, relay>>
command == <<left, need, acked, bye, cur>>
network == <<ends, link, wire>>
bounds == <<starts, quits>>
vars == <<pinned, messages, at, on, command, network, bounds>>

Hello == [type |-> "hello", id |-> None]
Auth == [type |-> "auth", id |-> None]
Bye == [type |-> "bye", id |-> None]
MsgOf(m) == [type |-> "msg", id |-> m]
AckOf(m) == [type |-> "ack", id |-> m]
Frame == {Hello, Auth, Bye} \cup {MsgOf(m) : m \in Msg} \cup {AckOf(m) : m \in Msg}

Exchanging == {"send", "loop", "ack", "settle"}

TypeOK ==
  /\ pinned \subseteq Peer
  /\ outbox \subseteq Msg /\ stored \subseteq Msg
  /\ relay \in [Msg -> {None, "pending", "acked"}]
  /\ tick \in [Msg -> {None, "queued", "sent", "delivered"}]
  /\ at \in [Peer -> {"idle", "search", "hello", "sign", "auth"} \cup Exchanging]
  /\ on \in [Peer -> Conn \cup {None}]
  /\ left \in [Peer -> SUBSET Msg]
  /\ need \in [Peer -> Nat] /\ acked \in [Peer -> Nat]
  /\ bye \in [Peer -> BOOLEAN]
  /\ cur \in [Peer -> Msg \cup {None}]
  /\ ends \in [Conn -> SUBSET Peer]
  /\ link \in [Conn -> (Peer \X Peer) \cup {None}]
  /\ wire \in [Conn -> [Peer -> Seq(Frame)]]
  /\ starts \in [Peer -> Nat] /\ quits \in Nat

Init ==
  /\ \E p \in Peer : pinned \in {Peer, Peer \ {p}}
  /\ outbox = {} /\ stored = {} /\ relay = [m \in Msg |-> None]
  /\ tick = [m \in Msg |-> None]
  /\ at = [p \in Peer |-> "idle"] /\ on = [p \in Peer |-> None]
  /\ left = [p \in Peer |-> {}] /\ need = [p \in Peer |-> 0]
  /\ acked = [p \in Peer |-> 0] /\ bye = [p \in Peer |-> FALSE]
  /\ cur = [p \in Peer |-> None]
  /\ ends = [c \in Conn |-> {}] /\ link = [c \in Conn |-> None]
  /\ wire = [c \in Conn |-> [p \in Peer |-> <<>>]]
  /\ starts = [p \in Peer |-> 0] /\ quits = 0

Go(p, l) == at' = [at EXCEPT ![p] = l]
Other(c, p) == IF link[c][1] = p THEN link[c][2] ELSE link[c][1]

(* What a peer sees of its connection.                                     *)
Inbox(p) == wire[on[p]][p]
Far(p) == Other(on[p], p)
Hears(p, type) == Inbox(p) # <<>> /\ Head(Inbox(p)).type = type
Room(p) == Far(p) \notin ends[on[p]] \/ Len(wire[on[p]][Far(p)]) < Cap

(* A frame written to a closed end is lost.                                *)
Put(w, c, p, f) ==
  IF p \in ends[c] THEN [w EXCEPT ![c][p] = Append(@, f)] ELSE w

Write(p, f) == Room(p) /\ wire' = Put(wire, on[p], Far(p), f)
Read(p) == wire' = [wire EXCEPT ![on[p]][p] = Tail(@)]

(* The ends of the connections C at p close; a connection with no open end *)
(* is gone.                                                                *)
Close(p, C) ==
  /\ ends' = [c \in Conn |-> IF c \in C THEN ends[c] \ {p} ELSE ends[c]]
  /\ link' = [c \in Conn |-> IF ends'[c] = {} THEN None ELSE link[c]]
  /\ \E cut \in SUBSET {c \in C : p \in ends[c] /\ wire[c][p] # <<>>} :
       wire' = [c \in Conn |->
                 IF ends'[c] = {} THEN [q \in Peer |-> <<>>]
                 ELSE [q \in Peer |-> IF (q = p /\ c \in C) \/ c \in cut
                                      THEN <<>> ELSE wire[c][q]]]

(* The command ends, however it ends.                                      *)
Exit(p) ==
  /\ Go(p, "idle")
  /\ on' = [on EXCEPT ![p] = None]
  /\ left' = [left EXCEPT ![p] = {}]
  /\ need' = [need EXCEPT ![p] = 0]
  /\ acked' = [acked EXCEPT ![p] = 0]
  /\ bye' = [bye EXCEPT ![p] = FALSE]
  /\ cur' = [cur EXCEPT ![p] = None]
  /\ Close(p, Conn)

-----------------------------------------------------------------------------
(* Messages outside the command: composed, and carried by the relay when   *)
(* the user syncs; the relay's Accepted may be lost.                       *)

Compose(m) ==
  /\ at[Sender[m]] = "idle"
  /\ tick[m] = None
  /\ tick' = [tick EXCEPT ![m] = "queued"]
  /\ outbox' = outbox \cup {m}
  /\ UNCHANGED <<pinned, stored, relay, at, on, command, network, bounds>>

Raise(m, t) == tick' = [tick EXCEPT ![m] = IF @ = "delivered" THEN @ ELSE t]

SyncSend(m) ==
  /\ m \in Synced
  /\ at[Sender[m]] = "idle"
  /\ m \in outbox
  /\ relay' = [relay EXCEPT ![m] = IF @ = None THEN "pending" ELSE @]
  /\ \/ Raise(m, "sent") /\ outbox' = outbox \ {m}
     \/ UNCHANGED <<tick, outbox>>
  /\ UNCHANGED <<pinned, stored, at, on, command, network, bounds>>

SyncReceive(m) ==
  /\ at[Recipient[m]] = "idle"
  /\ relay[m] = "pending"
  /\ relay' = [relay EXCEPT ![m] = "acked"]
  /\ stored' = stored \cup {m}
  /\ UNCHANGED <<pinned, outbox, tick, at, on, command, network, bounds>>

-----------------------------------------------------------------------------
(* peers_connect: listen and advertise, dial what is found, and take what  *)
(* connects first.                                                         *)

Start(p) ==
  /\ at[p] = "idle"
  /\ starts[p] < MaxStarts /\ starts' = [starts EXCEPT ![p] = @ + 1]
  /\ Go(p, "search")
  /\ UNCHANGED <<pinned, messages, on, command, network, quits>>

Dialled(p) == {c \in Conn : p \in ends[c] /\ link[c][1] = p}

Dial(p) ==
  /\ at[p] = "search"
  /\ Dialled(p) = {}
  /\ at[Target[p]] # "idle"
  /\ \E c \in {d \in Conn : link[d] = None} :
       /\ link' = [link EXCEPT ![c] = <<p, Target[p]>>]
       /\ ends' = [ends EXCEPT ![c] = {p, Target[p]}]
  /\ UNCHANGED <<pinned, messages, at, on, command, wire, bounds>>

(* handshake begins: Hello is written.                                     *)
Greet(p, c) ==
  /\ Go(p, "hello")
  /\ on' = [on EXCEPT ![p] = c]
  /\ UNCHANGED <<pinned, messages, command, bounds>>

TakeOutbound(p) ==
  /\ at[p] = "search"
  /\ \E c \in Dialled(p) :
       /\ Greet(p, c)
       /\ wire' = Put(wire, c, Other(c, p), Hello)
  /\ UNCHANGED <<ends, link>>

(* The dial that select! gives up is closed.                               *)
Accept(p) ==
  /\ at[p] = "search"
  /\ \E c \in Conn :
       /\ p \in ends[c] /\ link[c][2] = p
       /\ Greet(p, c)
       /\ ends' = [d \in Conn |-> IF d \in Dialled(p) THEN ends[d] \ {p} ELSE ends[d]]
       /\ link' = [d \in Conn |-> IF ends'[d] = {} THEN None ELSE link[d]]
       /\ wire' = Put([d \in Conn |-> IF d \in Dialled(p) /\ ends'[d] = {}
                                      THEN [q \in Peer |-> <<>>]
                                      ELSE [wire[d] EXCEPT ![p] = IF d = c THEN @ ELSE <<>>]],
                      c, Other(c, p), Hello)

-----------------------------------------------------------------------------
(* handshake: whoever says Hello must be the pinned contact with the       *)
(* pinned keys; only then is its challenge signed.                         *)

(* Mutant: any peer with a sound identity will do.                         *)
AnyHello(p) ==
  /\ at[p] = "hello" /\ Hears(p, "hello")
  /\ Read(p) /\ Go(p, "sign")
  /\ UNCHANGED <<pinned, messages, on, command, ends, link, bounds>>

ReadHello(p) ==
  /\ at[p] = "hello" /\ Hears(p, "hello")
  /\ IF Far(p) = Target[p] /\ p \in pinned
       THEN Read(p) /\ Go(p, "sign") /\ UNCHANGED <<on, command, ends, link>>
       ELSE Exit(p)
  /\ UNCHANGED <<pinned, messages, bounds>>

WriteAuth(p) ==
  /\ at[p] = "sign"
  /\ Write(p, Auth)
  /\ Go(p, "auth")
  /\ UNCHANGED <<pinned, messages, on, command, ends, link, bounds>>

(* The exchange begins with the entries of the outbox for this contact.    *)
Outgoing(p) == {m \in outbox : Sender[m] = p /\ Recipient[m] = Target[p]}

ReadAuth(p) ==
  /\ at[p] = "auth" /\ Hears(p, "auth")
  /\ Read(p)
  /\ Go(p, "send")
  /\ left' = [left EXCEPT ![p] = Outgoing(p)]
  /\ need' = [need EXCEPT ![p] = Cardinality(Outgoing(p))]
  /\ UNCHANGED <<pinned, messages, on, acked, bye, cur, ends, link, bounds>>

(* No frame comes any more.                                                *)
Eof(p) ==
  /\ at[p] \in {"hello", "auth"}
  /\ Inbox(p) = <<>> /\ Far(p) \notin ends[on[p]]
  /\ Exit(p)
  /\ UNCHANGED <<pinned, messages, bounds>>

-----------------------------------------------------------------------------
(* exchange: everything is written, Bye last; then frames are read until   *)
(* the other side said Bye and acked everything, or nothing comes for 20 s.*)

(* Mutant: an entry leaves the outbox when it is written.                  *)
SendAndForget(p) ==
  /\ at[p] = "send"
  /\ left[p] # {}
  /\ LET m == CHOOSE x \in left[p] : TRUE IN
       /\ Write(p, MsgOf(m)) /\ left' = [left EXCEPT ![p] = @ \ {m}]
       /\ outbox' = outbox \ {m}
  /\ UNCHANGED <<pinned, tick, stored, relay, at, on, need, acked, bye, cur, ends, link, bounds>>

Send(p) ==
  /\ at[p] = "send"
  /\ left[p] # {}
  /\ LET m == CHOOSE x \in left[p] : TRUE IN
       Write(p, MsgOf(m)) /\ left' = [left EXCEPT ![p] = @ \ {m}]
  /\ UNCHANGED <<pinned, messages, at, on, need, acked, bye, cur, ends, link, bounds>>

(* Mutant: Bye is said only in answer to Bye.                              *)
ByeInAnswer(p) ==
  /\ at[p] = "send" /\ left[p] = {} /\ Hears(p, "bye")
  /\ Write(p, Bye)
  /\ Go(p, "loop")
  /\ UNCHANGED <<pinned, messages, on, command, ends, link, bounds>>

SendBye(p) ==
  /\ at[p] = "send" /\ left[p] = {}
  /\ Write(p, Bye)
  /\ Go(p, "loop")
  /\ UNCHANGED <<pinned, messages, on, command, ends, link, bounds>>

(* handle_incoming stores the message or finds it stored; on an error it   *)
(* is not acked.                                                           *)
ReadMsg(p) ==
  /\ at[p] = "loop" /\ Hears(p, "msg")
  /\ Read(p)
  /\ LET m == Head(Inbox(p)).id IN
       \/ /\ stored' = stored \cup {m}
          /\ cur' = [cur EXCEPT ![p] = m] /\ Go(p, "ack")
       \/ /\ m \notin stored
          /\ UNCHANGED <<stored, cur, at>>
  /\ UNCHANGED <<pinned, outbox, tick, relay, on, left, need, acked, bye, ends, link, bounds>>

WriteAck(p) ==
  /\ at[p] = "ack"
  /\ Write(p, AckOf(cur[p]))
  /\ Go(p, "loop") /\ cur' = [cur EXCEPT ![p] = None]
  /\ UNCHANGED <<pinned, messages, on, left, need, acked, bye, ends, link, bounds>>

(* Mutant: the tick is not written.                                        *)
AckOnly(p) ==
  /\ at[p] = "loop" /\ Hears(p, "ack")
  /\ Read(p)
  /\ cur' = [cur EXCEPT ![p] = Head(Inbox(p)).id] /\ Go(p, "settle")
  /\ UNCHANGED <<pinned, messages, on, left, need, acked, bye, ends, link, bounds>>

(* set_state(Delivered) ...                                                *)
ReadAck(p) ==
  /\ at[p] = "loop" /\ Hears(p, "ack")
  /\ Read(p)
  /\ Raise(Head(Inbox(p)).id, "delivered")
  /\ cur' = [cur EXCEPT ![p] = Head(Inbox(p)).id] /\ Go(p, "settle")
  /\ UNCHANGED <<pinned, outbox, stored, relay, on, left, need, acked, bye, ends, link, bounds>>

(* ... then outbox_remove; the loop ends with the last Ack after Bye.      *)
Settle(p) ==
  /\ at[p] = "settle"
  /\ outbox' = outbox \ {cur[p]}
  /\ IF bye[p] /\ acked[p] + 1 >= need[p]
       THEN Exit(p)
       ELSE /\ Go(p, "loop")
            /\ acked' = [acked EXCEPT ![p] = @ + 1] /\ cur' = [cur EXCEPT ![p] = None]
            /\ UNCHANGED <<on, left, need, bye, network>>
  /\ UNCHANGED <<pinned, tick, stored, relay, bounds>>

ReadBye(p) ==
  /\ at[p] = "loop" /\ Hears(p, "bye")
  /\ IF acked[p] >= need[p]
       THEN Exit(p)
       ELSE /\ Read(p)
            /\ bye' = [bye EXCEPT ![p] = TRUE]
            /\ UNCHANGED <<at, on, left, need, acked, cur, ends, link>>
  /\ UNCHANGED <<pinned, messages, bounds>>

(* Nothing came for 20 seconds, or the other end is closed.                *)
GiveUp(p) ==
  /\ at[p] = "loop" /\ Inbox(p) = <<>>
  /\ Exit(p)
  /\ UNCHANGED <<pinned, messages, bounds>>

WriteFails(p) ==
  /\ at[p] \in {"sign", "send", "ack"} /\ Far(p) \notin ends[on[p]]
  /\ Exit(p)
  /\ UNCHANGED <<pinned, messages, bounds>>

(* The user interrupts the command, or the process dies.                   *)
Quit(p) ==
  /\ at[p] # "idle"
  /\ quits < MaxQuits /\ quits' = quits + 1
  /\ Exit(p)
  /\ UNCHANGED <<pinned, messages, starts>>

Step(p) ==
  \/ ReadHello(p) \/ WriteAuth(p) \/ ReadAuth(p) \/ Eof(p)
  \/ Send(p) \/ SendBye(p) \/ ReadMsg(p) \/ WriteAck(p) \/ ReadAck(p) \/ Settle(p)
  \/ ReadBye(p) \/ GiveUp(p) \/ WriteFails(p)

Next ==
  \/ \E m \in Msg : Compose(m) \/ SyncSend(m) \/ SyncReceive(m)
  \/ \E p \in Peer : Start(p) \/ Dial(p) \/ TakeOutbound(p) \/ Accept(p) \/ Step(p) \/ Quit(p)

Spec == Init /\ [][Next]_vars
FairSpec == Spec /\ \A p \in Peer : WF_vars(Step(p))

-----------------------------------------------------------------------------
(* A composed message is in its sender's outbox, at the relay or in its    *)
(* recipient's history, wherever either side stops.                        *)
NothingLost ==
  \A m \in Msg : tick[m] # None => m \in outbox \cup stored \/ relay[m] = "pending"

(* Two ticks mean stored, and a message that left the outbox has at least  *)
(* one: set_state comes before outbox_remove.                              *)
TicksAgree ==
  \A m \in Msg :
    /\ tick[m] = "delivered" => m \in stored
    /\ tick[m] = "queued" => m \in outbox

(* A peer exchanges messages only with the contact it asked for, and only  *)
(* when both sides have the keys they pinned: each signs only after it     *)
(* recognised the other.                                                   *)
OnlyPinnedContacts ==
  \A p \in Peer :
    at[p] \in Exchanging =>
      /\ {p, Target[p]} \subseteq pinned
      /\ link[on[p]] \in {<<p, Target[p]>>, <<Target[p], p>>}

(* Peers on one connection get to its end: nothing is written before it is *)
(* read that the buffers cannot hold, as long as both outboxes together    *)
(* have fewer entries than the two buffers have places.                    *)
Met(p) == on[p] # None /\ on[Far(p)] = on[p]
Fits(p) == need[p] + need[Far(p)] < 2 * Cap
ExchangeEnds == \A p \in Peer : Met(p) ~> ~Met(p) \/ ~Fits(p)

(* Two peers that look for each other use the same connection, whichever   *)
(* was first.                                                              *)
RendezvousMeets ==
  \A p \in Peer, q \in Peer :
    /\ Target[p] = q /\ Target[q] = p
    /\ on[p] # None /\ on[q] # None
    => on[p] = on[q]
=============================================================================
