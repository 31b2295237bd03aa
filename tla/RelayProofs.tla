---------------------------- MODULE RelayProofs ----------------------------
(***************************************************************************)
(* Proofs about Relay for any number of users, client processes, messages  *)
(* and connections, and any budget of faults: its inductive invariant and  *)
(* what follows, the freedom from missed pushes, and that it implements    *)
(* Delivery.                                                               *)
(***************************************************************************)
EXTENDS Relay, FiniteSetTheorems, SequenceTheorems, TLAPS

-----------------------------------------------------------------------------
(* Channels as sequences.                                                  *)

(* Append adds one element to a channel's contents.                        *)
LEMMA RangeOfAppend ==
    ASSUME NEW S, NEW s \in Seq(S), NEW e \in S
    PROVE  Append(s, e) \in Seq(S) /\ Range(Append(s, e)) = Range(s) \cup {e}
<1>1. /\ Append(s, e) \in Seq(S)
      /\ DOMAIN s = 1..Len(s) /\ DOMAIN Append(s, e) = 1..(Len(s) + 1)
      /\ Append(s, e)[Len(s) + 1] = e
      /\ \A i \in 1..Len(s) : Append(s, e)[i] = s[i]
  OBVIOUS
<1>2. Len(s) \in Nat
  OBVIOUS
<1> QED
  BY <1>1, <1>2 DEF Range

(* Concatenation holds what its parts hold.                                *)
LEMMA RangeOfConcat ==
    ASSUME NEW S, NEW s \in Seq(S), NEW t \in Seq(S)
    PROVE  s \o t \in Seq(S) /\ Range(s \o t) = Range(s) \cup Range(t)
BY RangeConcatenation

(* Taking the head off a channel leaves nothing new on it.                 *)
LEMMA RangeOfTail ==
    ASSUME NEW S, NEW s \in Seq(S), s # <<>>
    PROVE  /\ Head(s) \in S /\ Head(s) \in Range(s)
           /\ Tail(s) \in Seq(S) /\ Range(Tail(s)) \subseteq Range(s)
BY DEF Range

(* A function on an initial segment of the naturals is a sequence.         *)
LEMMA SegmentIsSeq ==
    ASSUME NEW T, NEW n \in Nat, NEW f \in [1..n -> T]
    PROVE  f \in Seq(T)
OBVIOUS

(* Frames(t, S) holds frames of type t about messages of S, and no other.  *)
LEMMA FramesType ==
    ASSUME NEW t, NEW S, IsFiniteSet(S)
    PROVE  Frames(t, S) \in Seq([type : {t}, msg : S])
<1> DEFINE n == Cardinality(S)
<1>1. n \in Nat /\ ExistsBijection(1..n, S)
  BY FS_CardinalityType
<1>2. PICK f \in [1..n -> S] : IsInjective(f)
  BY <1>1 DEF ExistsBijection, Bijection, Injection, Surjection, IsInjective
<1>3. SetToSeq(S) \in [1..n -> S]
  BY <1>2 DEF SetToSeq
<1> HIDE DEF n
<1>4. DOMAIN SetToSeq(S) = 1..n /\ Len(SetToSeq(S)) = n
  BY <1>1, <1>3
<1>5. Frames(t, S) = [i \in 1..n |-> [type |-> t, msg |-> SetToSeq(S)[i]]]
  BY <1>4 DEF Frames, Frame
<1>6. Frames(t, S) \in [1..n -> [type : {t}, msg : S]]
  BY <1>3, <1>5
<1> QED
  BY <1>1, <1>6, SegmentIsSeq

-----------------------------------------------------------------------------
(* What the actions do to a channel.                                       *)

(* Put adds at most its frame, on any channel.                             *)
LEMMA PutType ==
    ASSUME NEW T, NEW chan \in [Conn -> Seq(T)], NEW c \in Conn, NEW f \in T
    PROVE  /\ Put(chan, c, f) \in [Conn -> Seq(T)]
           /\ \A d \in Conn : Range(Put(chan, c, f)[d]) \subseteq Range(chan[d]) \cup {f}
<1>1. chan[c] \in Seq(T)
  OBVIOUS
<1>2. Append(chan[c], f) \in Seq(T) /\ Range(Append(chan[c], f)) = Range(chan[c]) \cup {f}
  BY <1>1, RangeOfAppend
<1> QED
  BY <1>2 DEF Put

(* So does PutIfOnline.                                                    *)
LEMMA PutIfOnlineType ==
    ASSUME NEW T, NEW chan \in [Conn -> Seq(T)], NEW u \in User, NEW f \in T,
           online \in [User -> Conn \cup {NoConn}]
    PROVE  /\ PutIfOnline(chan, u, f) \in [Conn -> Seq(T)]
           /\ \A d \in Conn : Range(PutIfOnline(chan, u, f)[d]) \subseteq Range(chan[d]) \cup {f}
<1>1. CASE online[u] = NoConn
  BY <1>1 DEF PutIfOnline
<1>2. CASE online[u] # NoConn
  <2>1. online[u] \in Conn
    BY <1>2
  <2> QED
    BY <1>2, <2>1, PutType DEF PutIfOnline
<1> QED
  BY <1>1, <1>2

(* Taking a frame off a channel adds nothing to any.                       *)
LEMMA PopType ==
    ASSUME NEW T, NEW chan \in [Conn -> Seq(T)], NEW c \in Conn, chan[c] # <<>>
    PROVE  /\ Head(chan[c]) \in T /\ Head(chan[c]) \in Range(chan[c])
           /\ [chan EXCEPT ![c] = Tail(@)] \in [Conn -> Seq(T)]
           /\ \A d \in Conn : Range([chan EXCEPT ![c] = Tail(@)][d]) \subseteq Range(chan[d])
<1>1. chan[c] \in Seq(T)
  OBVIOUS
<1>2. /\ Head(chan[c]) \in T /\ Head(chan[c]) \in Range(chan[c])
      /\ Tail(chan[c]) \in Seq(T) /\ Range(Tail(chan[c])) \subseteq Range(chan[c])
  BY <1>1, RangeOfTail
<1> QED
  BY <1>2

(* Pouring frames about S onto channel c adds only those.                  *)
LEMMA PourType ==
    ASSUME NEW T, NEW chan \in [Conn -> Seq(T)], NEW c \in Conn, NEW t,
           NEW S \in SUBSET Msg, [type : {t}, msg : S] \subseteq T
    PROVE  /\ Frames(t, S) \in Seq(T) /\ Range(Frames(t, S)) \subseteq [type : {t}, msg : S]
           /\ [chan EXCEPT ![c] = @ \o Frames(t, S)] \in [Conn -> Seq(T)]
           /\ \A d \in Conn : Range([chan EXCEPT ![c] = @ \o Frames(t, S)][d])
                                 \subseteq Range(chan[d]) \cup [type : {t}, msg : S]
<1>1. IsFiniteSet(S)
  BY FS_Subset, RelayAssumption
<1>2. Frames(t, S) \in Seq([type : {t}, msg : S])
  BY <1>1, FramesType
<1>3. Range(Frames(t, S)) \subseteq [type : {t}, msg : S]
  BY <1>2, RangeOfSeq
<1>4. Frames(t, S) \in Seq(T)
  <2> DEFINE F == Frames(t, S)
             R == [type : {t}, msg : S]
  <2>1. F \in Seq(R)
    BY <1>2
  <2> HIDE DEF F, R
  <2>2. R \subseteq T => F \in Seq(T)
    BY <2>1
  <2> QED
    BY <2>2 DEF F, R
<1>5. chan[c] \in Seq(T)
  OBVIOUS
<1>6. /\ chan[c] \o Frames(t, S) \in Seq(T)
      /\ Range(chan[c] \o Frames(t, S)) = Range(chan[c]) \cup Range(Frames(t, S))
  BY <1>4, <1>5, RangeOfConcat
<1> QED
  BY <1>3, <1>4, <1>6

(* An empty channel holds nothing.                                         *)
LEMMA RangeOfEmpty == Range(<<>>) = {}
BY DEF Range

-----------------------------------------------------------------------------
(* What no step takes back.                                                *)

Forward ==
    /\ posted \subseteq posted'
    /\ \A m \in Msg :
        /\ shows[m] > 0 => shows'[m] > 0
        /\ queue[m] # "absent" => queue'[m] # "absent"
        /\ queue[m] = "acked" => queue'[m] = "acked"
        /\ queue[m] = "acked" /\ Recorded(m) => Recorded(m)'

(* A process in set_state is at a message of the sort its type says.       *)
LEMMA HeldMsg ==
    ASSUME TypeOK, NEW p \in Client, held[p] # Idle
    PROVE  /\ held[p].msg \in Msg /\ held[p].old \in LocalState
           /\ held[p].type \in {"Accepted", "Receipt"}
BY DEF TypeOK, Held

(* What a process read stays true while nobody else is at its message.     *)
LEMMA HeldKept ==
    ASSUME Consistent, Forward,
           \A p \in Client : held'[p] # Idle => held'[p] = held[p] /\ link'[p] = link[p],
           \A p \in Client : held'[p] # Idle /\ held[p].msg \notin raced' =>
              LET m == held[p].msg
              IN  m \notin raced /\ local'[m] \in {local[m], "absent"}
    PROVE  \A p \in Client : HeldOK(p)'
<1> SUFFICES ASSUME NEW p \in Client, held'[p] # Idle PROVE HeldOK(p)'
  BY DEF HeldOK
<1>1. held'[p] = held[p] /\ link'[p] = link[p] /\ held[p] # Idle
  OBVIOUS
<1>2. PICK m \in Msg : m = held[p].msg
  BY <1>1, HeldMsg DEF Consistent
<1>3. /\ link[p] # NoConn /\ queue[m] # "absent"
      /\ held[p].type = "Receipt" => queue[m] = "acked"
      /\ m \notin raced => local[m] \in {held[p].old, "absent"}
  BY <1>1, <1>2 DEF Consistent, HeldOK
<1>4. /\ queue'[m] # "absent"
      /\ held[p].type = "Receipt" => queue'[m] = "acked"
  BY <1>3 DEF Forward
<1>5. m \notin raced' => local'[m] \in {held[p].old, "absent"}
  BY <1>1, <1>2, <1>3
<1> QED
  BY <1>1, <1>2, <1>3, <1>4, <1>5 DEF HeldOK

(* Frames to the relay stay true, and new ones N only have to be.          *)
LEMMA UpKept ==
    ASSUME Consistent, Forward, NEW N,
           \A d \in Conn : Range(up'[d]) \subseteq Range(up[d]) \cup N,
           \A f \in N : UpOK(f)'
    PROVE  \A d \in Conn : \A f \in Range(up'[d]) : UpOK(f)'
<1>1. SUFFICES ASSUME NEW d \in Conn, NEW f \in Range(up[d]) PROVE UpOK(f)'
  OBVIOUS
<1>2. f \in ClientFrame /\ UpOK(f)
  BY <1>1 DEF Consistent, TypeOK, Range
<1> QED
  BY <1>2 DEF Forward, UpOK, ClientFrame

(* The same of frames to the client.                                       *)
LEMMA DownKept ==
    ASSUME Consistent, Forward, NEW N,
           \A d \in Conn : Range(down'[d]) \subseteq Range(down[d]) \cup N,
           \A f \in N : DownOK(f)'
    PROVE  \A d \in Conn : \A f \in Range(down'[d]) : DownOK(f)'
<1>1. SUFFICES ASSUME NEW d \in Conn, NEW f \in Range(down[d]) PROVE DownOK(f)'
  OBVIOUS
<1>2. f \in ServerFrame /\ DownOK(f)
  BY <1>1 DEF Consistent, TypeOK, Range
<1> QED
  BY <1>2 DEF Forward, DownOK, ServerFrame

(* Channels that only lost frames need no more than Forward.               *)
LEMMA UpFewer ==
    ASSUME Consistent, Forward, \A d \in Conn : Range(up'[d]) \subseteq Range(up[d])
    PROVE  \A d \in Conn : \A f \in Range(up'[d]) : UpOK(f)'
<1>1. SUFFICES ASSUME NEW d \in Conn, NEW f \in Range(up[d]) PROVE UpOK(f)'
  OBVIOUS
<1>2. f \in ClientFrame /\ UpOK(f)
  BY <1>1 DEF Consistent, TypeOK, Range
<1> QED
  BY <1>2 DEF Forward, UpOK, ClientFrame

LEMMA DownFewer ==
    ASSUME Consistent, Forward, \A d \in Conn : Range(down'[d]) \subseteq Range(down[d])
    PROVE  \A d \in Conn : \A f \in Range(down'[d]) : DownOK(f)'
<1>1. SUFFICES ASSUME NEW d \in Conn, NEW f \in Range(down[d]) PROVE DownOK(f)'
  OBVIOUS
<1>2. f \in ServerFrame /\ DownOK(f)
  BY <1>1 DEF Consistent, TypeOK, Range
<1> QED
  BY <1>2 DEF Forward, DownOK, ServerFrame

(* Channels nobody touched, the more so.                                   *)
LEMMA UpSame ==
    ASSUME Consistent, Forward, UNCHANGED up
    PROVE  \A d \in Conn : \A f \in Range(up'[d]) : UpOK(f)'
<1>1. \A d \in Conn : Range(up'[d]) \subseteq Range(up[d])
  OBVIOUS
<1> QED
  BY <1>1, UpFewer

LEMMA DownSame ==
    ASSUME Consistent, Forward, UNCHANGED down
    PROVE  \A d \in Conn : \A f \in Range(down'[d]) : DownOK(f)'
<1>1. \A d \in Conn : Range(down'[d]) \subseteq Range(down[d])
  OBVIOUS
<1> QED
  BY <1>1, DownFewer

(* A handler that did not move still stands on firm ground.                *)
LEMMA HandlerKept ==
    ASSUME Consistent, Forward, NEW c \in Conn, pc'[c] = pc[c], cur'[c] = cur[c]
    PROVE  HandlerOK(c)'
BY DEF Consistent, Forward, HandlerOK

(* One new frame on the channels to the relay.                             *)
LEMMA UpOne ==
    ASSUME Consistent, Forward, NEW g,
           \A d \in Conn : Range(up'[d]) \subseteq Range(up[d]) \cup {g},
           UpOK(g)'
    PROVE  \A d \in Conn : \A f \in Range(up'[d]) : UpOK(f)'
<1>1. SUFFICES ASSUME NEW d \in Conn, NEW f \in Range(up[d]) PROVE UpOK(f)'
  OBVIOUS
<1>2. f \in ClientFrame /\ UpOK(f)
  BY <1>1 DEF Consistent, TypeOK, Range
<1> QED
  BY <1>2 DEF Forward, UpOK, ClientFrame

(* One new frame on the channels to the clients.                           *)
LEMMA DownOne ==
    ASSUME Consistent, Forward, NEW g,
           \A d \in Conn : Range(down'[d]) \subseteq Range(down[d]) \cup {g},
           DownOK(g)'
    PROVE  \A d \in Conn : \A f \in Range(down'[d]) : DownOK(f)'
<1>1. SUFFICES ASSUME NEW d \in Conn, NEW f \in Range(down[d]) PROVE DownOK(f)'
  OBVIOUS
<1>2. f \in ServerFrame /\ DownOK(f)
  BY <1>1 DEF Consistent, TypeOK, Range
<1> QED
  BY <1>2 DEF Forward, DownOK, ServerFrame

(* When one handler moves, the others stand where they stood.              *)
LEMMA OthersKept ==
    ASSUME Consistent, Forward, NEW c \in Conn, HandlerOK(c)',
           \A d \in Conn \ {c} : pc'[d] = pc[d] /\ cur'[d] = cur[d]
    PROVE  \A d \in Conn : HandlerOK(d)'
BY HandlerKept

(* A step that leaves histories, outboxes and tables alone.                *)
LEMMA TablesKept ==
    ASSUME Consistent, UNCHANGED <<clientVars, storeVars, clears>>,
           \A p \in Client : held[p] # Idle => link'[p] = link[p]
    PROVE  /\ Forward
           /\ \A k \in Msg : (CustodyOK(k) /\ TicksOK(k) /\ StatusOK(k) /\ ShownOK(k))'
           /\ \A p \in Client : HeldOK(p)'
<1>1. Forward
  BY DEF Consistent, Forward, Recorded, clientVars, storeVars
<1>2. \A p \in Client : HeldOK(p)'
  <2>1. \A p \in Client : held'[p] # Idle => held'[p] = held[p] /\ link'[p] = link[p]
    BY DEF clientVars
  <2>2. raced' = raced /\ local' = local
    BY DEF clientVars
  <2> QED
    BY <1>1, <2>1, <2>2, HeldKept
<1> QED
  BY <1>1, <1>2 DEF Consistent, CustodyOK, TicksOK, StatusOK, ShownOK, Recorded, clientVars,
     storeVars

-----------------------------------------------------------------------------
(* One lemma per action.                                                   *)

(* compose_direct and the flush behind it.                                 *)
LEMMA ComposeStep ==
    ASSUME Consistent, NEW p \in Client, NEW m \in Msg, Compose(p, m)
    PROVE  Consistent'
<1> DEFINE u == Sender[m]
           c == link[p]
           S == OutboxOf(u, outbox')
           N == [type : {"Send"}, msg : S]
<1>1. /\ outbox' = outbox \cup {m} /\ posted' = posted \cup {m}
      /\ S \in SUBSET Msg /\ S \subseteq posted'
      /\ u \in User /\ m \notin posted /\ queue[m] = "absent" /\ m \notin outbox
      /\ N \subseteq ClientFrame
  BY RelayAssumption DEF Consistent, TypeOK, Compose, OutboxOf, CustodyOK, ClientFrame
<1>2. /\ up' \in [Conn -> Seq(ClientFrame)]
      /\ \A d \in Conn : Range(up'[d]) \subseteq Range(up[d]) \cup N
  <2>1. CASE c # NoConn /\ open[c]
    <3>1. c \in Conn /\ up' = [up EXCEPT ![c] = @ \o Frames("Send", S)]
      BY <1>1, <2>1 DEF Consistent, TypeOK, Compose
    <3> HIDE DEF S, c
    <3> QED
      BY <1>1, <3>1, PourType DEF Consistent, TypeOK
  <2>2. CASE ~(c # NoConn /\ open[c])
    BY <2>2 DEF Consistent, TypeOK, Compose
  <2> QED
    BY <2>1, <2>2
<1>3. TypeOK'
  BY <1>1, <1>2 DEF Consistent, TypeOK, Compose, LocalState, Rank, linkVars, storeVars,
     handlerVars, faultVars
<1>4. Forward
  BY <1>1 DEF Consistent, TypeOK, Compose, Forward, Recorded, storeVars
<1>5. \A f \in N : UpOK(f)'
  BY <1>1 DEF UpOK
<1>6. \A d \in Conn : \A f \in Range(up'[d]) : UpOK(f)'
  <2> HIDE DEF N
  <2> QED
    BY <1>2, <1>4, <1>5, UpKept
<1>7. \A d \in Conn : \A f \in Range(down'[d]) : DownOK(f)'
  BY <1>4, DownSame DEF Compose
<1>8. \A d \in Conn : HandlerOK(d)'
  BY <1>4, HandlerKept DEF Compose, handlerVars
<1>9. \A k \in Msg : (CustodyOK(k) /\ TicksOK(k) /\ StatusOK(k) /\ ShownOK(k))'
  BY <1>1 DEF Consistent, TypeOK, Compose, CustodyOK, TicksOK, StatusOK, ShownOK,
     Recorded, storeVars, faultVars
<1>10. \A q \in Client : HeldOK(q)'
  <2>1. raced' = raced /\ local' = [local EXCEPT ![m] = "queued_local"]
    BY DEF Compose
  <2>2. ASSUME NEW q \in Client, held[q] # Idle
        PROVE  local'[held[q].msg] = local[held[q].msg]
    BY <1>1, <2>1, <2>2, HeldMsg DEF Consistent, HeldOK, TypeOK
  <2> QED
    BY <1>4, <2>1, <2>2, HeldKept DEF Compose, linkVars
<1> QED
  BY <1>3, <1>6, <1>7, <1>8, <1>9, <1>10 DEF Consistent

(* A client that ends leaves types and the frames it did not read.         *)
LEMMA CloseClientType ==
    ASSUME TypeOK, NEW p \in Client, CloseClient(p)
    PROVE  /\ link' \in [Client -> Conn \cup {NoConn}]
           /\ open' \in [Conn -> BOOLEAN]
           /\ down' \in [Conn -> Seq(ServerFrame)]
           /\ held' \in [Client -> Held]
           /\ drops' \in 0..MaxDrops
           /\ \A d \in Conn : Range(down'[d]) \subseteq Range(down[d])
           /\ held'[p] = Idle
           /\ \A q \in Client \ {p} : held'[q] = held[q] /\ link'[q] = link[q]
<1>1. drops' \in 0..MaxDrops
  BY RelayAssumption DEF TypeOK, CloseClient
<1>2. /\ held' \in [Client -> Held] /\ held'[p] = Idle
      /\ link' \in [Client -> Conn \cup {NoConn}]
      /\ \A q \in Client \ {p} : held'[q] = held[q] /\ link'[q] = link[q]
  BY DEF TypeOK, CloseClient, Held
<1>3. CASE link[p] = NoConn
  BY <1>1, <1>2, <1>3 DEF TypeOK, CloseClient
<1>4. CASE link[p] # NoConn
  <2> DEFINE c == link[p]
  <2>1. /\ c \in Conn /\ open' = [open EXCEPT ![c] = FALSE]
        /\ down' = [down EXCEPT ![c] = <<>>]
    BY <1>4 DEF TypeOK, CloseClient
  <2> HIDE DEF c
  <2>2. \A d \in Conn : Range(down'[d]) \subseteq Range(down[d])
    BY <2>1, RangeOfEmpty DEF TypeOK
  <2> QED
    BY <1>1, <1>2, <2>1, <2>2 DEF TypeOK
<1> QED
  BY <1>3, <1>4

(* What the others hold when process p has put its frame down.             *)
LEMMA HeldAfter ==
    ASSUME Consistent, Forward, NEW p \in Client, held'[p] = Idle,
           \A q \in Client \ {p} : held'[q] = held[q] /\ link'[q] = link[q],
           UNCHANGED <<local, raced>>
    PROVE  \A q \in Client : HeldOK(q)'
<1>1. \A q \in Client : held'[q] # Idle => held'[q] = held[q] /\ link'[q] = link[q]
  OBVIOUS
<1> QED
  BY <1>1, HeldKept

(* The crash between the two inserts of compose_direct.                    *)
LEMMA CrashInComposeStep ==
    ASSUME Consistent, NEW p \in Client, NEW m \in Msg, CrashInCompose(p, m)
    PROVE  Consistent'
<1>1. /\ m \notin posted /\ queue[m] = "absent" /\ Sender[m] \in User
      /\ local' = [local EXCEPT ![m] = "queued_local"]
  BY RelayAssumption DEF Consistent, CrashInCompose, CustodyOK
<1>2. /\ link' \in [Client -> Conn \cup {NoConn}]
      /\ open' \in [Conn -> BOOLEAN]
      /\ down' \in [Conn -> Seq(ServerFrame)]
      /\ held' \in [Client -> Held]
      /\ drops' \in 0..MaxDrops
      /\ \A d \in Conn : Range(down'[d]) \subseteq Range(down[d])
      /\ held'[p] = Idle
      /\ \A q \in Client \ {p} : held'[q] = held[q] /\ link'[q] = link[q]
  BY <1>1, CloseClientType DEF Consistent, CrashInCompose
<1>3. TypeOK'
  BY <1>1, <1>2 DEF Consistent, TypeOK, CrashInCompose, LocalState, Rank, storeVars,
     handlerVars
<1>4. Forward
  BY <1>1 DEF Consistent, TypeOK, CrashInCompose, Forward, Recorded, storeVars
<1>5. \A d \in Conn : \A f \in Range(up'[d]) : UpOK(f)'
  BY <1>4, UpSame DEF CrashInCompose
<1>6. \A d \in Conn : \A f \in Range(down'[d]) : DownOK(f)'
  BY <1>2, <1>4, DownFewer
<1>7. \A d \in Conn : HandlerOK(d)'
  BY <1>4, HandlerKept DEF CrashInCompose, handlerVars
<1>8. \A k \in Msg : (CustodyOK(k) /\ TicksOK(k) /\ StatusOK(k) /\ ShownOK(k))'
  BY <1>1 DEF Consistent, TypeOK, CrashInCompose, CustodyOK, TicksOK, StatusOK, ShownOK,
     Recorded, storeVars
<1>9. \A q \in Client : HeldOK(q)'
  <2>1. \A q \in Client : held'[q] # Idle => held'[q] = held[q] /\ link'[q] = link[q]
    BY <1>2
  <2>2. raced' = raced
    BY DEF CrashInCompose
  <2>3. ASSUME NEW q \in Client, held[q] # Idle
        PROVE  local'[held[q].msg] = local[held[q].msg]
    BY <1>1, <2>3, HeldMsg DEF Consistent, HeldOK, TypeOK
  <2> QED
    BY <1>4, <2>1, <2>2, <2>3, HeldKept
<1> QED
  BY <1>3, <1>5, <1>6, <1>7, <1>8, <1>9 DEF Consistent

(* A client ends between two frames.                                       *)
LEMMA QuitStep ==
    ASSUME Consistent, NEW p \in Client, Quit(p)
    PROVE  Consistent'
<1>1. /\ link' \in [Client -> Conn \cup {NoConn}]
      /\ open' \in [Conn -> BOOLEAN]
      /\ down' \in [Conn -> Seq(ServerFrame)]
      /\ held' \in [Client -> Held]
      /\ drops' \in 0..MaxDrops
      /\ \A d \in Conn : Range(down'[d]) \subseteq Range(down[d])
      /\ held'[p] = Idle
      /\ \A q \in Client \ {p} : held'[q] = held[q] /\ link'[q] = link[q]
  BY CloseClientType DEF Consistent, Quit
<1>2. TypeOK'
  BY <1>1 DEF Consistent, TypeOK, Quit, storeVars, handlerVars
<1>3. Forward
  BY DEF Consistent, Quit, Forward, Recorded, storeVars
<1>4. \A d \in Conn : \A f \in Range(up'[d]) : UpOK(f)'
  BY <1>3, UpSame DEF Quit
<1>5. \A d \in Conn : \A f \in Range(down'[d]) : DownOK(f)'
  BY <1>1, <1>3, DownFewer
<1>6. \A d \in Conn : HandlerOK(d)'
  BY <1>3, HandlerKept DEF Quit, handlerVars
<1>7. \A k \in Msg : (CustodyOK(k) /\ TicksOK(k) /\ StatusOK(k) /\ ShownOK(k))'
  BY DEF Consistent, Quit, CustodyOK, TicksOK, StatusOK, ShownOK, Recorded, storeVars
<1>8. \A q \in Client : HeldOK(q)'
  BY <1>1, <1>3, HeldAfter DEF Quit
<1> QED
  BY <1>2, <1>4, <1>5, <1>6, <1>7, <1>8 DEF Consistent

(* connect_ws and the flush behind it.                                     *)
LEMMA ConnectStep ==
    ASSUME Consistent, NEW c \in Conn, Connect(c)
    PROVE  Consistent'
<1> DEFINE p == Owner[c]
           u == Account[p]
           S == OutboxOf(u, outbox)
           N == [type : {"Send"}, msg : S]
<1>1. /\ p \in Client /\ u \in User /\ S \in SUBSET Msg /\ S \subseteq posted
      /\ N \subseteq ClientFrame
  BY RelayAssumption DEF Consistent, TypeOK, OutboxOf, CustodyOK, ClientFrame
<1>2. /\ up' \in [Conn -> Seq(ClientFrame)]
      /\ \A d \in Conn : Range(up'[d]) \subseteq Range(up[d]) \cup N
  <2>1. up' = [up EXCEPT ![c] = Frames("Send", S)]
    BY DEF Connect
  <2> HIDE DEF S
  <2>2. Frames("Send", S) \in Seq(ClientFrame) /\ Range(Frames("Send", S)) \subseteq N
    BY <1>1, PourType DEF Consistent, TypeOK
  <2> QED
    BY <2>1, <2>2 DEF Consistent, TypeOK
<1>3. /\ down' \in [Conn -> Seq(ServerFrame)]
      /\ \A d \in Conn : Range(down'[d]) \subseteq Range(down[d])
  BY RangeOfEmpty DEF Consistent, TypeOK, Connect
<1>4. TypeOK'
  BY <1>1, <1>2, <1>3 DEF Consistent, TypeOK, Connect, Startup, Phase, clientVars,
     storeVars, faultVars
<1>5. Forward
  BY DEF Consistent, Connect, Forward, Recorded, clientVars, storeVars
<1>6. \A f \in N : UpOK(f)'
  BY <1>1 DEF UpOK, Connect, clientVars
<1>7. \A d \in Conn : \A f \in Range(up'[d]) : UpOK(f)'
  <2> HIDE DEF N
  <2> QED
    BY <1>2, <1>5, <1>6, UpKept
<1>8. \A d \in Conn : \A f \in Range(down'[d]) : DownOK(f)'
  BY <1>3, <1>5, DownFewer
<1>9. \A d \in Conn : HandlerOK(d)'
  <2>1. HandlerOK(c)'
    BY DEF Consistent, TypeOK, Connect, HandlerOK, Startup
  <2>2. ASSUME NEW d \in Conn, d # c PROVE HandlerOK(d)'
    BY <1>5, <2>2, HandlerKept DEF Consistent, TypeOK, Connect
  <2> QED
    BY <2>1, <2>2
<1>10. \A k \in Msg : (CustodyOK(k) /\ TicksOK(k) /\ StatusOK(k) /\ ShownOK(k))'
  BY DEF Consistent, Connect, CustodyOK, TicksOK, StatusOK, ShownOK, clientVars,
     Recorded, storeVars, faultVars
<1>11. \A q \in Client : HeldOK(q)'
  <2>1. \A q \in Client : held[q] # Idle => link'[q] = link[q]
    BY <1>1 DEF Consistent, HeldOK, Connect
  <2>2. held' = held /\ local' = local /\ raced' = raced
    BY DEF Connect, clientVars
  <2> QED
    BY <1>5, <2>1, <2>2, HeldKept
<1> QED
  BY <1>4, <1>7, <1>8, <1>9, <1>10, <1>11 DEF Consistent

(* The frame a client takes is a true one, and taking it adds none.        *)
LEMMA ClientReadsType ==
    ASSUME Consistent, NEW c \in Conn, NEW t, ClientReads(c, t)
    PROVE  /\ Head(down[c]) \in ServerFrame /\ Head(down[c]).msg \in Msg
           /\ Head(down[c]).type = t /\ DownOK(Head(down[c]))
           /\ down' \in [Conn -> Seq(ServerFrame)]
           /\ \A d \in Conn : Range(down'[d]) \subseteq Range(down[d])
<1>1. down \in [Conn -> Seq(ServerFrame)] /\ down[c] # <<>> /\ Head(down[c]).type = t
  BY DEF Consistent, TypeOK, ClientReads, NextIs
<1>2. /\ Head(down[c]) \in ServerFrame /\ Head(down[c]) \in Range(down[c])
      /\ [down EXCEPT ![c] = Tail(@)] \in [Conn -> Seq(ServerFrame)]
      /\ \A d \in Conn : Range([down EXCEPT ![c] = Tail(@)][d]) \subseteq Range(down[d])
  BY <1>1, PopType
<1> QED
  BY <1>1, <1>2 DEF Consistent, ClientReads, ServerFrame

(* The frame a handler takes is a true one, and taking it adds none.       *)
LEMMA HandlerReadsType ==
    ASSUME Consistent, NEW c \in Conn, NEW t, HandlerReads(c, t)
    PROVE  /\ Head(up[c]) \in ClientFrame /\ Head(up[c]).msg \in Msg
           /\ Head(up[c]).type = t /\ UpOK(Head(up[c]))
           /\ up' \in [Conn -> Seq(ClientFrame)]
           /\ \A d \in Conn : Range(up'[d]) \subseteq Range(up[d])
<1>1. up \in [Conn -> Seq(ClientFrame)] /\ up[c] # <<>> /\ Head(up[c]).type = t
  BY DEF Consistent, TypeOK, HandlerReads, NextIs
<1>2. /\ Head(up[c]) \in ClientFrame /\ Head(up[c]) \in Range(up[c])
      /\ [up EXCEPT ![c] = Tail(@)] \in [Conn -> Seq(ClientFrame)]
      /\ \A d \in Conn : Range([up EXCEPT ![c] = Tail(@)][d]) \subseteq Range(up[d])
  BY <1>1, PopType
<1> QED
  BY <1>1, <1>2 DEF Consistent, HandlerReads, ClientFrame

(* handle_incoming, then Ack.                                              *)
LEMMA ReceiveDeliverStep ==
    ASSUME Consistent, NEW c \in Conn, ReceiveDeliver(c)
    PROVE  Consistent'
<1>1. PICK m \in Msg :
        /\ queue[m] # "absent"
        /\ inbox' = inbox \cup {m} /\ shows' = [shows EXCEPT ![m] = TimesStored(m)]
        /\ up' = Put(up, c, Frame("Ack", m))
  BY ClientReadsType DEF ReceiveDeliver, DownOK
<1>2. /\ down' \in [Conn -> Seq(ServerFrame)]
      /\ \A d \in Conn : Range(down'[d]) \subseteq Range(down[d])
  BY ClientReadsType DEF ReceiveDeliver
<1> DEFINE g == Frame("Ack", m)
<1>3. /\ g \in ClientFrame /\ g.type = "Ack" /\ g.msg = m
      /\ up' \in [Conn -> Seq(ClientFrame)]
      /\ \A d \in Conn : Range(up'[d]) \subseteq Range(up[d]) \cup {g}
  <2>1. g \in ClientFrame /\ g.type = "Ack" /\ g.msg = m
    BY DEF Frame, ClientFrame
  <2> HIDE DEF g
  <2> QED
    BY <1>1, <2>1, PutType DEF Consistent, TypeOK, g
<1> HIDE DEF g
<1>4. TimesStored(m) \in Nat /\ TimesStored(m) >= shows[m] /\ TimesStored(m) > 0
      /\ TimesStored(m) <= 1 + clears
  <2>1. shows[m] \in Nat /\ clears \in Nat /\ (m \in inbox => shows[m] > 0)
        /\ shows[m] <= 1 + clears /\ (m \notin inbox => shows[m] <= clears)
    BY <1>1, RelayAssumption DEF Consistent, TypeOK, ShownOK
  <2> QED
    BY <2>1 DEF TimesStored
<1>5. TypeOK'
  <2>1. inbox' \subseteq Msg /\ shows' \in [Msg -> Nat]
    BY <1>1, <1>4 DEF Consistent, TypeOK
  <2> QED
    BY <1>2, <1>3, <2>1 DEF Consistent, TypeOK, ReceiveDeliver, linkVars, storeVars,
       handlerVars, faultVars
<1>6. Forward
  BY <1>1, <1>4 DEF Consistent, TypeOK, ReceiveDeliver, Forward, Recorded, storeVars
<1>7. UpOK(g)'
  BY <1>1, <1>3, <1>4 DEF Consistent, TypeOK, UpOK
<1>8. \A d \in Conn : \A f \in Range(up'[d]) : UpOK(f)'
  BY <1>3, <1>6, <1>7, UpOne
<1>9. \A d \in Conn : \A f \in Range(down'[d]) : DownOK(f)'
  BY <1>2, <1>6, DownFewer
<1>10. \A d \in Conn : HandlerOK(d)'
  BY <1>6, HandlerKept DEF ReceiveDeliver, handlerVars
<1>11. \A k \in Msg : (CustodyOK(k) /\ TicksOK(k) /\ StatusOK(k) /\ ShownOK(k))'
  BY <1>1, <1>4 DEF Consistent, TypeOK, ReceiveDeliver, CustodyOK, TicksOK, StatusOK,
     ShownOK, Recorded, storeVars, faultVars
<1>12. \A q \in Client : HeldOK(q)'
  BY <1>6, HeldKept DEF ReceiveDeliver, linkVars
<1> QED
  BY <1>5, <1>8, <1>9, <1>10, <1>11, <1>12 DEF Consistent

(* A Deliver the client cannot use.                                        *)
LEMMA RejectDeliverStep ==
    ASSUME Consistent, NEW c \in Conn, RejectDeliver(c)
    PROVE  Consistent'
<1>1. /\ down' \in [Conn -> Seq(ServerFrame)]
      /\ \A d \in Conn : Range(down'[d]) \subseteq Range(down[d])
  BY ClientReadsType DEF RejectDeliver
<1>2. TypeOK'
  BY <1>1, RelayAssumption DEF Consistent, TypeOK, RejectDeliver, clientVars, linkVars,
     storeVars, handlerVars
<1>3. /\ Forward
      /\ \A k \in Msg : (CustodyOK(k) /\ TicksOK(k) /\ StatusOK(k) /\ ShownOK(k))'
      /\ \A p \in Client : HeldOK(p)'
  BY TablesKept DEF RejectDeliver, linkVars
<1>4. \A d \in Conn : \A f \in Range(up'[d]) : UpOK(f)'
  BY <1>3, UpSame DEF RejectDeliver
<1>5. \A d \in Conn : \A f \in Range(down'[d]) : DownOK(f)'
  BY <1>1, <1>3, DownFewer
<1>6. \A d \in Conn : HandlerOK(d)'
  BY <1>3, HandlerKept DEF RejectDeliver, handlerVars
<1> QED
  BY <1>2, <1>3, <1>4, <1>5, <1>6 DEF Consistent

(* The first statement of set_state: the process has the row's state.      *)
LEMMA ReadStateStep ==
    ASSUME Consistent, NEW c \in Conn, ReadState(c)
    PROVE  Consistent'
<1>1. PICK t \in {"Accepted", "Receipt"}, m \in Msg, p \in Client :
        /\ ClientReads(c, t) /\ m = Head(down[c]).msg /\ p = Owner[c]
        /\ queue[m] # "absent" /\ (t = "Receipt" => queue[m] = "acked")
        /\ held' = [held EXCEPT ![p] = [type |-> t, msg |-> m, old |-> local[m]]]
  <2>1. PICK t \in {"Accepted", "Receipt"} :
          /\ ClientReads(c, t)
          /\ held' = [held EXCEPT ![Owner[c]] =
                [type |-> t, msg |-> Head(down[c]).msg, old |-> local[Head(down[c]).msg]]]
    BY DEF ReadState
  <2>2. /\ Head(down[c]).msg \in Msg /\ Head(down[c]).type = t
        /\ DownOK(Head(down[c])) /\ Owner[c] \in Client
    BY <2>1, ClientReadsType, RelayAssumption
  <2>3. /\ queue[Head(down[c]).msg] # "absent"
        /\ t = "Receipt" => queue[Head(down[c]).msg] = "acked"
    BY <2>2 DEF DownOK
  <2> QED
    BY <2>1, <2>2, <2>3
<1>2. /\ down' \in [Conn -> Seq(ServerFrame)]
      /\ \A d \in Conn : Range(down'[d]) \subseteq Range(down[d])
  BY <1>1, ClientReadsType
<1>3. held' \in [Client -> Held]
  BY <1>1 DEF Consistent, TypeOK, Held
<1>4. TypeOK'
  BY <1>2, <1>3 DEF Consistent, TypeOK, ReadState, linkVars, storeVars, handlerVars, faultVars
<1>5. Forward
  BY DEF Consistent, ReadState, Forward, Recorded, storeVars
<1>6. \A d \in Conn : \A f \in Range(up'[d]) : UpOK(f)'
  BY <1>5, UpSame DEF ReadState
<1>7. \A d \in Conn : \A f \in Range(down'[d]) : DownOK(f)'
  BY <1>2, <1>5, DownFewer
<1>8. \A d \in Conn : HandlerOK(d)'
  BY <1>5, HandlerKept DEF ReadState, handlerVars
<1>9. \A k \in Msg : (CustodyOK(k) /\ TicksOK(k) /\ StatusOK(k) /\ ShownOK(k))'
  BY DEF Consistent, ReadState, CustodyOK, TicksOK, StatusOK, ShownOK, Recorded, storeVars,
     faultVars
<1>10. \A q \in Client : HeldOK(q)'
  <2>1. /\ link' = link /\ local' = local /\ raced' = raced /\ queue' = queue
        /\ link[p] = c /\ c # NoConn
    BY <1>1, RelayAssumption DEF ReadState, ClientReads, linkVars, storeVars
  <2>2. HeldOK(p)'
    BY <1>1, <2>1 DEF Consistent, TypeOK, HeldOK
  <2>3. ASSUME NEW q \in Client, q # p PROVE HeldOK(q)'
    BY <1>1, <2>1, <2>3 DEF Consistent, TypeOK, HeldOK
  <2> QED
    BY <2>2, <2>3
<1> QED
  BY <1>4, <1>6, <1>7, <1>8, <1>9, <1>10 DEF Consistent

(* The second: what the UPDATE of process p makes of the row, and what the *)
(* other processes at the same message are now said to have met.           *)
LEMMA UpdateRow ==
    ASSUME Consistent, NEW p \in Client, held[p] # Idle,
           NEW new \in {"sent", "delivered"},
           new = "delivered" => held[p].type = "Receipt", Update(p, new)
    PROVE  \E m \in Msg :
             /\ m = held[p].msg /\ queue[m] # "absent"
             /\ new = "delivered" => queue[m] = "acked"
             /\ local' = [local EXCEPT ![m] = local'[m]]
             /\ local'[m] \in {local[m], new} /\ local'[m] \in LocalState
             /\ local[m] = "absent" => local'[m] = "absent"
             /\ raced \subseteq raced' /\ raced' \subseteq Msg
             /\ m \notin raced' /\ local[m] = "delivered" => local'[m] = "delivered"
             /\ m \notin raced' /\ new = "delivered" => local'[m] \in {"delivered", "absent"}
             /\ m \notin raced => Rank[local'[m]] >= Rank[local[m]]
             /\ \A q \in Client \ {p} : held[q].msg = m => m \in raced'
<1>1. PICK m \in Msg : m = held[p].msg
  BY HeldMsg DEF Consistent
<1>2. /\ held[p].old \in LocalState /\ local[m] \in LocalState
      /\ local \in [Msg -> LocalState] /\ raced \subseteq Msg
  BY HeldMsg DEF Consistent, TypeOK
<1>3. /\ queue[m] # "absent" /\ (new = "delivered" => queue[m] = "acked")
      /\ m \notin raced => local[m] \in {held[p].old, "absent"}
  BY <1>1 DEF Consistent, HeldOK
<1>4. local' = [local EXCEPT ![m] = Advance(@, held[p].old, new)]
  BY <1>1 DEF Update
<1>5. /\ local'[m] = Advance(local[m], held[p].old, new)
      /\ local' = [local EXCEPT ![m] = local'[m]]
  BY <1>2, <1>4
<1>6. /\ raced \subseteq raced' /\ raced' \subseteq Msg
      /\ \A q \in Client \ {p} : held[q].msg = m => m \in raced'
  BY <1>1, <1>2 DEF Update
<1>7. /\ local'[m] \in {local[m], new} /\ local'[m] \in LocalState
      /\ local[m] = "absent" => local'[m] = "absent"
  BY <1>2, <1>5 DEF Advance, LocalState, Rank
<1>8. m \notin raced => /\ local[m] = "delivered" => local'[m] = "delivered"
                        /\ new = "delivered" => local'[m] \in {"delivered", "absent"}
                        /\ Rank[local'[m]] >= Rank[local[m]]
  BY <1>2, <1>3, <1>5 DEF Advance, LocalState, Rank
<1> QED
  BY <1>1, <1>3, <1>5, <1>6, <1>7, <1>8

(* A step that is the UPDATE of p and touches no table of the relay.       *)
LEMMA UpdateKept ==
    ASSUME Consistent, NEW p \in Client, held[p] # Idle,
           NEW new \in {"sent", "delivered"},
           new = "delivered" => held[p].type = "Receipt", Update(p, new),
           outbox' \subseteq outbox, outbox \ {held[p].msg} \subseteq outbox',
           UNCHANGED <<inbox, posted, shows, storeVars, clears>>,
           held'[p] = Idle,
           \A q \in Client \ {p} : held'[q] = held[q] /\ link'[q] = link[q]
    PROVE  /\ Forward
           /\ \A k \in Msg : (CustodyOK(k) /\ TicksOK(k) /\ StatusOK(k) /\ ShownOK(k))'
           /\ \A q \in Client : HeldOK(q)'
<1>1. PICK m \in Msg :
        /\ m = held[p].msg /\ queue[m] # "absent"
        /\ new = "delivered" => queue[m] = "acked"
        /\ local' = [local EXCEPT ![m] = local'[m]]
        /\ local'[m] \in {local[m], new} /\ local'[m] \in LocalState
        /\ local[m] = "absent" => local'[m] = "absent"
        /\ raced \subseteq raced' /\ raced' \subseteq Msg
        /\ m \notin raced' /\ local[m] = "delivered" => local'[m] = "delivered"
        /\ \A q \in Client \ {p} : held[q].msg = m => m \in raced'
  BY UpdateRow
<1>2. \A k \in Msg \ {m} : local'[k] = local[k]
  BY <1>1 DEF Consistent, TypeOK
<1>3. \A k \in Msg : Recorded(k) => Recorded(k)'
  BY <1>1, <1>2 DEF Recorded
<1>4. Forward
  BY <1>3 DEF Forward, storeVars
<1>5. \A q \in Client : HeldOK(q)'
  <2>1. \A q \in Client : held'[q] # Idle => held'[q] = held[q] /\ link'[q] = link[q]
    OBVIOUS
  <2>2. ASSUME NEW q \in Client, held'[q] # Idle, held[q].msg \notin raced'
        PROVE  held[q].msg \notin raced /\ local'[held[q].msg] = local[held[q].msg]
    <3>1. q # p /\ held[q] # Idle
      BY <2>2
    <3>2. held[q].msg \in Msg
      BY <3>1, HeldMsg DEF Consistent
    <3> QED
      BY <1>1, <1>2, <2>2, <3>1, <3>2
  <2> QED
    BY <1>4, <2>1, <2>2, HeldKept
<1>6. ASSUME NEW k \in Msg
      PROVE  (CustodyOK(k) /\ TicksOK(k) /\ StatusOK(k) /\ ShownOK(k))'
  <2>1. CustodyOK(k) /\ TicksOK(k) /\ StatusOK(k) /\ ShownOK(k)
    BY DEF Consistent
  <2>2. CustodyOK(k)'
    BY <1>1, <2>1 DEF CustodyOK, storeVars
  <2>3. TicksOK(k)'
    BY <1>1, <1>2, <2>1 DEF TicksOK, storeVars
  <2>4. StatusOK(k)'
    BY <1>3, <2>1 DEF StatusOK, storeVars
  <2>5. ShownOK(k)'
    BY <2>1 DEF ShownOK
  <2> QED
    BY <2>2, <2>3, <2>4, <2>5
<1> QED
  BY <1>4, <1>5, <1>6

(* Accepted: a frame that says the relay has the message.                  *)
LEMMA ReceiveAcceptedStep ==
    ASSUME Consistent, NEW p \in Client, ReceiveAccepted(p)
    PROVE  Consistent'
<1>1. held[p] # Idle /\ Update(p, "sent")
  BY DEF ReceiveAccepted, Idle
<1>2. /\ held' \in [Client -> Held] /\ held'[p] = Idle
      /\ \A q \in Client \ {p} : held'[q] = held[q] /\ link'[q] = link[q]
  BY DEF Consistent, TypeOK, ReceiveAccepted, Held, linkVars
<1>3. /\ Forward
      /\ \A k \in Msg : (CustodyOK(k) /\ TicksOK(k) /\ StatusOK(k) /\ ShownOK(k))'
      /\ \A q \in Client : HeldOK(q)'
  BY <1>1, <1>2, UpdateKept DEF ReceiveAccepted, faultVars
<1>4. local' \in [Msg -> LocalState] /\ raced' \subseteq Msg
  BY <1>1, UpdateRow DEF Consistent, TypeOK
<1>5. TypeOK'
  BY <1>2, <1>4 DEF Consistent, TypeOK, ReceiveAccepted, linkVars, storeVars, handlerVars,
     faultVars
<1>6. \A d \in Conn : \A f \in Range(up'[d]) : UpOK(f)'
  BY <1>3, UpSame DEF ReceiveAccepted
<1>7. \A d \in Conn : \A f \in Range(down'[d]) : DownOK(f)'
  BY <1>3, DownSame DEF ReceiveAccepted
<1>8. \A d \in Conn : HandlerOK(d)'
  BY <1>3, HandlerKept DEF ReceiveAccepted, handlerVars
<1> QED
  BY <1>3, <1>5, <1>6, <1>7, <1>8 DEF Consistent

(* The crash between the UPDATE and the outbox row.                        *)
LEMMA CrashInAcceptedStep ==
    ASSUME Consistent, NEW p \in Client, CrashInAccepted(p)
    PROVE  Consistent'
<1>1. held[p] # Idle /\ Update(p, "sent")
  BY DEF CrashInAccepted, Idle
<1>2. /\ link' \in [Client -> Conn \cup {NoConn}]
      /\ open' \in [Conn -> BOOLEAN]
      /\ down' \in [Conn -> Seq(ServerFrame)]
      /\ held' \in [Client -> Held]
      /\ drops' \in 0..MaxDrops
      /\ \A d \in Conn : Range(down'[d]) \subseteq Range(down[d])
      /\ held'[p] = Idle
      /\ \A q \in Client \ {p} : held'[q] = held[q] /\ link'[q] = link[q]
  BY CloseClientType DEF Consistent, CrashInAccepted
<1>3. /\ Forward
      /\ \A k \in Msg : (CustodyOK(k) /\ TicksOK(k) /\ StatusOK(k) /\ ShownOK(k))'
      /\ \A q \in Client : HeldOK(q)'
  BY <1>1, <1>2, UpdateKept DEF CrashInAccepted
<1>4. local' \in [Msg -> LocalState] /\ raced' \subseteq Msg
  BY <1>1, UpdateRow DEF Consistent, TypeOK
<1>5. TypeOK'
  BY <1>2, <1>4 DEF Consistent, TypeOK, CrashInAccepted, storeVars, handlerVars
<1>6. \A d \in Conn : \A f \in Range(up'[d]) : UpOK(f)'
  BY <1>3, UpSame DEF CrashInAccepted
<1>7. \A d \in Conn : \A f \in Range(down'[d]) : DownOK(f)'
  BY <1>2, <1>3, DownFewer
<1>8. \A d \in Conn : HandlerOK(d)'
  BY <1>3, HandlerKept DEF CrashInAccepted, handlerVars
<1> QED
  BY <1>3, <1>5, <1>6, <1>7, <1>8 DEF Consistent

(* Receipt: a frame that says the recipient's Ack arrived; persist, then   *)
(* confirm.                                                                *)
LEMMA ReceiveReceiptStep ==
    ASSUME Consistent, NEW p \in Client, ReceiveReceipt(p)
    PROVE  Consistent'
<1>1. held[p] # Idle /\ held[p].type = "Receipt" /\ Update(p, "delivered")
  BY DEF ReceiveReceipt, Idle
<1>2. /\ held' \in [Client -> Held] /\ held'[p] = Idle
      /\ \A q \in Client \ {p} : held'[q] = held[q] /\ link'[q] = link[q]
  BY DEF Consistent, TypeOK, ReceiveReceipt, Held, linkVars
<1>3. /\ Forward
      /\ \A k \in Msg : (CustodyOK(k) /\ TicksOK(k) /\ StatusOK(k) /\ ShownOK(k))'
      /\ \A q \in Client : HeldOK(q)'
  BY <1>1, <1>2, UpdateKept DEF ReceiveReceipt, faultVars
<1>4. PICK m \in Msg :
        /\ m = held[p].msg /\ queue[m] = "acked"
        /\ m \notin raced' => local'[m] \in {"delivered", "absent"}
        /\ local' \in [Msg -> LocalState] /\ raced' \subseteq Msg
  BY <1>1, UpdateRow DEF Consistent, TypeOK
<1>5. PICK c \in Conn : c = link[p]
  BY <1>1 DEF Consistent, HeldOK, TypeOK
<1> DEFINE g == Frame("ReceiptAck", m)
<1>6. /\ g \in ClientFrame /\ g.type = "ReceiptAck" /\ g.msg = m
      /\ up' \in [Conn -> Seq(ClientFrame)]
      /\ \A d \in Conn : Range(up'[d]) \subseteq Range(up[d]) \cup {g}
  <2>1. g \in ClientFrame /\ g.type = "ReceiptAck" /\ g.msg = m
    BY DEF Frame, ClientFrame
  <2>2. up' = Put(up, c, g)
    BY <1>4, <1>5 DEF ReceiveReceipt
  <2> HIDE DEF g
  <2> QED
    BY <2>1, <2>2, PutType DEF Consistent, TypeOK
<1> HIDE DEF g
<1>7. TypeOK'
  BY <1>2, <1>4, <1>6 DEF Consistent, TypeOK, ReceiveReceipt, linkVars, storeVars,
     handlerVars, faultVars
<1>8. UpOK(g)'
  BY <1>4, <1>6 DEF ReceiveReceipt, UpOK, Recorded, storeVars
<1>9. \A d \in Conn : \A f \in Range(up'[d]) : UpOK(f)'
  BY <1>3, <1>6, <1>8, UpOne
<1>10. \A d \in Conn : \A f \in Range(down'[d]) : DownOK(f)'
  BY <1>3, DownSame DEF ReceiveReceipt
<1>11. \A d \in Conn : HandlerOK(d)'
  BY <1>3, HandlerKept DEF ReceiveReceipt, handlerVars
<1> QED
  BY <1>3, <1>7, <1>9, <1>10, <1>11 DEF Consistent

(* set_state fails: the frame is put down and nothing has changed.         *)
LEMMA SetStateFailsStep ==
    ASSUME Consistent, NEW p \in Client, SetStateFails(p)
    PROVE  Consistent'
<1>1. /\ held' \in [Client -> Held] /\ held'[p] = Idle
      /\ \A q \in Client \ {p} : held'[q] = held[q] /\ link'[q] = link[q]
  BY DEF Consistent, TypeOK, SetStateFails, Held, linkVars
<1>2. TypeOK'
  BY <1>1, RelayAssumption DEF Consistent, TypeOK, SetStateFails, Fails, linkVars, storeVars,
     handlerVars
<1>3. Forward
  BY DEF Consistent, SetStateFails, Forward, Recorded, storeVars
<1>4. \A d \in Conn : \A f \in Range(up'[d]) : UpOK(f)'
  BY <1>3, UpSame DEF SetStateFails
<1>5. \A d \in Conn : \A f \in Range(down'[d]) : DownOK(f)'
  BY <1>3, DownSame DEF SetStateFails
<1>6. \A d \in Conn : HandlerOK(d)'
  BY <1>3, HandlerKept DEF SetStateFails, handlerVars
<1>7. \A k \in Msg : (CustodyOK(k) /\ TicksOK(k) /\ StatusOK(k) /\ ShownOK(k))'
  BY DEF Consistent, SetStateFails, Fails, CustodyOK, TicksOK, StatusOK, ShownOK, Recorded,
     storeVars
<1>8. \A q \in Client : HeldOK(q)'
  BY <1>1, <1>3, HeldAfter DEF SetStateFails
<1> QED
  BY <1>2, <1>4, <1>5, <1>6, <1>7, <1>8 DEF Consistent

(* Error: nothing but the channel changes.                                 *)
LEMMA ReceiveErrorStep ==
    ASSUME Consistent, NEW c \in Conn, ReceiveError(c)
    PROVE  Consistent'
<1>1. /\ down' \in [Conn -> Seq(ServerFrame)]
      /\ \A d \in Conn : Range(down'[d]) \subseteq Range(down[d])
  BY ClientReadsType DEF ReceiveError
<1>2. TypeOK'
  BY <1>1 DEF Consistent, TypeOK, ReceiveError, clientVars, linkVars, storeVars,
     handlerVars, faultVars
<1>3. /\ Forward
      /\ \A k \in Msg : (CustodyOK(k) /\ TicksOK(k) /\ StatusOK(k) /\ ShownOK(k))'
      /\ \A p \in Client : HeldOK(p)'
  BY TablesKept DEF ReceiveError, faultVars, linkVars
<1>4. \A d \in Conn : \A f \in Range(up'[d]) : UpOK(f)'
  BY <1>3, UpSame DEF ReceiveError
<1>5. \A d \in Conn : \A f \in Range(down'[d]) : DownOK(f)'
  BY <1>1, <1>3, DownFewer
<1>6. \A d \in Conn : HandlerOK(d)'
  BY <1>3, HandlerKept DEF ReceiveError, handlerVars
<1> QED
  BY <1>2, <1>3, <1>4, <1>5, <1>6 DEF Consistent

(* The client notices that its connection is gone.                         *)
LEMMA ClientSeesEndStep ==
    ASSUME Consistent, NEW c \in Conn, ClientSeesEnd(c)
    PROVE  Consistent'
<1>1. /\ down' \in [Conn -> Seq(ServerFrame)]
      /\ \A d \in Conn : Range(down'[d]) \subseteq Range(down[d])
  BY RangeOfEmpty DEF Consistent, TypeOK, ClientSeesEnd
<1>2. TypeOK'
  BY <1>1 DEF Consistent, TypeOK, ClientSeesEnd, clientVars, storeVars, handlerVars,
     faultVars
<1>3. /\ Forward
      /\ \A k \in Msg : (CustodyOK(k) /\ TicksOK(k) /\ StatusOK(k) /\ ShownOK(k))'
      /\ \A p \in Client : HeldOK(p)'
  BY TablesKept DEF ClientSeesEnd, faultVars, linkVars
<1>4. \A d \in Conn : \A f \in Range(up'[d]) : UpOK(f)'
  BY <1>3, UpSame DEF ClientSeesEnd
<1>5. \A d \in Conn : \A f \in Range(down'[d]) : DownOK(f)'
  BY <1>1, <1>3, DownFewer
<1>6. \A d \in Conn : HandlerOK(d)'
  BY <1>3, HandlerKept DEF ClientSeesEnd, handlerVars
<1> QED
  BY <1>2, <1>3, <1>4, <1>5, <1>6 DEF Consistent

(* /clear: rows and memory go, and the wipe is counted.                    *)
LEMMA ClearChatStep ==
    ASSUME Consistent, NEW u \in User, NEW v \in User, ClearChat(u, v)
    PROVE  Consistent'
<1>1. /\ clears' = clears + 1 /\ clears' \in 0..MaxClears /\ clears \in Nat
      /\ inbox' \subseteq inbox
      /\ local' \in [Msg -> LocalState]
      /\ \A m \in Msg : local'[m] \in {local[m], "absent"}
  BY RelayAssumption DEF Consistent, TypeOK, ClearChat, LocalState, Rank
<1>2. TypeOK'
  BY <1>1 DEF Consistent, TypeOK, ClearChat, linkVars, storeVars, handlerVars
<1>3. Forward
  BY <1>1 DEF Consistent, TypeOK, ClearChat, Forward, Recorded, storeVars
<1>4. \A d \in Conn : \A f \in Range(up'[d]) : UpOK(f)'
  BY <1>3, UpSame DEF ClearChat
<1>5. \A d \in Conn : \A f \in Range(down'[d]) : DownOK(f)'
  BY <1>3, DownSame DEF ClearChat
<1>6. \A d \in Conn : HandlerOK(d)'
  BY <1>3, HandlerKept DEF ClearChat, handlerVars
<1>7. \A k \in Msg : (CustodyOK(k) /\ TicksOK(k) /\ StatusOK(k) /\ ShownOK(k))'
  BY <1>1 DEF Consistent, TypeOK, ClearChat, CustodyOK, TicksOK, StatusOK, ShownOK,
     Recorded, storeVars
<1>8. \A q \in Client : HeldOK(q)'
  <2>1. held' = held /\ link' = link /\ raced' = raced
    BY DEF ClearChat, linkVars
  <2>2. ASSUME NEW q \in Client, held[q] # Idle
        PROVE  local'[held[q].msg] \in {local[held[q].msg], "absent"}
    BY <1>1, <2>2, HeldMsg DEF Consistent
  <2> QED
    BY <1>3, <2>1, <2>2, HeldKept
<1> QED
  BY <1>2, <1>4, <1>5, <1>6, <1>7, <1>8 DEF Consistent

(* The order of a handler's startup.                                       *)
LEMMA StartupOrder ==
    /\ After("register") = "drain_messages"
    /\ After("drain_messages") = "drain_receipts"
    /\ After("drain_receipts") = "read"
<1>1. /\ Startup[1] = "register" /\ Startup[2] = "drain_messages"
      /\ Startup[3] = "drain_receipts" /\ Startup[4] = "read"
  BY DEF Startup
<1>2. (CHOOSE i \in 1..3 : Startup[i] = "register") = 1
  BY <1>1
<1>3. (CHOOSE i \in 1..3 : Startup[i] = "drain_messages") = 2
  BY <1>1
<1>4. (CHOOSE i \in 1..3 : Startup[i] = "drain_receipts") = 3
  BY <1>1
<1> QED
  BY <1>1, <1>2, <1>3, <1>4 DEF After

(* A handler enters the online map.                                        *)
LEMMA RegisterStep ==
    ASSUME Consistent, NEW c \in Conn, Register(c)
    PROVE  Consistent'
<1>1. /\ pc' = [pc EXCEPT ![c] = "drain_messages"]
      /\ online' \in [User -> Conn \cup {NoConn}]
      /\ latest' \in [User -> Conn \cup {NoConn}]
  BY StartupOrder, RelayAssumption DEF Consistent, TypeOK, Register, Goto
<1>2. TypeOK'
  BY <1>1 DEF Consistent, TypeOK, Register, Phase, clientVars, linkVars, storeVars,
     faultVars
<1>3. /\ Forward
      /\ \A k \in Msg : (CustodyOK(k) /\ TicksOK(k) /\ StatusOK(k) /\ ShownOK(k))'
      /\ \A p \in Client : HeldOK(p)'
  BY TablesKept DEF Register, faultVars, linkVars
<1>4. \A d \in Conn : \A f \in Range(up'[d]) : UpOK(f)'
  BY <1>3, UpSame DEF Register
<1>5. \A d \in Conn : \A f \in Range(down'[d]) : DownOK(f)'
  BY <1>3, DownSame DEF Register
<1>6. HandlerOK(c)'
  BY <1>1 DEF Consistent, TypeOK, HandlerOK
<1>7. \A d \in Conn : HandlerOK(d)'
  BY <1>1, <1>3, <1>6, OthersKept DEF Consistent, TypeOK, Register
<1> QED
  BY <1>2, <1>3, <1>4, <1>5, <1>7 DEF Consistent

(* The drain of the queue: rows that are pending, hence not absent.        *)
LEMMA DrainMessagesStep ==
    ASSUME Consistent, NEW c \in Conn, DrainMessages(c)
    PROVE  Consistent'
<1> DEFINE S == Pending(UserOf(c))
           N == [type : {"Deliver"}, msg : S]
<1>1. S \in SUBSET Msg /\ N \subseteq ServerFrame /\ \A m \in S : queue[m] # "absent"
  BY DEF Pending, ServerFrame
<1>2. /\ down' \in [Conn -> Seq(ServerFrame)]
      /\ \A d \in Conn : Range(down'[d]) \subseteq Range(down[d]) \cup N
  <2>1. CASE open[c]
    <3>1. down' = [down EXCEPT ![c] = @ \o Frames("Deliver", S)]
      BY <2>1 DEF DrainMessages
    <3>2. down \in [Conn -> Seq(ServerFrame)]
      BY DEF Consistent, TypeOK
    <3> HIDE DEF S
    <3> QED
      BY <1>1, <3>1, <3>2, PourType
  <2>2. CASE ~open[c]
    BY <2>2 DEF Consistent, TypeOK, DrainMessages
  <2> QED
    BY <2>1, <2>2
<1>3. pc' = [pc EXCEPT ![c] = "drain_receipts"]
  BY StartupOrder DEF DrainMessages, Goto
<1>4. TypeOK'
  BY <1>2, <1>3 DEF Consistent, TypeOK, DrainMessages, Phase, clientVars, linkVars,
     storeVars, faultVars
<1>5. /\ Forward
      /\ \A k \in Msg : (CustodyOK(k) /\ TicksOK(k) /\ StatusOK(k) /\ ShownOK(k))'
      /\ \A p \in Client : HeldOK(p)'
  BY TablesKept DEF DrainMessages, faultVars, linkVars
<1>6. \A d \in Conn : \A f \in Range(up'[d]) : UpOK(f)'
  BY <1>5, UpSame DEF DrainMessages
<1>7. \A f \in N : DownOK(f)'
  BY <1>1 DEF DownOK, DrainMessages, storeVars
<1>8. \A d \in Conn : \A f \in Range(down'[d]) : DownOK(f)'
  <2> HIDE DEF N
  <2> QED
    BY <1>2, <1>5, <1>7, DownKept
<1>9. HandlerOK(c)'
  BY <1>3 DEF Consistent, TypeOK, HandlerOK
<1>10. \A d \in Conn : HandlerOK(d)'
  BY <1>3, <1>5, <1>9, OthersKept DEF Consistent, TypeOK, DrainMessages
<1> QED
  BY <1>4, <1>5, <1>6, <1>8, <1>10 DEF Consistent

(* The drain of the receipts: no row that is "sent_to_relay" is among      *)
(* them, since every such row is marked notified.                          *)
LEMMA DrainReceiptsStep ==
    ASSUME Consistent, NEW c \in Conn, DrainReceipts(c)
    PROVE  Consistent'
<1> DEFINE S == Unnotified(UserOf(c))
           N == [type : {"Receipt"}, msg : S]
<1>1. S \in SUBSET Msg /\ N \subseteq ServerFrame /\ \A m \in S : queue[m] = "acked"
  BY DEF Consistent, TypeOK, StatusOK, Unnotified, ServerFrame
<1>2. /\ down' \in [Conn -> Seq(ServerFrame)]
      /\ \A d \in Conn : Range(down'[d]) \subseteq Range(down[d]) \cup N
  <2>1. CASE open[c]
    <3>1. down' = [down EXCEPT ![c] = @ \o Frames("Receipt", S)]
      BY <2>1 DEF DrainReceipts
    <3>2. down \in [Conn -> Seq(ServerFrame)]
      BY DEF Consistent, TypeOK
    <3> HIDE DEF S
    <3> QED
      BY <1>1, <3>1, <3>2, PourType
  <2>2. CASE ~open[c]
    BY <2>2 DEF Consistent, TypeOK, DrainReceipts
  <2> QED
    BY <2>1, <2>2
<1>3. pc' = [pc EXCEPT ![c] = "read"]
  BY StartupOrder DEF DrainReceipts, Goto
<1>4. TypeOK'
  BY <1>2, <1>3 DEF Consistent, TypeOK, DrainReceipts, Phase, clientVars, linkVars,
     storeVars, faultVars
<1>5. /\ Forward
      /\ \A k \in Msg : (CustodyOK(k) /\ TicksOK(k) /\ StatusOK(k) /\ ShownOK(k))'
      /\ \A p \in Client : HeldOK(p)'
  BY TablesKept DEF DrainReceipts, faultVars, linkVars
<1>6. \A d \in Conn : \A f \in Range(up'[d]) : UpOK(f)'
  BY <1>5, UpSame DEF DrainReceipts
<1>7. \A f \in N : DownOK(f)'
  BY <1>1 DEF DownOK, DrainReceipts, storeVars
<1>8. \A d \in Conn : \A f \in Range(down'[d]) : DownOK(f)'
  <2> HIDE DEF N
  <2> QED
    BY <1>2, <1>5, <1>7, DownKept
<1>9. HandlerOK(c)'
  BY <1>3 DEF Consistent, TypeOK, HandlerOK
<1>10. \A d \in Conn : HandlerOK(d)'
  BY <1>3, <1>5, <1>9, OthersKept DEF Consistent, TypeOK, DrainReceipts
<1> QED
  BY <1>4, <1>5, <1>6, <1>8, <1>10 DEF Consistent

(* A drain that fails.                                                     *)
LEMMA DrainFailsStep ==
    ASSUME Consistent, NEW c \in Conn, DrainFails(c)
    PROVE  Consistent'
<1>1. pc' = [pc EXCEPT ![c] = "read"] /\ errors' \in 0..MaxErrors
  BY RelayAssumption DEF Consistent, TypeOK, DrainFails, Fails, Goto
<1>2. TypeOK'
  BY <1>1 DEF Consistent, TypeOK, DrainFails, Fails, Phase, clientVars, linkVars,
     storeVars
<1>3. /\ Forward
      /\ \A k \in Msg : (CustodyOK(k) /\ TicksOK(k) /\ StatusOK(k) /\ ShownOK(k))'
      /\ \A p \in Client : HeldOK(p)'
  BY TablesKept DEF DrainFails, Fails, linkVars
<1>4. \A d \in Conn : \A f \in Range(up'[d]) : UpOK(f)'
  BY <1>3, UpSame DEF DrainFails
<1>5. \A d \in Conn : \A f \in Range(down'[d]) : DownOK(f)'
  BY <1>3, DownSame DEF DrainFails
<1>6. HandlerOK(c)'
  BY <1>1 DEF Consistent, TypeOK, HandlerOK
<1>7. \A d \in Conn : HandlerOK(d)'
  BY <1>1, <1>3, <1>6, OthersKept DEF Consistent, TypeOK, DrainFails
<1> QED
  BY <1>2, <1>3, <1>4, <1>5, <1>7 DEF Consistent

(* handle_send up to enqueue_message: the message is one that was posted.  *)
LEMMA ReadSendStep ==
    ASSUME Consistent, NEW c \in Conn, ReadSend(c)
    PROVE  Consistent'
<1>1. PICK m \in Msg :
        /\ m \in posted
        /\ \/ /\ queue[m] = "absent" /\ queue' = [queue EXCEPT ![m] = "pending"]
              /\ pc' = [pc EXCEPT ![c] = "upsert_sent"] /\ cur' = [cur EXCEPT ![c] = m]
              /\ UNCHANGED down
           \/ /\ queue[m] # "absent" /\ down' = Put(down, c, Frame("Accepted", m))
              /\ UNCHANGED <<queue, pc, cur>>
  BY HandlerReadsType DEF ReadSend, UpOK, Handle, Goto
<1>2. /\ up' \in [Conn -> Seq(ClientFrame)]
      /\ \A d \in Conn : Range(up'[d]) \subseteq Range(up[d])
  BY HandlerReadsType DEF ReadSend
<1> DEFINE g == Frame("Accepted", m)
<1>3. g \in ServerFrame /\ g.type = "Accepted" /\ g.msg = m
  BY DEF Frame, ServerFrame
<1> HIDE DEF g
<1>4. /\ down' \in [Conn -> Seq(ServerFrame)]
      /\ \A d \in Conn : Range(down'[d]) \subseteq Range(down[d]) \cup {g}
  <2>1. CASE UNCHANGED down
    BY <2>1 DEF Consistent, TypeOK
  <2>2. CASE down' = Put(down, c, g)
    BY <1>3, <2>2, PutType DEF Consistent, TypeOK
  <2> QED
    BY <1>1, <2>1, <2>2 DEF g
<1>5. Forward
  BY <1>1 DEF Consistent, TypeOK, ReadSend, Forward, Recorded, clientVars
<1>6. /\ queue'[m] # "absent" /\ queue' \in [Msg -> {"absent", "pending", "acked"}]
      /\ pc' \in [Conn -> Phase] /\ cur' \in [Conn -> Msg \cup {NoMsg}]
  <2>1. CASE UNCHANGED <<queue, pc, cur>>
    BY <1>1, <2>1 DEF Consistent, TypeOK
  <2>2. CASE /\ queue' = [queue EXCEPT ![m] = "pending"]
             /\ pc' = [pc EXCEPT ![c] = "upsert_sent"]
             /\ cur' = [cur EXCEPT ![c] = m]
    BY <2>2 DEF Consistent, TypeOK, Phase
  <2> QED
    BY <1>1, <2>1, <2>2
<1>7. TypeOK'
  BY <1>2, <1>4, <1>6 DEF Consistent, TypeOK, ReadSend, clientVars, linkVars, faultVars
<1>8. \A d \in Conn : \A f \in Range(up'[d]) : UpOK(f)'
  BY <1>2, <1>5, UpFewer
<1>9. DownOK(g)'
  BY <1>3, <1>6 DEF DownOK
<1>10. \A d \in Conn : \A f \in Range(down'[d]) : DownOK(f)'
  BY <1>4, <1>5, <1>9, DownOne
<1>11. \A d \in Conn : HandlerOK(d)'
  <2>1. CASE UNCHANGED <<pc, cur>>
    BY <1>5, <2>1, HandlerKept
  <2>2. CASE pc' = [pc EXCEPT ![c] = "upsert_sent"] /\ cur' = [cur EXCEPT ![c] = m]
    <3>1. HandlerOK(c)'
      BY <1>6, <2>2 DEF Consistent, TypeOK, HandlerOK
    <3> QED
      BY <1>5, <2>2, <3>1, OthersKept DEF Consistent, TypeOK
  <2> QED
    BY <1>1, <2>1, <2>2
<1>12. \A k \in Msg : (CustodyOK(k) /\ TicksOK(k) /\ StatusOK(k) /\ ShownOK(k))'
  BY <1>1 DEF Consistent, TypeOK, ReadSend, CustodyOK, TicksOK, StatusOK, ShownOK,
     Recorded, clientVars, faultVars
<1>13. \A q \in Client : HeldOK(q)'
  BY <1>5, HeldKept DEF ReadSend, clientVars, linkVars
<1> QED
  BY <1>7, <1>8, <1>10, <1>11, <1>12, <1>13 DEF Consistent

(* A refusal: only the answer is new.                                      *)
LEMMA RefuseSendStep ==
    ASSUME Consistent, NEW c \in Conn, RefuseSend(c)
    PROVE  Consistent'
<1>1. PICK m \in Msg : down' = Put(down, c, Frame("Error", m))
  BY HandlerReadsType DEF RefuseSend
<1>2. /\ up' \in [Conn -> Seq(ClientFrame)]
      /\ \A d \in Conn : Range(up'[d]) \subseteq Range(up[d])
  BY HandlerReadsType DEF RefuseSend
<1> DEFINE g == Frame("Error", m)
<1>3. g \in ServerFrame /\ g.type = "Error"
  BY DEF Frame, ServerFrame
<1> HIDE DEF g
<1>4. /\ down' \in [Conn -> Seq(ServerFrame)]
      /\ \A d \in Conn : Range(down'[d]) \subseteq Range(down[d]) \cup {g}
  BY <1>1, <1>3, PutType DEF Consistent, TypeOK, g
<1>5. TypeOK'
  BY <1>2, <1>4, RelayAssumption DEF Consistent, TypeOK, RefuseSend, Fails, clientVars,
     linkVars, storeVars, handlerVars
<1>6. /\ Forward
      /\ \A k \in Msg : (CustodyOK(k) /\ TicksOK(k) /\ StatusOK(k) /\ ShownOK(k))'
      /\ \A p \in Client : HeldOK(p)'
  BY TablesKept DEF RefuseSend, Fails, linkVars
<1>7. \A d \in Conn : \A f \in Range(up'[d]) : UpOK(f)'
  BY <1>2, <1>6, UpFewer
<1>8. DownOK(g)'
  BY <1>3 DEF DownOK
<1>9. \A d \in Conn : \A f \in Range(down'[d]) : DownOK(f)'
  BY <1>4, <1>6, <1>8, DownOne
<1>10. \A d \in Conn : HandlerOK(d)'
  BY <1>6, HandlerKept DEF RefuseSend, handlerVars
<1> QED
  BY <1>5, <1>6, <1>7, <1>9, <1>10 DEF Consistent

(* upsert_status after the enqueue: whatever the row held, a row that is   *)
(* "sent_to_relay" and notified contradicts nothing.                       *)
LEMMA UpsertSentStep ==
    ASSUME Consistent, NEW c \in Conn, UpsertSent(c)
    PROVE  Consistent'
<1>1. PICK m \in Msg :
        /\ m = cur[c] /\ queue[m] # "absent"
        /\ status' = [status EXCEPT ![m] = "sent_to_relay"]
        /\ notified' = [notified EXCEPT ![m] = TRUE]
        /\ pc' = [pc EXCEPT ![c] = "push_deliver"]
  BY DEF Consistent, HandlerOK, UpsertSent, Upsert, Goto
<1>2. TypeOK'
  BY <1>1 DEF Consistent, TypeOK, UpsertSent, Phase, clientVars, linkVars, faultVars
<1>3. Forward
  BY DEF Consistent, UpsertSent, Forward, Recorded, clientVars
<1>4. \A d \in Conn : \A f \in Range(up'[d]) : UpOK(f)'
  BY <1>3, UpSame DEF UpsertSent
<1>5. \A d \in Conn : \A f \in Range(down'[d]) : DownOK(f)'
  BY <1>3, DownSame DEF UpsertSent
<1>6. HandlerOK(c)'
  BY <1>1 DEF Consistent, TypeOK, HandlerOK, UpsertSent
<1>7. \A d \in Conn : HandlerOK(d)'
  BY <1>1, <1>3, <1>6, OthersKept DEF Consistent, TypeOK, UpsertSent
<1>8. \A k \in Msg : (CustodyOK(k) /\ TicksOK(k) /\ StatusOK(k) /\ ShownOK(k))'
  BY <1>1 DEF Consistent, TypeOK, UpsertSent, CustodyOK, TicksOK, StatusOK, ShownOK,
     Recorded, clientVars, faultVars
<1>9. \A q \in Client : HeldOK(q)'
  BY <1>3, HeldKept DEF UpsertSent, clientVars, linkVars
<1> QED
  BY <1>2, <1>4, <1>5, <1>7, <1>8, <1>9 DEF Consistent

(* The handler puts its message down.                                      *)
LEMMA HandlerRests ==
    ASSUME Consistent, Forward, NEW c \in Conn, Handle(c, "read", NoMsg)
    PROVE  /\ pc' \in [Conn -> Phase] /\ cur' \in [Conn -> Msg \cup {NoMsg}]
           /\ \A d \in Conn : HandlerOK(d)'
<1>1. /\ pc' = [pc EXCEPT ![c] = "read"] /\ cur' = [cur EXCEPT ![c] = NoMsg]
  BY DEF Handle, Goto
<1>2. pc' \in [Conn -> Phase] /\ cur' \in [Conn -> Msg \cup {NoMsg}]
  BY <1>1 DEF Consistent, TypeOK, Phase
<1>3. HandlerOK(c)'
  BY <1>1 DEF Consistent, TypeOK, HandlerOK
<1> QED
  BY <1>1, <1>2, <1>3, OthersKept DEF Consistent, TypeOK

(* The store fails between enqueue and status.                             *)
LEMMA UpsertSentFailsStep ==
    ASSUME Consistent, NEW c \in Conn, UpsertSentFails(c)
    PROVE  Consistent'
<1>1. PICK m \in Msg : down' = Put(down, c, Frame("Error", m))
  BY DEF Consistent, HandlerOK, UpsertSentFails
<1> DEFINE g == Frame("Error", m)
<1>2. g \in ServerFrame /\ g.type = "Error"
  BY DEF Frame, ServerFrame
<1> HIDE DEF g
<1>3. /\ down' \in [Conn -> Seq(ServerFrame)]
      /\ \A d \in Conn : Range(down'[d]) \subseteq Range(down[d]) \cup {g}
  BY <1>1, <1>2, PutType DEF Consistent, TypeOK, g
<1>4. /\ Forward
      /\ \A k \in Msg : (CustodyOK(k) /\ TicksOK(k) /\ StatusOK(k) /\ ShownOK(k))'
      /\ \A p \in Client : HeldOK(p)'
  BY TablesKept DEF UpsertSentFails, Fails, linkVars
<1>5. /\ pc' \in [Conn -> Phase] /\ cur' \in [Conn -> Msg \cup {NoMsg}]
      /\ \A d \in Conn : HandlerOK(d)'
  BY <1>4, HandlerRests DEF UpsertSentFails
<1>6. TypeOK'
  BY <1>3, <1>5, RelayAssumption DEF Consistent, TypeOK, UpsertSentFails, Fails,
     clientVars, linkVars, storeVars
<1>7. \A d \in Conn : \A f \in Range(up'[d]) : UpOK(f)'
  BY <1>4, UpSame DEF UpsertSentFails
<1>8. DownOK(g)'
  BY <1>2 DEF DownOK
<1>9. \A d \in Conn : \A f \in Range(down'[d]) : DownOK(f)'
  BY <1>3, <1>4, <1>8, DownOne
<1> QED
  BY <1>4, <1>5, <1>6, <1>7, <1>9 DEF Consistent

(* Both frames of a push are about a message that is queued.               *)
LEMMA PushDeliverStep ==
    ASSUME Consistent, NEW c \in Conn, PushDeliver(c)
    PROVE  Consistent'
<1>1. PICK m \in Msg :
        /\ queue[m] # "absent" /\ Recipient[m] \in User
        /\ down' = Put(PutIfOnline(down, Recipient[m], Frame("Deliver", m)),
                       c, Frame("Accepted", m))
  BY RelayAssumption DEF Consistent, HandlerOK, PushDeliver
<1> DEFINE g == Frame("Deliver", m)
           h == Frame("Accepted", m)
           chan == PutIfOnline(down, Recipient[m], g)
           N == {g, h}
<1>2. /\ g \in ServerFrame /\ g.type = "Deliver" /\ g.msg = m
      /\ h \in ServerFrame /\ h.type = "Accepted" /\ h.msg = m
  BY DEF Frame, ServerFrame
<1>3. /\ down' \in [Conn -> Seq(ServerFrame)]
      /\ \A d \in Conn : Range(down'[d]) \subseteq Range(down[d]) \cup N
  <2>1. down' = Put(chan, c, h)
    BY <1>1
  <2> HIDE DEF g, h
  <2>2. down \in [Conn -> Seq(ServerFrame)] /\ online \in [User -> Conn \cup {NoConn}]
    BY DEF Consistent, TypeOK
  <2>3. /\ chan \in [Conn -> Seq(ServerFrame)]
        /\ \A d \in Conn : Range(chan[d]) \subseteq Range(down[d]) \cup {g}
    BY <1>1, <1>2, <2>2, PutIfOnlineType
  <2> HIDE DEF chan
  <2>4. /\ down' \in [Conn -> Seq(ServerFrame)]
        /\ \A d \in Conn : Range(down'[d]) \subseteq Range(chan[d]) \cup {h}
    BY <1>2, <2>1, <2>3, PutType
  <2> QED
    BY <2>3, <2>4
<1>4. /\ Forward
      /\ \A k \in Msg : (CustodyOK(k) /\ TicksOK(k) /\ StatusOK(k) /\ ShownOK(k))'
      /\ \A p \in Client : HeldOK(p)'
  BY TablesKept DEF PushDeliver, faultVars, linkVars
<1>5. /\ pc' \in [Conn -> Phase] /\ cur' \in [Conn -> Msg \cup {NoMsg}]
      /\ \A d \in Conn : HandlerOK(d)'
  BY <1>4, HandlerRests DEF PushDeliver
<1>6. TypeOK'
  BY <1>3, <1>5 DEF Consistent, TypeOK, PushDeliver, clientVars, linkVars, storeVars,
     faultVars
<1>7. \A d \in Conn : \A f \in Range(up'[d]) : UpOK(f)'
  BY <1>4, UpSame DEF PushDeliver
<1>8. \A f \in N : DownOK(f)'
  BY <1>1, <1>2 DEF DownOK, PushDeliver, storeVars
<1>9. \A d \in Conn : \A f \in Range(down'[d]) : DownOK(f)'
  <2> HIDE DEF N
  <2> QED
    BY <1>3, <1>4, <1>8, DownKept
<1> QED
  BY <1>4, <1>5, <1>6, <1>7, <1>9 DEF Consistent

(* ack_message: an Ack says that the recipient stored the message.         *)
LEMMA ReadAckStep ==
    ASSUME Consistent, NEW c \in Conn, ReadAck(c)
    PROVE  Consistent'
<1>1. PICK m \in Msg :
        /\ shows[m] > 0
        /\ \/ /\ queue[m] = "pending" /\ queue' = [queue EXCEPT ![m] = "acked"]
              /\ pc' = [pc EXCEPT ![c] = "upsert_delivered"]
              /\ cur' = [cur EXCEPT ![c] = m]
           \/ UNCHANGED <<queue, pc, cur>>
  BY HandlerReadsType DEF ReadAck, UpOK, Handle, Goto
<1>2. /\ up' \in [Conn -> Seq(ClientFrame)]
      /\ \A d \in Conn : Range(up'[d]) \subseteq Range(up[d])
  BY HandlerReadsType DEF ReadAck
<1>3. /\ queue' \in [Msg -> {"absent", "pending", "acked"}]
      /\ pc' \in [Conn -> Phase] /\ cur' \in [Conn -> Msg \cup {NoMsg}]
  <2>1. CASE UNCHANGED <<queue, pc, cur>>
    BY <2>1 DEF Consistent, TypeOK
  <2>2. CASE /\ queue' = [queue EXCEPT ![m] = "acked"]
             /\ pc' = [pc EXCEPT ![c] = "upsert_delivered"]
             /\ cur' = [cur EXCEPT ![c] = m]
    BY <2>2 DEF Consistent, TypeOK, Phase
  <2> QED
    BY <1>1, <2>1, <2>2
<1>4. TypeOK'
  BY <1>2, <1>3 DEF Consistent, TypeOK, ReadAck, clientVars, linkVars, faultVars
<1>5. Forward
  BY <1>1 DEF Consistent, TypeOK, ReadAck, Forward, Recorded, clientVars
<1>6. \A d \in Conn : \A f \in Range(up'[d]) : UpOK(f)'
  BY <1>2, <1>5, UpFewer
<1>7. \A d \in Conn : \A f \in Range(down'[d]) : DownOK(f)'
  BY <1>5, DownSame DEF ReadAck
<1>8. \A d \in Conn : HandlerOK(d)'
  <2>1. CASE UNCHANGED <<pc, cur>>
    BY <1>5, <2>1, HandlerKept
  <2>2. CASE /\ queue' = [queue EXCEPT ![m] = "acked"]
             /\ pc' = [pc EXCEPT ![c] = "upsert_delivered"]
             /\ cur' = [cur EXCEPT ![c] = m]
    <3>1. HandlerOK(c)'
      BY <2>2 DEF Consistent, TypeOK, HandlerOK
    <3> QED
      BY <1>5, <2>2, <3>1, OthersKept DEF Consistent, TypeOK
  <2> QED
    BY <1>1, <2>1, <2>2
<1>9. \A k \in Msg : (CustodyOK(k) /\ TicksOK(k) /\ StatusOK(k) /\ ShownOK(k))'
  BY <1>1 DEF Consistent, TypeOK, ReadAck, CustodyOK, TicksOK, StatusOK, ShownOK,
     Recorded, clientVars, faultVars
<1>10. \A q \in Client : HeldOK(q)'
  BY <1>5, HeldKept DEF ReadAck, clientVars, linkVars
<1> QED
  BY <1>4, <1>6, <1>7, <1>8, <1>9, <1>10 DEF Consistent

(* A handler that meets a failed store call and no other change.           *)
LEMMA AckFailsStep ==
    ASSUME Consistent, NEW c \in Conn, AckFails(c) \/ ReceiptAckFails(c)
    PROVE  Consistent'
<1>1. /\ up' \in [Conn -> Seq(ClientFrame)]
      /\ \A d \in Conn : Range(up'[d]) \subseteq Range(up[d])
  BY HandlerReadsType DEF AckFails, ReceiptAckFails
<1>2. /\ errors < MaxErrors /\ errors' = errors + 1
      /\ UNCHANGED <<clientVars, linkVars, down, storeVars, handlerVars, drops, clears>>
  BY DEF AckFails, ReceiptAckFails, Fails
<1>3. TypeOK'
  BY <1>1, <1>2, RelayAssumption DEF Consistent, TypeOK, clientVars, linkVars, storeVars,
     handlerVars
<1>4. /\ Forward
      /\ \A k \in Msg : (CustodyOK(k) /\ TicksOK(k) /\ StatusOK(k) /\ ShownOK(k))'
      /\ \A p \in Client : HeldOK(p)'
  BY <1>2, TablesKept DEF linkVars
<1>5. \A d \in Conn : \A f \in Range(up'[d]) : UpOK(f)'
  BY <1>1, <1>4, UpFewer
<1>6. \A d \in Conn : \A f \in Range(down'[d]) : DownOK(f)'
  BY <1>2, <1>4, DownSame
<1>7. \A d \in Conn : HandlerOK(d)'
  BY <1>2, <1>4, HandlerKept DEF handlerVars
<1> QED
  BY <1>3, <1>4, <1>5, <1>6, <1>7 DEF Consistent

(* The receipt is recorded, to be confirmed.                               *)
LEMMA UpsertDeliveredStep ==
    ASSUME Consistent, NEW c \in Conn, UpsertDelivered(c)
    PROVE  Consistent'
<1>1. PICK m \in Msg :
        /\ m = cur[c] /\ queue[m] = "acked"
        /\ status' = [status EXCEPT ![m] = "delivered"]
        /\ notified' = [notified EXCEPT ![m] = FALSE]
        /\ pc' = [pc EXCEPT ![c] = "push_receipt"]
  BY DEF Consistent, HandlerOK, UpsertDelivered, Upsert, Goto
<1>2. TypeOK'
  BY <1>1 DEF Consistent, TypeOK, UpsertDelivered, Phase, clientVars, linkVars, faultVars
<1>3. Forward
  BY DEF Consistent, UpsertDelivered, Forward, Recorded, clientVars
<1>4. \A d \in Conn : \A f \in Range(up'[d]) : UpOK(f)'
  BY <1>3, UpSame DEF UpsertDelivered
<1>5. \A d \in Conn : \A f \in Range(down'[d]) : DownOK(f)'
  BY <1>3, DownSame DEF UpsertDelivered
<1>6. HandlerOK(c)'
  BY <1>1 DEF Consistent, TypeOK, HandlerOK, UpsertDelivered
<1>7. \A d \in Conn : HandlerOK(d)'
  BY <1>1, <1>3, <1>6, OthersKept DEF Consistent, TypeOK, UpsertDelivered
<1>8. \A k \in Msg : (CustodyOK(k) /\ TicksOK(k) /\ StatusOK(k) /\ ShownOK(k))'
  BY <1>1 DEF Consistent, TypeOK, UpsertDelivered, CustodyOK, TicksOK, StatusOK, ShownOK,
     Recorded, clientVars, faultVars
<1>9. \A q \in Client : HeldOK(q)'
  BY <1>3, HeldKept DEF UpsertDelivered, clientVars, linkVars
<1> QED
  BY <1>2, <1>4, <1>5, <1>7, <1>8, <1>9 DEF Consistent

(* The receipt is not recorded: the tick stays behind, truthfully.         *)
LEMMA UpsertDeliveredFailsStep ==
    ASSUME Consistent, NEW c \in Conn, UpsertDeliveredFails(c)
    PROVE  Consistent'
<1>1. /\ Forward
      /\ \A k \in Msg : (CustodyOK(k) /\ TicksOK(k) /\ StatusOK(k) /\ ShownOK(k))'
      /\ \A p \in Client : HeldOK(p)'
  BY TablesKept DEF UpsertDeliveredFails, Fails, linkVars
<1>2. /\ pc' \in [Conn -> Phase] /\ cur' \in [Conn -> Msg \cup {NoMsg}]
      /\ \A d \in Conn : HandlerOK(d)'
  BY <1>1, HandlerRests DEF UpsertDeliveredFails
<1>3. TypeOK'
  BY <1>2, RelayAssumption DEF Consistent, TypeOK, UpsertDeliveredFails, Fails,
     clientVars, linkVars, storeVars
<1>4. \A d \in Conn : \A f \in Range(up'[d]) : UpOK(f)'
  BY <1>1, UpSame DEF UpsertDeliveredFails
<1>5. \A d \in Conn : \A f \in Range(down'[d]) : DownOK(f)'
  BY <1>1, DownSame DEF UpsertDeliveredFails
<1> QED
  BY <1>1, <1>2, <1>3, <1>4, <1>5 DEF Consistent

(* The receipt pushed is about a message that was acked.                   *)
LEMMA PushReceiptStep ==
    ASSUME Consistent, NEW c \in Conn, PushReceipt(c)
    PROVE  Consistent'
<1>1. PICK m \in Msg :
        /\ queue[m] = "acked" /\ Sender[m] \in User
        /\ down' = PutIfOnline(down, Sender[m], Frame("Receipt", m))
  BY RelayAssumption DEF Consistent, HandlerOK, PushReceipt
<1> DEFINE g == Frame("Receipt", m)
<1>2. g \in ServerFrame /\ g.type = "Receipt" /\ g.msg = m
  BY DEF Frame, ServerFrame
<1>3. /\ down' \in [Conn -> Seq(ServerFrame)]
      /\ \A d \in Conn : Range(down'[d]) \subseteq Range(down[d]) \cup {g}
  <2>1. down \in [Conn -> Seq(ServerFrame)] /\ online \in [User -> Conn \cup {NoConn}]
    BY DEF Consistent, TypeOK
  <2>2. down' = PutIfOnline(down, Sender[m], g)
    BY <1>1
  <2>3. Sender[m] \in User /\ g \in ServerFrame
    BY <1>1, <1>2
  <2> HIDE DEF g
  <2>4. /\ PutIfOnline(down, Sender[m], g) \in [Conn -> Seq(ServerFrame)]
        /\ \A d \in Conn :
              Range(PutIfOnline(down, Sender[m], g)[d]) \subseteq Range(down[d]) \cup {g}
    BY <2>1, <2>3, PutIfOnlineType
  <2> QED
    BY <2>2, <2>4
<1> HIDE DEF g
<1>4. /\ Forward
      /\ \A k \in Msg : (CustodyOK(k) /\ TicksOK(k) /\ StatusOK(k) /\ ShownOK(k))'
      /\ \A p \in Client : HeldOK(p)'
  BY TablesKept DEF PushReceipt, faultVars, linkVars
<1>5. /\ pc' \in [Conn -> Phase] /\ cur' \in [Conn -> Msg \cup {NoMsg}]
      /\ \A d \in Conn : HandlerOK(d)'
  BY <1>4, HandlerRests DEF PushReceipt
<1>6. TypeOK'
  BY <1>3, <1>5 DEF Consistent, TypeOK, PushReceipt, clientVars, linkVars, storeVars,
     faultVars
<1>7. \A d \in Conn : \A f \in Range(up'[d]) : UpOK(f)'
  BY <1>4, UpSame DEF PushReceipt
<1>8. DownOK(g)'
  BY <1>1, <1>2 DEF DownOK, PushReceipt, storeVars
<1>9. \A d \in Conn : \A f \in Range(down'[d]) : DownOK(f)'
  BY <1>3, <1>4, <1>8, DownOne
<1> QED
  BY <1>4, <1>5, <1>6, <1>7, <1>9 DEF Consistent

(* mark_receipts_notified: the client sent the ReceiptAck after it wrote.  *)
LEMMA ReadReceiptAckStep ==
    ASSUME Consistent, NEW c \in Conn, ReadReceiptAck(c)
    PROVE  Consistent'
<1>1. PICK m \in Msg :
        /\ Recorded(m)
        /\ notified' = [notified EXCEPT ![m] =
               @ \/ (status[m] # "none" /\ Sender[m] = UserOf(c))]
  BY HandlerReadsType DEF ReadReceiptAck, UpOK
<1>1a. /\ notified' \in [Msg -> BOOLEAN]
      /\ notified[m] => notified'[m]
      /\ \A k \in Msg \ {m} : notified'[k] = notified[k]
  <2>1. notified \in [Msg -> BOOLEAN]
    BY DEF Consistent, TypeOK
  <2> QED
    BY <1>1, <2>1
<1>2. /\ up' \in [Conn -> Seq(ClientFrame)]
      /\ \A d \in Conn : Range(up'[d]) \subseteq Range(up[d])
  BY HandlerReadsType DEF ReadReceiptAck
<1>3. TypeOK'
  BY <1>1a, <1>2 DEF Consistent, TypeOK, ReadReceiptAck, clientVars, linkVars, handlerVars,
     faultVars
<1>4. Forward
  BY DEF Consistent, ReadReceiptAck, Forward, Recorded, clientVars
<1>5. \A d \in Conn : \A f \in Range(up'[d]) : UpOK(f)'
  BY <1>2, <1>4, UpFewer
<1>6. \A d \in Conn : \A f \in Range(down'[d]) : DownOK(f)'
  BY <1>4, DownSame DEF ReadReceiptAck
<1>7. \A d \in Conn : HandlerOK(d)'
  BY <1>4, HandlerKept DEF ReadReceiptAck, handlerVars
<1>8. \A k \in Msg : (CustodyOK(k) /\ TicksOK(k) /\ StatusOK(k) /\ ShownOK(k))'
  BY <1>1a, <1>1 DEF Consistent, TypeOK, ReadReceiptAck, CustodyOK, TicksOK, StatusOK, ShownOK,
     Recorded, clientVars, faultVars
<1>9. \A q \in Client : HeldOK(q)'
  BY <1>4, HeldKept DEF ReadReceiptAck, clientVars, linkVars
<1> QED
  BY <1>3, <1>5, <1>6, <1>7, <1>8, <1>9 DEF Consistent

(* A handler leaves, with what its client had still sent.                  *)
LEMMA HandlerEndsStep ==
    ASSUME Consistent, NEW c \in Conn, HandlerEnds(c)
    PROVE  Consistent'
<1>1. /\ up' \in [Conn -> Seq(ClientFrame)]
      /\ \A d \in Conn : Range(up'[d]) \subseteq Range(up[d])
  BY RangeOfEmpty DEF Consistent, TypeOK, HandlerEnds
<1>2. /\ pc' = [pc EXCEPT ![c] = "none"] /\ pc' \in [Conn -> Phase]
      /\ online' \in [User -> Conn \cup {NoConn}]
  BY DEF Consistent, TypeOK, HandlerEnds, Forget, Goto, Phase
<1>3. TypeOK'
  BY <1>1, <1>2 DEF Consistent, TypeOK, HandlerEnds, clientVars, linkVars, storeVars,
     faultVars
<1>4. /\ Forward
      /\ \A k \in Msg : (CustodyOK(k) /\ TicksOK(k) /\ StatusOK(k) /\ ShownOK(k))'
      /\ \A p \in Client : HeldOK(p)'
  BY TablesKept DEF HandlerEnds, faultVars, linkVars
<1>5. \A d \in Conn : \A f \in Range(up'[d]) : UpOK(f)'
  BY <1>1, <1>4, UpFewer
<1>6. \A d \in Conn : \A f \in Range(down'[d]) : DownOK(f)'
  BY <1>4, DownSame DEF HandlerEnds
<1>7. HandlerOK(c)'
  BY <1>2 DEF Consistent, TypeOK, HandlerOK
<1>8. \A d \in Conn : HandlerOK(d)'
  BY <1>2, <1>4, <1>7, OthersKept DEF Consistent, TypeOK, HandlerEnds
<1> QED
  BY <1>3, <1>4, <1>5, <1>6, <1>8 DEF Consistent

(* A cut link.                                                             *)
LEMMA CutLinkStep ==
    ASSUME Consistent, NEW c \in Conn, CutLink(c)
    PROVE  Consistent'
<1>1. TypeOK'
  BY RelayAssumption DEF Consistent, TypeOK, CutLink, clientVars, storeVars, handlerVars
<1>2. /\ Forward
      /\ \A k \in Msg : (CustodyOK(k) /\ TicksOK(k) /\ StatusOK(k) /\ ShownOK(k))'
      /\ \A p \in Client : HeldOK(p)'
  BY TablesKept DEF CutLink, linkVars
<1>3. \A d \in Conn : \A f \in Range(up'[d]) : UpOK(f)'
  BY <1>2, UpSame DEF CutLink
<1>4. \A d \in Conn : \A f \in Range(down'[d]) : DownOK(f)'
  BY <1>2, DownSame DEF CutLink
<1>5. \A d \in Conn : HandlerOK(d)'
  BY <1>2, HandlerKept DEF CutLink, handlerVars
<1> QED
  BY <1>1, <1>2, <1>3, <1>4, <1>5 DEF Consistent

(* A crash of the relay takes every handler and the online map.            *)
LEMMA RelayCrashStep ==
    ASSUME Consistent, RelayCrash
    PROVE  Consistent'
<1>1. /\ up' \in [Conn -> Seq(ClientFrame)]
      /\ \A d \in Conn : Range(up'[d]) \subseteq Range(up[d])
  BY RangeOfEmpty DEF Consistent, TypeOK, RelayCrash
<1>2. TypeOK'
  BY <1>1, RelayAssumption DEF Consistent, TypeOK, RelayCrash, Phase, clientVars, storeVars
<1>3. /\ Forward
      /\ \A k \in Msg : (CustodyOK(k) /\ TicksOK(k) /\ StatusOK(k) /\ ShownOK(k))'
      /\ \A p \in Client : HeldOK(p)'
  BY TablesKept DEF RelayCrash, linkVars
<1>4. \A d \in Conn : \A f \in Range(up'[d]) : UpOK(f)'
  BY <1>1, <1>3, UpFewer
<1>5. \A d \in Conn : \A f \in Range(down'[d]) : DownOK(f)'
  BY <1>3, DownSame DEF RelayCrash
<1>6. \A d \in Conn : HandlerOK(d)'
  BY DEF RelayCrash, HandlerOK
<1> QED
  BY <1>2, <1>3, <1>4, <1>5, <1>6 DEF Consistent

-----------------------------------------------------------------------------
(* The invariant.                                                          *)

(* A fresh system is consistent.                                           *)
LEMMA InitConsistent == Init => Consistent
<1> SUFFICES ASSUME Init PROVE Consistent
  OBVIOUS
<1>1. TypeOK
  BY RelayAssumption DEF Init, TypeOK, LocalState, Rank, Phase, Held
<1>2. /\ \A c \in Conn : \A f \in Range(up[c]) : UpOK(f)
      /\ \A c \in Conn : \A f \in Range(down[c]) : DownOK(f)
  BY RangeOfEmpty DEF Init
<1>3. \A c \in Conn : HandlerOK(c)
  BY DEF Init, HandlerOK
<1>5. \A p \in Client : HeldOK(p)
  BY DEF Init, HeldOK
<1>4. \A m \in Msg : CustodyOK(m) /\ TicksOK(m) /\ StatusOK(m) /\ ShownOK(m)
  BY DEF Init, CustodyOK, TicksOK, StatusOK, ShownOK
<1> QED
  BY <1>1, <1>2, <1>3, <1>4, <1>5 DEF Consistent

(* No step of a client, a handler, a fault or the user makes it less so.   *)
LEMMA NextConsistent == Consistent /\ [Next]_vars => Consistent'
<1> SUFFICES ASSUME Consistent, [Next]_vars PROVE Consistent'
  OBVIOUS
<1>1. ASSUME NEW p \in Client, NEW m \in Msg, Compose(p, m) \/ CrashInCompose(p, m)
      PROVE  Consistent'
  BY <1>1, ComposeStep, CrashInComposeStep
<1>2. ASSUME NEW u \in User, NEW v \in User, ClearChat(u, v) PROVE Consistent'
  BY <1>2, ClearChatStep
<1>3. ASSUME NEW c \in Conn, Connect(c) \/ CutLink(c) PROVE Consistent'
  BY <1>3, ConnectStep, CutLinkStep
<1>9. ASSUME NEW p \in Client,
             FinishFrame(p) \/ SetStateFails(p) \/ CrashInAccepted(p) \/ Quit(p)
      PROVE  Consistent'
  BY <1>9, ReceiveAcceptedStep, ReceiveReceiptStep, SetStateFailsStep, CrashInAcceptedStep,
     QuitStep DEF FinishFrame
<1>4. ASSUME NEW c \in Conn, ClientStep(c) PROVE Consistent'
  BY <1>4, ReceiveDeliverStep, ReadStateStep, ReceiveErrorStep, ClientSeesEndStep DEF ClientStep
<1>5. ASSUME NEW c \in Conn, HandlerStep(c) PROVE Consistent'
  BY <1>5, RegisterStep, DrainMessagesStep, DrainReceiptsStep, ReadSendStep,
     UpsertSentStep, PushDeliverStep, ReadAckStep, UpsertDeliveredStep, PushReceiptStep,
     ReadReceiptAckStep, HandlerEndsStep DEF HandlerStep
<1>6. ASSUME NEW c \in Conn, Failure(c) PROVE Consistent'
  BY <1>6, RejectDeliverStep, DrainFailsStep, RefuseSendStep, UpsertSentFailsStep,
     AckFailsStep, UpsertDeliveredFailsStep DEF Failure
<1>7. CASE RelayCrash
  BY <1>7, RelayCrashStep
<1>8. CASE UNCHANGED vars
  <2> USE <1>8 DEF vars, faultVars
  <2>1. TypeOK'
    BY DEF Consistent, TypeOK, clientVars, linkVars, storeVars, handlerVars
  <2>2. /\ Forward
        /\ \A k \in Msg : (CustodyOK(k) /\ TicksOK(k) /\ StatusOK(k) /\ ShownOK(k))'
        /\ \A p \in Client : HeldOK(p)'
    BY TablesKept DEF linkVars
  <2>3. /\ \A d \in Conn : \A f \in Range(up'[d]) : UpOK(f)'
        /\ \A d \in Conn : \A f \in Range(down'[d]) : DownOK(f)'
        /\ \A d \in Conn : HandlerOK(d)'
    BY <2>2, UpSame, DownSame, HandlerKept DEF handlerVars
  <2> QED
    BY <2>1, <2>2, <2>3 DEF Consistent
<1> QED
  BY <1>1, <1>2, <1>3, <1>4, <1>5, <1>6, <1>7, <1>8, <1>9 DEF Next

(***************************************************************************)
(* What frames, handlers and tables say of a message is consistent with    *)
(* where it is, in every reachable state: across any interleaving of the   *)
(* relay's handlers, cut links, client and relay crashes, failed store     *)
(* calls and cleared chats.                                                *)
(***************************************************************************)
THEOREM ConsistentAlways == Spec => []Consistent
<1>1. Init => Consistent
  BY InitConsistent
<1>2. Consistent /\ [Next]_vars => Consistent'
  BY NextConsistent
<1> QED
  BY <1>1, <1>2, PTL DEF Spec

(* Every table, channel and handler holds what its declaration says.       *)
THEOREM TypesCorrect == Spec => []TypeOK
<1>1. Consistent => TypeOK
  BY DEF Consistent
<1> QED
  BY <1>1, ConsistentAlways, PTL

(* A message that reached the outbox is never lost: it is in the outbox,   *)
(* in the relay's queue, or stored (compose_direct, enqueue, ack).         *)
THEOREM NothingIsLost == Spec => []NoLoss
<1>1. Consistent => NoLoss
  BY DEF Consistent, TypeOK, CustodyOK, NoLoss
<1> QED
  BY <1>1, ConsistentAlways, PTL

(* One tick means queued at the relay; two mean stored by the recipient.   *)
THEOREM TicksTellTheTruth == Spec => []TicksAreTrue
<1>1. Consistent => TicksAreTrue
  BY DEF Consistent, CustodyOK, TicksOK, TicksAreTrue
<1> QED
  BY <1>1, ConsistentAlways, PTL

(* The relay stops re-sending a receipt only once the history has it.      *)
THEOREM ConfirmedMeansRecorded == Spec => []ConfirmedIsRecorded
<1>1. Consistent => ConfirmedIsRecorded
  BY DEF Consistent, StatusOK, Recorded, ConfirmedIsRecorded
<1> QED
  BY <1>1, ConsistentAlways, PTL

(* A message is shown once, and once more at most per cleared chat.        *)
THEOREM NeverShownTwice == Spec => []ShownOnce
<1>1. Consistent => ShownOnce
  BY DEF Consistent, ShownOK, ShownOnce
<1> QED
  BY <1>1, ConsistentAlways, PTL

-----------------------------------------------------------------------------
(* Ticks.                                                                  *)

(* The effect of a step on one row.                                        *)
TickKept(m) == \/ Rank[local'[m]] >= Rank[local[m]]
               \/ local'[m] = "absent" /\ clears' > clears
               \/ m \in raced

(* A step that leaves every history alone moves no tick.                   *)
LEMMA HistoryKept ==
    ASSUME TypeOK, UNCHANGED local
    PROVE  \A m \in Msg : TickKept(m)
BY DEF TypeOK, LocalState, Rank, TickKept

(* The UPDATE of set_state moves a tick forward, but for a race.           *)
LEMMA UpdateTickKept ==
    ASSUME Consistent, NEW p \in Client, held[p] # Idle, NEW new \in {"sent", "delivered"},
           new = "delivered" => held[p].type = "Receipt", Update(p, new)
    PROVE  \A m \in Msg : TickKept(m)
<1>1. PICK k \in Msg :
        /\ local' = [local EXCEPT ![k] = local'[k]]
        /\ k \notin raced => Rank[local'[k]] >= Rank[local[k]]
  BY UpdateRow
<1>2. \A m \in Msg \ {k} : local'[m] = local[m]
  BY <1>1 DEF Consistent, TypeOK
<1>3. \A m \in Msg : local[m] \in LocalState
  BY DEF Consistent, TypeOK
<1> QED
  BY <1>1, <1>2, <1>3 DEF TickKept, LocalState, Rank

(* No late, repeated or reordered frame, on whichever connection of its    *)
(* sender, and no failure takes a tick back: a row moves forward, goes     *)
(* with a cleared chat, or is one that two processes were in set_state for *)
(* at once (set_state).                                                    *)
THEOREM TicksRegressOnlyInRaces == Spec => TicksNeverRegress
<1>1. ASSUME Consistent, [Next]_vars PROVE \A m \in Msg : TickKept(m)
  <2>1. ASSUME NEW p \in Client, NEW k \in Msg, Compose(p, k) \/ CrashInCompose(p, k)
        PROVE  \A m \in Msg : TickKept(m)
    <3>1. local[k] = "absent" /\ local' = [local EXCEPT ![k] = "queued_local"]
      BY <2>1 DEF Compose, CrashInCompose
    <3> QED
      BY <1>1, <3>1 DEF Consistent, TypeOK, LocalState, Rank, TickKept
  <2>2. ASSUME NEW u \in User, NEW v \in User, ClearChat(u, v)
        PROVE  \A m \in Msg : TickKept(m)
    BY <1>1, <2>2, RelayAssumption DEF Consistent, TypeOK, ClearChat, LocalState, Rank, TickKept
  <2>3. ASSUME NEW p \in Client, FinishFrame(p) \/ CrashInAccepted(p)
        PROVE  \A m \in Msg : TickKept(m)
    BY <1>1, <2>3, UpdateTickKept DEF FinishFrame, ReceiveAccepted, CrashInAccepted,
       ReceiveReceipt, Idle
  <2>4. ASSUME NEW p \in Client, SetStateFails(p) \/ Quit(p) PROVE UNCHANGED local
    BY <2>4 DEF SetStateFails, Quit
  <2>5. ASSUME NEW c \in Conn, ClientStep(c) PROVE UNCHANGED local
    BY <2>5 DEF ClientStep, ReceiveDeliver, ReadState, ReceiveError, ClientSeesEnd, clientVars
  <2>6. ASSUME NEW c \in Conn, HandlerStep(c) PROVE UNCHANGED local
    BY <2>6 DEF HandlerStep, Register, DrainMessages, DrainReceipts, ReadSend, UpsertSent,
       PushDeliver, ReadAck, UpsertDelivered, PushReceipt, ReadReceiptAck, HandlerEnds,
       clientVars
  <2>7. ASSUME NEW c \in Conn, Failure(c) PROVE UNCHANGED local
    BY <2>7 DEF Failure, RejectDeliver, DrainFails, RefuseSend, UpsertSentFails, AckFails,
       UpsertDeliveredFails, ReceiptAckFails, clientVars
  <2>8. ASSUME NEW c \in Conn, Connect(c) \/ CutLink(c) PROVE UNCHANGED local
    BY <2>8 DEF Connect, CutLink, clientVars
  <2>9. CASE RelayCrash \/ UNCHANGED vars
    <3>1. UNCHANGED local
      BY <2>9 DEF RelayCrash, clientVars, vars
    <3> QED
      BY <1>1, <3>1, HistoryKept DEF Consistent
  <2>10. ASSUME UNCHANGED local PROVE \A m \in Msg : TickKept(m)
    BY <1>1, <2>10, HistoryKept DEF Consistent
  <2>11. CASE \E u, v \in User : ClearChat(u, v)
    BY <2>2, <2>11
  <2>12. CASE \E p \in Client :
                \/ \E m \in Msg : Compose(p, m) \/ CrashInCompose(p, m)
                \/ FinishFrame(p) \/ SetStateFails(p) \/ CrashInAccepted(p) \/ Quit(p)
    BY <2>1, <2>3, <2>4, <2>10, <2>12
  <2>13. CASE \E c \in Conn :
                \/ Connect(c) \/ ClientStep(c) \/ HandlerStep(c) \/ Failure(c)
                \/ CutLink(c)
    BY <2>5, <2>6, <2>7, <2>8, <2>10, <2>13
  <2> QED
    BY <1>1, <2>9, <2>11, <2>12, <2>13 DEF Next
<1>2. Consistent /\ [Next]_vars =>
        [\A m \in Msg : \/ Rank[local'[m]] >= Rank[local[m]]
                        \/ local'[m] = "absent" /\ clears' > clears
                        \/ m \in raced]_vars
  <2> SUFFICES ASSUME Consistent, [Next]_vars, NEW m \in Msg
               PROVE  \/ Rank[local'[m]] >= Rank[local[m]]
                      \/ local'[m] = "absent" /\ clears' > clears
                      \/ m \in raced
    OBVIOUS
  <2> QED
    BY <1>1 DEF TickKept
<1> QED
  BY <1>2, ConsistentAlways, PTL DEF Spec, TicksNeverRegress

-----------------------------------------------------------------------------
(* Where a push goes: the online map and the connections clients use.      *)

(* An open connection is the one its process uses, and has a handler.      *)
OpenLinked == \A c \in Conn : open[c] => link[Owner[c]] = c /\ pc[c] # "none"

(* c is the connection of its user that registered last.                   *)
Foremost(c) == latest[UserOf(c)] = c

OnlineIsLatest ==
    \A c \in Conn : open[c] /\ pc[c] # "register" /\ Foremost(c) => online[UserOf(c)] = c

Routed == OpenLinked /\ OnlineIsLatest

(* Every connection is some process's, every process some user's.          *)
LEMMA Owned == \A c \in Conn : Owner[c] \in Client /\ UserOf(c) \in User /\ c # NoConn
BY RelayAssumption DEF UserOf

LEMMA InitRouted == Init => Routed
BY DEF Init, Routed, OpenLinked, OnlineIsLatest

(* A client that ends, or whose stream ended, uses no connection.          *)
LEMMA CloseRouted ==
    ASSUME TypeOK, Routed, NEW p \in Client, CloseClient(p), UNCHANGED handlerVars
    PROVE  Routed'
<1>1. /\ link' = [link EXCEPT ![p] = NoConn]
      /\ open' \in [Conn -> BOOLEAN]
      /\ \A c \in Conn : open'[c] => open[c] /\ link[p] # c
      /\ UNCHANGED <<online, latest, pc>>
  BY RelayAssumption DEF CloseClient, TypeOK, handlerVars
<1>2. OpenLinked'
  BY <1>1, RelayAssumption DEF TypeOK, Routed, OpenLinked
<1>3. OnlineIsLatest'
  BY <1>1 DEF Routed, OnlineIsLatest, Foremost
<1> QED
  BY <1>2, <1>3 DEF Routed

LEMMA ConnectRouted ==
    ASSUME TypeOK, Routed, NEW c \in Conn, Connect(c)
    PROVE  Routed'
<1>1. /\ link' = [link EXCEPT ![Owner[c]] = c] /\ link[Owner[c]] = NoConn
      /\ open' = [open EXCEPT ![c] = TRUE] /\ pc' = [pc EXCEPT ![c] = "register"]
      /\ UNCHANGED <<online, latest>> /\ pc[c] = "none"
  BY DEF Connect, Startup
<1>2. OpenLinked'
  BY <1>1, Owned DEF TypeOK, Routed, OpenLinked
<1>3. OnlineIsLatest'
  BY <1>1 DEF TypeOK, Routed, OnlineIsLatest, Foremost
<1> QED
  BY <1>2, <1>3 DEF Routed

LEMMA RegisterRouted ==
    ASSUME TypeOK, Routed, NEW c \in Conn, Register(c)
    PROVE  Routed'
<1>1. /\ online' = [online EXCEPT ![UserOf(c)] = c] /\ pc[c] = "register"
      /\ latest' = [latest EXCEPT ![UserOf(c)] = c]
      /\ pc' = [pc EXCEPT ![c] = "drain_messages"] /\ UNCHANGED <<link, open>>
  BY StartupOrder DEF Register, Goto, linkVars
<1>2. OpenLinked'
  BY <1>1 DEF TypeOK, Routed, OpenLinked
<1>3. OnlineIsLatest'
  <2> SUFFICES ASSUME NEW d \in Conn, open[d], pc'[d] # "register", latest'[UserOf(d)] = d
               PROVE  online'[UserOf(d)] = d
    BY <1>1 DEF OnlineIsLatest, Foremost
  <2>1. CASE UserOf(d) = UserOf(c)
    BY <1>1, <2>1, Owned DEF TypeOK
  <2>2. CASE UserOf(d) # UserOf(c)
    <3>1. latest[UserOf(d)] = d /\ pc[d] # "register" /\ online'[UserOf(d)] = online[UserOf(d)]
      BY <1>1, <2>2, Owned DEF TypeOK
    <3> QED
      BY <3>1 DEF Routed, OnlineIsLatest, Foremost
  <2> QED
    BY <2>1, <2>2
<1> QED
  BY <1>2, <1>3 DEF Routed

LEMMA HandlerEndsRouted ==
    ASSUME TypeOK, Routed, NEW c \in Conn, HandlerEnds(c)
    PROVE  Routed'
<1>1. /\ ~open[c] /\ pc' = [pc EXCEPT ![c] = "none"] /\ UNCHANGED <<link, open, latest>>
      /\ online' = [u \in User |-> IF online[u] = c THEN NoConn ELSE online[u]]
  BY DEF HandlerEnds, Goto, Forget, linkVars
<1>2. OpenLinked'
  BY <1>1 DEF TypeOK, Routed, OpenLinked
<1>3. OnlineIsLatest'
  BY <1>1, Owned DEF TypeOK, Routed, OnlineIsLatest, Foremost
<1> QED
  BY <1>2, <1>3 DEF Routed

(* A handler past its registration that goes on.                           *)
GoesOn(c) == \E p \in Phase \ {"none", "register"} :
                pc[c] \notin {"none", "register"} /\ pc' = [pc EXCEPT ![c] = p]

LEMMA GoesOnRouted ==
    ASSUME TypeOK, Routed, NEW c \in Conn, GoesOn(c) \/ UNCHANGED pc,
           UNCHANGED <<link, online, latest>>,
           open' \in [Conn -> BOOLEAN], \A d \in Conn : open'[d] => open[d]
    PROVE  Routed'
BY RelayAssumption DEF TypeOK, GoesOn, Routed, OpenLinked, OnlineIsLatest, Foremost

LEMMA SeesEndRouted ==
    ASSUME TypeOK, Routed, NEW c \in Conn, ClientSeesEnd(c)
    PROVE  Routed'
<1>1. /\ link[Owner[c]] = c /\ ~open[c] /\ link' = [link EXCEPT ![Owner[c]] = NoConn]
      /\ UNCHANGED <<open, online, latest, pc>>
  BY DEF ClientSeesEnd, handlerVars
<1> QED
  BY <1>1, Owned DEF TypeOK, Routed, OpenLinked, OnlineIsLatest, Foremost

LEMMA HandlerGoesOn ==
    ASSUME Consistent, NEW c \in Conn, HandlerStep(c) \/ Failure(c),
           ~Register(c), ~HandlerEnds(c)
    PROVE  /\ GoesOn(c) \/ UNCHANGED pc
           /\ UNCHANGED <<link, open, online, latest>>
<1> USE DEF GoesOn, Phase, linkVars, handlerVars
<1>1. CASE DrainMessages(c) \/ DrainReceipts(c)
  BY <1>1, StartupOrder DEF DrainMessages, DrainReceipts, Goto
<1>2. CASE ReadSend(c)
  BY <1>2 DEF ReadSend, HandlerReads, Handle, Goto
<1>3. CASE ReadAck(c)
  BY <1>3 DEF ReadAck, HandlerReads, Handle, Goto
<1>4. CASE ReadReceiptAck(c)
  BY <1>4 DEF ReadReceiptAck
<1>5. CASE UpsertSent(c) \/ UpsertDelivered(c)
  BY <1>5 DEF UpsertSent, UpsertDelivered, Goto
<1>6. CASE PushDeliver(c) \/ PushReceipt(c)
  BY <1>6 DEF PushDeliver, PushReceipt, Handle, Goto
<1>7. CASE DrainFails(c)
  BY <1>7 DEF DrainFails, Goto
<1>8. CASE UpsertSentFails(c) \/ UpsertDeliveredFails(c)
  BY <1>8 DEF UpsertSentFails, UpsertDeliveredFails, Handle, Goto
<1>9. CASE RejectDeliver(c) \/ RefuseSend(c) \/ AckFails(c) \/ ReceiptAckFails(c)
  BY <1>9 DEF RejectDeliver, RefuseSend, AckFails, ReceiptAckFails
<1> QED
  BY <1>1, <1>2, <1>3, <1>4, <1>5, <1>6, <1>7, <1>8, <1>9 DEF HandlerStep, Failure

LEMMA NextRouted ==
    ASSUME Consistent, Routed, [Next]_vars
    PROVE  Routed'
<1>0. TypeOK /\ open \in [Conn -> BOOLEAN]
  BY DEF Consistent, TypeOK
<1>1. ASSUME UNCHANGED <<link, open, online, latest, pc>> PROVE Routed'
  BY <1>1 DEF Routed, OpenLinked, OnlineIsLatest, Foremost
<1>2. ASSUME NEW p \in Client, NEW m \in Msg, Compose(p, m) PROVE Routed'
  BY <1>1, <1>2 DEF Compose, linkVars, handlerVars
<1>3. ASSUME NEW p \in Client, NEW m \in Msg, CrashInCompose(p, m) PROVE Routed'
  BY <1>0, <1>3, CloseRouted DEF CrashInCompose
<1>4. ASSUME NEW p \in Client, Quit(p) \/ CrashInAccepted(p) PROVE Routed'
  BY <1>0, <1>4, CloseRouted DEF Quit, CrashInAccepted
<1>5. ASSUME NEW u \in User, NEW v \in User, ClearChat(u, v) PROVE Routed'
  BY <1>1, <1>5 DEF ClearChat, linkVars, handlerVars
<1>6. ASSUME NEW c \in Conn, Connect(c) PROVE Routed'
  BY <1>0, <1>6, ConnectRouted
<1>7. ASSUME NEW c \in Conn, ClientStep(c) PROVE Routed'
  <2>1. CASE ClientSeesEnd(c)
    BY <1>0, <2>1, SeesEndRouted
  <2>2. CASE ReceiveDeliver(c) \/ ReadState(c) \/ ReceiveError(c)
    BY <1>1, <2>2 DEF ReceiveDeliver, ReadState, ReceiveError, linkVars, handlerVars
  <2> QED
    BY <1>7, <2>1, <2>2 DEF ClientStep
<1>8. ASSUME NEW c \in Conn, HandlerStep(c) \/ Failure(c) PROVE Routed'
  <2>1. CASE Register(c)
    BY <1>0, <2>1, RegisterRouted
  <2>2. CASE HandlerEnds(c)
    BY <1>0, <2>2, HandlerEndsRouted
  <2>3. CASE ~Register(c) /\ ~HandlerEnds(c)
    BY <1>0, <1>8, <2>3, HandlerGoesOn, GoesOnRouted
  <2> QED
    BY <2>1, <2>2, <2>3
<1>9. ASSUME NEW p \in Client, FinishFrame(p) \/ SetStateFails(p) PROVE Routed'
  BY <1>1, <1>9 DEF FinishFrame, ReceiveAccepted, ReceiveReceipt, SetStateFails, linkVars,
     handlerVars
<1>10. ASSUME NEW c \in Conn, CutLink(c) PROVE Routed'
  BY <1>0, <1>10, GoesOnRouted DEF CutLink, handlerVars
<1>11. CASE RelayCrash
  BY <1>11 DEF RelayCrash, Routed, OpenLinked, OnlineIsLatest
<1>12. CASE UNCHANGED vars
  BY <1>1, <1>12 DEF vars, linkVars, handlerVars
<1> QED
  BY <1>2, <1>3, <1>4, <1>5, <1>6, <1>7, <1>8, <1>9, <1>10, <1>11, <1>12 DEF Next

-----------------------------------------------------------------------------
(* What a channel holds after a step: nothing but its head is ever taken.  *)

LEMMA PutAdds ==
    ASSUME NEW T, NEW chan \in [Conn -> Seq(T)], NEW b \in Conn, NEW f \in T
    PROVE  /\ \A c \in Conn : Range(chan[c]) \subseteq Range(Put(chan, b, f)[c])
           /\ open[b] => f \in Range(Put(chan, b, f)[b])
<1>1. chan[b] \in Seq(T)
  OBVIOUS
<1>2. Range(Append(chan[b], f)) = Range(chan[b]) \cup {f}
  BY <1>1, RangeOfAppend
<1> QED
  BY <1>2 DEF Put

LEMMA PutIfOnlineAdds ==
    ASSUME NEW T, NEW chan \in [Conn -> Seq(T)], NEW u \in User, NEW f \in T,
           online \in [User -> Conn \cup {NoConn}]
    PROVE  /\ \A c \in Conn : Range(chan[c]) \subseteq Range(PutIfOnline(chan, u, f)[c])
           /\ online[u] \in Conn /\ open[online[u]] =>
                f \in Range(PutIfOnline(chan, u, f)[online[u]])
<1>1. CASE online[u] = NoConn
  BY <1>1, RelayAssumption DEF PutIfOnline
<1>2. CASE online[u] # NoConn
  <2>1. online[u] \in Conn
    BY <1>2
  <2> QED
    BY <1>2, <2>1, PutAdds DEF PutIfOnline
<1> QED
  BY <1>1, <1>2

(* What is on a channel is its head or still on its tail.                  *)
LEMMA HeadOrTail ==
    ASSUME NEW T, NEW s \in Seq(T), s # <<>>
    PROVE  Range(s) \subseteq Range(Tail(s)) \cup {Head(s)}
<1> SUFFICES ASSUME NEW i \in 1..Len(s) PROVE s[i] \in Range(Tail(s)) \cup {Head(s)}
  BY DEF Range
<1>1. CASE i = 1
  BY <1>1
<1>2. CASE i # 1
  <2>1. /\ i - 1 \in 1..(Len(s) - 1) /\ Len(Tail(s)) = Len(s) - 1
        /\ Tail(s)[i - 1] = s[i] /\ DOMAIN Tail(s) = 1..(Len(s) - 1)
    BY <1>2
  <2> QED
    BY <2>1 DEF Range
<1> QED
  BY <1>1, <1>2

LEMMA PopLeaves ==
    ASSUME NEW T, NEW chan \in [Conn -> Seq(T)], NEW b \in Conn, chan[b] # <<>>,
           NEW c \in Conn, NEW f \in Range(chan[c]),
           f \notin Range([chan EXCEPT ![b] = Tail(@)][c])
    PROVE  c = b /\ f = Head(chan[b])
<1>1. chan[b] \in Seq(T)
  OBVIOUS
<1>2. Range(chan[b]) \subseteq Range(Tail(chan[b])) \cup {Head(chan[b])}
  BY <1>1, HeadOrTail
<1> QED
  BY <1>2

(* Frames(t, S) holds one frame for every message of S.                    *)
LEMMA FramesOfAll ==
    ASSUME NEW t, NEW S, IsFiniteSet(S), NEW m \in S
    PROVE  Frame(t, m) \in Range(Frames(t, S))
<1> DEFINE n == Cardinality(S)
           f == SetToSeq(S)
<1>1. n \in Nat /\ ExistsBijection(1..n, S)
  BY FS_CardinalityType
<1>2. PICK g \in [1..n -> S] : IsInjective(g)
  BY <1>1 DEF ExistsBijection, Bijection, Injection, Surjection, IsInjective
<1>3. f \in [1..n -> S] /\ IsInjective(f)
  BY <1>2 DEF SetToSeq
<1>4. f \in Injection(1..n, S)
  BY <1>3 DEF Injection, IsInjective
<1>5. Cardinality(1..n) = n /\ IsFiniteSet(1..n)
  BY <1>1, FS_Interval
<1>6. f \in Surjection(1..n, S)
  BY <1>4, <1>5, FS_Injection
<1>7. PICK i \in 1..n : f[i] = m
  BY <1>6 DEF Surjection
<1> HIDE DEF n
<1>8. Len(f) = n
  BY <1>1, <1>3
<1>9. Frames(t, S) = [j \in 1..n |-> [type |-> t, msg |-> f[j]]]
  BY <1>8 DEF Frames, Frame
<1>10. Frames(t, S)[i] = Frame(t, m) /\ i \in DOMAIN Frames(t, S)
  BY <1>7, <1>9 DEF Frame
<1> QED
  BY <1>10 DEF Range

LEMMA PourAdds ==
    ASSUME NEW T, NEW chan \in [Conn -> Seq(T)], NEW b \in Conn, NEW t,
           NEW S \in SUBSET Msg, [type : {t}, msg : S] \subseteq T
    PROVE  LET next == [chan EXCEPT ![b] = @ \o Frames(t, S)]
           IN  /\ \A c \in Conn : Range(chan[c]) \subseteq Range(next[c])
               /\ \A m \in S : Frame(t, m) \in Range(next[b])
<1>1. IsFiniteSet(S)
  BY FS_Subset, RelayAssumption
<1>2. chan[b] \in Seq(T) /\ Frames(t, S) \in Seq(T)
  BY PourType
<1>3. Range(chan[b] \o Frames(t, S)) = Range(chan[b]) \cup Range(Frames(t, S))
  BY <1>2, RangeOfConcat
<1>4. \A m \in S : Frame(t, m) \in Range(Frames(t, S))
  BY <1>1, FramesOfAll
<1> QED
  BY <1>3, <1>4

-----------------------------------------------------------------------------
(* What a step does for a connection c that is the latest of its user:     *)
(* what was on its way goes on, and what is new is on its way.             *)

Pushing == {"upsert_sent", "push_deliver"}

Unconfirmed(m) == status[m] = "delivered" /\ ~notified[m]

(* The process behind c is in set_state for the receipt of m.              *)
AtHand(c, m) == held[Owner[c]].type = "Receipt" /\ held[Owner[c]].msg = m

(* What the client takes off c it answers on c, a receipt after set_state. *)
DownMoves(c) ==
    \A m \in Msg :
        /\ Carries(down, c, "Deliver", m)
              => Carries(down, c, "Deliver", m)' \/ Carries(up, c, "Ack", m)'
        /\ Carries(down, c, "Receipt", m)
              => Carries(down, c, "Receipt", m)' \/ AtHand(c, m)'

HeldMoves(c) ==
    \A m \in Msg : AtHand(c, m) => AtHand(c, m)' \/ Carries(up, c, "ReceiptAck", m)'

(* What the handler takes off c settles the debt.                          *)
UpMoves(c) ==
    \A m \in Msg :
        /\ Recipient[m] = UserOf(c) /\ Carries(up, c, "Ack", m)
              => Carries(up, c, "Ack", m)' \/ queue'[m] # "pending"
        /\ Sender[m] = UserOf(c) /\ Carries(up, c, "ReceiptAck", m)
              => Carries(up, c, "ReceiptAck", m)' \/ ~Unconfirmed(m)'

(* What a handler lets go of it has put on c.                              *)
HandsMove(c) ==
    \A m \in Msg :
        /\ Recipient[m] = UserOf(c) /\ InHand(m, Pushing)
              => InHand(m, Pushing)' \/ Carries(down, c, "Deliver", m)'
        /\ Sender[m] = UserOf(c) /\ InHand(m, {"push_receipt"})
              => InHand(m, {"push_receipt"})' \/ Carries(down, c, "Receipt", m)'

(* What is new is in a handler's hand.                                     *)
DebtsMove ==
    \A m \in Msg :
        /\ queue'[m] = "pending" => queue[m] = "pending" \/ InHand(m, Pushing)'
        /\ Unconfirmed(m)' => Unconfirmed(m) \/ InHand(m, {"push_receipt"})'

Moves(c) == DownMoves(c) /\ UpMoves(c) /\ HandsMove(c) /\ DebtsMove

(* No handler with a message in its hand moves.                            *)
HandsStay ==
    \A d \in Conn : pc[d] \in Pushing \cup {"push_receipt"} => pc'[d] = pc[d] /\ cur'[d] = cur[d]

LEMMA DownGrows ==
    ASSUME NEW c \in Conn, Range(down[c]) \subseteq Range(down'[c])
    PROVE  DownMoves(c)
BY DEF DownMoves, Carries

LEMMA UpGrows ==
    ASSUME NEW c \in Conn, Range(up[c]) \subseteq Range(up'[c])
    PROVE  UpMoves(c)
BY DEF UpMoves, Carries

LEMMA HandsStayMove ==
    ASSUME NEW c \in Conn, HandsStay
    PROVE  HandsMove(c)
BY DEF HandsStay, HandsMove, InHand, Pushing

LEMMA NoNewDebts ==
    ASSUME UNCHANGED storeVars
    PROVE  DebtsMove
BY DEF DebtsMove, storeVars, Unconfirmed

(* A frame that asks for nothing is taken off.                             *)
LEMMA DownPopped ==
    ASSUME Consistent, NEW b \in Conn, NEW t \in {"Accepted", "Error"}, ClientReads(b, t),
           NEW c \in Conn
    PROVE  DownMoves(c)
<1>1. /\ down \in [Conn -> Seq(ServerFrame)] /\ down[b] # <<>> /\ Head(down[b]).type = t
      /\ down' = [down EXCEPT ![b] = Tail(@)]
  BY DEF Consistent, TypeOK, ClientReads, NextIs
<1>2. \A f \in Range(down[c]) : f.type \in {"Deliver", "Receipt"} => f \in Range(down'[c])
  BY <1>1, PopLeaves
<1> QED
  BY <1>2 DEF DownMoves, Carries, Frame

LEMMA UpPopped ==
    ASSUME Consistent, NEW b \in Conn, HandlerReads(b, "Send"), NEW c \in Conn
    PROVE  UpMoves(c)
<1>1. /\ up \in [Conn -> Seq(ClientFrame)] /\ up[b] # <<>> /\ Head(up[b]).type = "Send"
      /\ up' = [up EXCEPT ![b] = Tail(@)]
  BY DEF Consistent, TypeOK, HandlerReads, NextIs
<1>2. \A f \in Range(up[c]) : f.type \in {"Ack", "ReceiptAck"} => f \in Range(up'[c])
  BY <1>1, PopLeaves
<1> QED
  BY <1>2 DEF UpMoves, Carries, Frame

-----------------------------------------------------------------------------
(* One lemma per action.                                                   *)

LEMMA ComposeMoves ==
    ASSUME Consistent, NEW p \in Client, NEW m \in Msg, Compose(p, m), NEW c \in Conn
    PROVE  Moves(c)
<1> DEFINE u == Sender[m]
           b == link[p]
           S == OutboxOf(u, outbox')
<1>1. S \in SUBSET Msg /\ [type : {"Send"}, msg : S] \subseteq ClientFrame
  BY DEF Consistent, TypeOK, Compose, OutboxOf, ClientFrame
<1>2. Range(up[c]) \subseteq Range(up'[c])
  <2>1. CASE b # NoConn /\ open[b]
    <3>1. /\ b \in Conn /\ up' = [up EXCEPT ![b] = @ \o Frames("Send", S)]
          /\ up \in [Conn -> Seq(ClientFrame)]
      BY <2>1, RelayAssumption DEF Consistent, TypeOK, Compose
    <3> HIDE DEF S, b
    <3> QED
      BY <1>1, <3>1, PourAdds
  <2>2. CASE ~(b # NoConn /\ open[b])
    BY <2>2 DEF Compose
  <2> QED
    BY <2>1, <2>2
<1>3. DownMoves(c)
  BY DownGrows DEF Compose
<1>4. HandsStay
  BY DEF Compose, HandsStay, handlerVars
<1> QED
  BY <1>2, <1>3, <1>4, UpGrows, HandsStayMove, NoNewDebts DEF Moves, Compose

(* A client that goes away leaves the others' connections alone.           *)
LEMMA CloseMoves ==
    ASSUME Consistent, NEW p \in Client, CloseClient(p), UNCHANGED <<up, storeVars, handlerVars>>,
           NEW c \in Conn, open'[c]
    PROVE  Moves(c)
<1>1. down'[c] = down[c]
  BY DEF Consistent, TypeOK, CloseClient
<1>2. HandsStay
  BY DEF HandsStay, handlerVars
<1> QED
  BY <1>1, <1>2, DownGrows, UpGrows, HandsStayMove, NoNewDebts DEF Moves

LEMMA ConnectMoves ==
    ASSUME Consistent, NEW b \in Conn, Connect(b), NEW c \in Conn, pc'[c] # "register"
    PROVE  Moves(c)
<1>1. /\ c # b /\ up'[c] = up[c] /\ down'[c] = down[c]
  BY DEF Consistent, TypeOK, Connect, Startup
<1>2. HandsStay
  BY DEF Consistent, TypeOK, Connect, HandsStay, Pushing
<1> QED
  BY <1>1, <1>2, DownGrows, UpGrows, HandsStayMove, NoNewDebts DEF Moves, Connect

(* The client answers what it stores, a duplicate included.                *)
LEMMA ReceiveDeliverMoves ==
    ASSUME Consistent, NEW b \in Conn, ReceiveDeliver(b), NEW c \in Conn, open'[c]
    PROVE  Moves(c)
<1> DEFINE g == Head(down[b])
<1>1. /\ down \in [Conn -> Seq(ServerFrame)] /\ up \in [Conn -> Seq(ClientFrame)]
      /\ down[b] # <<>> /\ g.type = "Deliver" /\ open[c]
      /\ down' = [down EXCEPT ![b] = Tail(@)] /\ up' = Put(up, b, Frame("Ack", g.msg))
  BY DEF Consistent, TypeOK, ReceiveDeliver, ClientReads, NextIs, linkVars
<1>2. g \in ServerFrame
  BY <1>1, PopType
<1>3. g.msg \in Msg /\ g = Frame("Deliver", g.msg) /\ Frame("Ack", g.msg) \in ClientFrame
  <2>1. g.type = "Deliver"
    BY <1>1
  <2> HIDE DEF g
  <2> QED
    BY <1>2, <2>1 DEF ServerFrame, ClientFrame, Frame
<1>4. /\ Range(up[c]) \subseteq Range(up'[c])
      /\ c = b => Frame("Ack", g.msg) \in Range(up'[c])
  <2>1. /\ up \in [Conn -> Seq(ClientFrame)] /\ open[c]
        /\ up' = Put(up, b, Frame("Ack", g.msg))
    BY <1>1
  <2> HIDE DEF g
  <2> QED
    BY <1>3, <2>1, PutAdds
<1>5. \A f \in Range(down[c]) : f \in Range(down'[c]) \/ (c = b /\ f = g)
  <2>1. /\ down \in [Conn -> Seq(ServerFrame)] /\ down[b] # <<>>
        /\ down' = [down EXCEPT ![b] = Tail(@)]
    BY <1>1
  <2> QED
    BY <2>1, PopLeaves
<1>6. DownMoves(c)
  <2> HIDE DEF g
  <2> QED
    BY <1>3, <1>4, <1>5 DEF DownMoves, Carries, Frame
<1>7. HandsStay
  BY DEF ReceiveDeliver, HandsStay, handlerVars
<1> QED
  BY <1>4, <1>6, <1>7, UpGrows, HandsStayMove, NoNewDebts DEF Moves, ReceiveDeliver

(* set_state has its state; a receipt is in the client's hand.             *)
LEMMA ReadStateMoves ==
    ASSUME Consistent, NEW b \in Conn, ReadState(b), NEW c \in Conn
    PROVE  Moves(c)
<1>0. PICK g : g = Head(down[b])
  OBVIOUS
<1>1. /\ down \in [Conn -> Seq(ServerFrame)] /\ down[b] # <<>>
      /\ g.type \in {"Accepted", "Receipt"}
      /\ down' = [down EXCEPT ![b] = Tail(@)]
      /\ held' = [held EXCEPT ![Owner[b]] = [type |-> g.type, msg |-> g.msg, old |-> local[g.msg]]]
      /\ UNCHANGED <<up, storeVars, handlerVars>>
  BY <1>0 DEF Consistent, TypeOK, ReadState, ClientReads, NextIs
<1>2. /\ held'[Owner[b]].type = g.type /\ held'[Owner[b]].msg = g.msg
  BY <1>1, Owned DEF Consistent, TypeOK
<1>3. \A f \in Range(down[c]) : f \in Range(down'[c]) \/ (c = b /\ f = g)
  BY <1>0, <1>1, PopLeaves
<1>4. DownMoves(c)
  BY <1>1, <1>2, <1>3 DEF DownMoves, Carries, AtHand, Frame
<1>5. HandsStay
  BY <1>1 DEF HandsStay, handlerVars
<1> QED
  BY <1>1, <1>4, <1>5, UpGrows, HandsStayMove, NoNewDebts DEF Moves

(* The client confirms the receipts it persists, and only those.           *)
LEMMA FinishFrameMoves ==
    ASSUME Consistent, NEW p \in Client, FinishFrame(p), NEW c \in Conn
    PROVE  Moves(c)
<1>1. UNCHANGED <<down, storeVars, handlerVars>>
  BY DEF FinishFrame, ReceiveAccepted, ReceiveReceipt
<1>2. Range(up[c]) \subseteq Range(up'[c])
  <2>1. CASE ReceiveAccepted(p)
    BY <2>1 DEF ReceiveAccepted
  <2>2. CASE ReceiveReceipt(p)
    <3>1. PICK b, g : b = link[p] /\ g = Frame("ReceiptAck", held[p].msg)
      OBVIOUS
    <3>2. /\ up \in [Conn -> Seq(ClientFrame)] /\ up' = Put(up, b, g)
      BY <2>2, <3>1 DEF Consistent, TypeOK, ReceiveReceipt
    <3>3. held[p] # Idle
      BY <2>2 DEF ReceiveReceipt, Idle
    <3>4. b \in Conn
      BY <3>1, <3>3 DEF Consistent, HeldOK, TypeOK
    <3>5. g \in ClientFrame
      BY <3>1, <3>3, HeldMsg DEF Consistent, Frame, ClientFrame
    <3> QED
      BY <3>2, <3>4, <3>5, PutAdds
  <2> QED
    BY <2>1, <2>2 DEF FinishFrame
<1>3. HandsStay
  BY <1>1 DEF HandsStay, handlerVars
<1> QED
  BY <1>1, <1>2, <1>3, DownGrows, UpGrows, HandsStayMove, NoNewDebts DEF Moves

LEMMA ReceiveErrorMoves ==
    ASSUME Consistent, NEW b \in Conn, ReceiveError(b), NEW c \in Conn
    PROVE  Moves(c)
<1>1. DownMoves(c)
  BY DownPopped DEF ReceiveError
<1>2. /\ UpMoves(c) /\ DebtsMove
  BY UpGrows, NoNewDebts DEF ReceiveError
<1>3. HandsStay
  BY DEF ReceiveError, HandsStay, handlerVars
<1> QED
  BY <1>1, <1>2, <1>3, HandsStayMove DEF Moves

LEMMA SeesEndMoves ==
    ASSUME Consistent, NEW b \in Conn, ClientSeesEnd(b), NEW c \in Conn, open'[c]
    PROVE  Moves(c)
<1>1. down'[c] = down[c]
  BY DEF Consistent, TypeOK, ClientSeesEnd
<1>2. HandsStay
  BY DEF ClientSeesEnd, HandsStay, handlerVars
<1> QED
  BY <1>1, <1>2, DownGrows, UpGrows, HandsStayMove, NoNewDebts DEF Moves, ClientSeesEnd

(* Steps of a handler that only look after its own startup and end.        *)
LEMMA RegisterMoves ==
    ASSUME Consistent, NEW b \in Conn, Register(b) \/ HandlerEnds(b), NEW c \in Conn, open'[c]
    PROVE  Moves(c)
<1>1. down' = down /\ up'[c] = up[c] /\ UNCHANGED storeVars
  BY DEF Consistent, TypeOK, Register, HandlerEnds, linkVars
<1>2. HandsStay
  BY DEF Consistent, TypeOK, Register, HandlerEnds, Goto, HandsStay, Pushing
<1> QED
  BY <1>1, <1>2, DownGrows, UpGrows, HandsStayMove, NoNewDebts DEF Moves

(* A drain puts everything that is owed on the connection.                 *)
LEMMA DrainMessagesMoves ==
    ASSUME Consistent, NEW b \in Conn, DrainMessages(b), NEW c \in Conn
    PROVE  /\ Moves(c)
           /\ open'[b] => \A m \in Pending(UserOf(b)) : Carries(down, b, "Deliver", m)'
<1> DEFINE S == Pending(UserOf(b))
<1>1. S \in SUBSET Msg /\ [type : {"Deliver"}, msg : S] \subseteq ServerFrame
  BY DEF Pending, ServerFrame
<1>2. /\ Range(down[c]) \subseteq Range(down'[c])
      /\ open[b] => \A m \in S : Frame("Deliver", m) \in Range(down'[b])
  <2>1. CASE open[b]
    <3>1. down' = [down EXCEPT ![b] = @ \o Frames("Deliver", S)] /\ down \in [Conn -> Seq(ServerFrame)]
      BY <2>1 DEF DrainMessages, Consistent, TypeOK
    <3> HIDE DEF S
    <3> QED
      BY <1>1, <3>1, PourAdds
  <2>2. CASE ~open[b]
    BY <2>2 DEF DrainMessages
  <2> QED
    BY <2>1, <2>2
<1>3. HandsStay /\ UNCHANGED <<up, open, storeVars>>
  BY DEF Consistent, TypeOK, DrainMessages, Goto, HandsStay, Pushing, linkVars
<1> QED
  BY <1>2, <1>3, DownGrows, UpGrows, HandsStayMove, NoNewDebts DEF Moves, Carries

LEMMA DrainReceiptsMoves ==
    ASSUME Consistent, NEW b \in Conn, DrainReceipts(b), NEW c \in Conn
    PROVE  /\ Moves(c)
           /\ open'[b] => \A m \in Unnotified(UserOf(b)) : Carries(down, b, "Receipt", m)'
<1> DEFINE S == Unnotified(UserOf(b))
<1>1. S \in SUBSET Msg /\ [type : {"Receipt"}, msg : S] \subseteq ServerFrame
  BY DEF Unnotified, ServerFrame
<1>2. /\ Range(down[c]) \subseteq Range(down'[c])
      /\ open[b] => \A m \in S : Frame("Receipt", m) \in Range(down'[b])
  <2>1. CASE open[b]
    <3>1. down' = [down EXCEPT ![b] = @ \o Frames("Receipt", S)] /\ down \in [Conn -> Seq(ServerFrame)]
      BY <2>1 DEF DrainReceipts, Consistent, TypeOK
    <3> HIDE DEF S
    <3> QED
      BY <1>1, <3>1, PourAdds
  <2>2. CASE ~open[b]
    BY <2>2 DEF DrainReceipts
  <2> QED
    BY <2>1, <2>2
<1>3. HandsStay /\ UNCHANGED <<up, open, storeVars>>
  BY DEF Consistent, TypeOK, DrainReceipts, Goto, HandsStay, Pushing, linkVars
<1> QED
  BY <1>2, <1>3, DownGrows, UpGrows, HandsStayMove, NoNewDebts DEF Moves, Carries

(* A message that is enqueued is in the hand of the handler that read it.  *)
LEMMA ReadSendMoves ==
    ASSUME Consistent, NEW b \in Conn, ReadSend(b), NEW c \in Conn
    PROVE  Moves(c)
<1>0. PICK m : m = Head(up[b]).msg
  OBVIOUS
<1>1. /\ pc[b] = "read" /\ HandlerReads(b, "Send") /\ UNCHANGED <<status, notified>>
      /\ down \in [Conn -> Seq(ServerFrame)] /\ up \in [Conn -> Seq(ClientFrame)] /\ up[b] # <<>>
      /\ pc \in [Conn -> Phase] /\ cur \in [Conn -> Msg \cup {NoMsg}]
  BY DEF Consistent, TypeOK, ReadSend, HandlerReads, NextIs
<1>2. m \in Msg
  <2>1. Head(up[b]) \in ClientFrame
    BY <1>1, PopType
  <2> QED
    BY <1>0, <2>1 DEF ClientFrame
<1>3. CASE queue[m] = "absent"
  <2>1. /\ queue' = [queue EXCEPT ![m] = "pending"] /\ down' = down
        /\ pc' = [pc EXCEPT ![b] = "upsert_sent"] /\ cur' = [cur EXCEPT ![b] = m]
    BY <1>0, <1>3 DEF ReadSend, Handle, Goto
  <2>2. InHand(m, Pushing)' /\ HandsStay
    BY <1>1, <2>1 DEF InHand, Pushing, HandsStay
  <2>3. DebtsMove
    BY <1>1, <1>2, <2>1, <2>2 DEF DebtsMove, Unconfirmed, Consistent, TypeOK
  <2> QED
    BY <1>1, <2>1, <2>2, <2>3, DownGrows, UpPopped, HandsStayMove DEF Moves
<1>4. CASE queue[m] # "absent"
  <2>1. /\ down' = Put(down, b, Frame("Accepted", m)) /\ UNCHANGED <<storeVars, pc, cur>>
    BY <1>0, <1>1, <1>4 DEF ReadSend, storeVars
  <2>2. Frame("Accepted", m) \in ServerFrame
    BY <1>2 DEF Frame, ServerFrame
  <2>3. Range(down[c]) \subseteq Range(down'[c])
    BY <1>1, <2>1, <2>2, PutAdds
  <2>4. HandsStay
    BY <2>1 DEF HandsStay
  <2> QED
    BY <1>1, <2>1, <2>3, <2>4, DownGrows, UpPopped, HandsStayMove, NoNewDebts DEF Moves
<1> QED
  BY <1>3, <1>4

LEMMA UpsertSentMoves ==
    ASSUME Consistent, NEW b \in Conn, UpsertSent(b), NEW c \in Conn
    PROVE  Moves(c)
<1>1. /\ pc[b] = "upsert_sent" /\ pc' = [pc EXCEPT ![b] = "push_deliver"]
      /\ UNCHANGED <<up, down, queue, cur>> /\ cur[b] \in Msg
      /\ status' = [status EXCEPT ![cur[b]] = "sent_to_relay"]
      /\ notified' = [notified EXCEPT ![cur[b]] = TRUE]
  BY DEF Consistent, HandlerOK, UpsertSent, Goto, Upsert
<1>2. HandsMove(c)
  BY <1>1 DEF HandsMove, InHand, Pushing, Consistent, TypeOK
<1>3. DebtsMove
  BY <1>1 DEF DebtsMove, Unconfirmed, Consistent, TypeOK
<1> QED
  BY <1>1, <1>2, <1>3, DownGrows, UpGrows DEF Moves

(* The push goes to the connection the client is using.                    *)
LEMMA PushDeliverMoves ==
    ASSUME Consistent, Routed, NEW b \in Conn, PushDeliver(b),
           NEW c \in Conn, open[c], pc[c] # "register", Foremost(c)
    PROVE  Moves(c)
<1>0. PICK m : m = cur[b]
  OBVIOUS
<1>9. PICK g, h, chan : /\ g = Frame("Deliver", m) /\ h = Frame("Accepted", m)
                        /\ chan = PutIfOnline(down, Recipient[m], g)
  OBVIOUS
<1>1. /\ pc[b] = "push_deliver" /\ m \in Msg /\ Recipient[m] \in User
      /\ pc' = [pc EXCEPT ![b] = "read"] /\ cur' = [cur EXCEPT ![b] = NoMsg]
      /\ down' = Put(chan, b, h) /\ UNCHANGED <<up, storeVars>>
      /\ g \in ServerFrame /\ h \in ServerFrame
      /\ down \in [Conn -> Seq(ServerFrame)] /\ online \in [User -> Conn \cup {NoConn}]
  BY <1>0, <1>9, RelayAssumption DEF Consistent, TypeOK, HandlerOK, PushDeliver, Handle, Goto, Frame, ServerFrame
<1>2. /\ chan \in [Conn -> Seq(ServerFrame)]
      /\ Range(down[c]) \subseteq Range(chan[c])
      /\ Recipient[m] = UserOf(c) => g \in Range(chan[c])
  <2>1. online[UserOf(c)] = c
    BY DEF Routed, OnlineIsLatest
  <2>2. /\ PutIfOnline(down, Recipient[m], g) \in [Conn -> Seq(ServerFrame)]
    BY <1>1, PutIfOnlineType
  <2>3. /\ Range(down[c]) \subseteq Range(PutIfOnline(down, Recipient[m], g)[c])
        /\ online[Recipient[m]] \in Conn /\ open[online[Recipient[m]]] =>
             g \in Range(PutIfOnline(down, Recipient[m], g)[online[Recipient[m]]])
    BY <1>1, PutIfOnlineAdds
  <2> QED
    BY <1>9, <2>1, <2>2, <2>3
<1>3. Range(chan[c]) \subseteq Range(down'[c])
  BY <1>1, <1>2, PutAdds
<1>4. DownMoves(c)
  BY <1>2, <1>3, DownGrows
<1>5. Recipient[m] = UserOf(c) => Carries(down, c, "Deliver", m)'
  BY <1>2, <1>3, <1>9 DEF Carries
<1>6. \A d \in Conn \ {b} : pc'[d] = pc[d] /\ cur'[d] = cur[d]
  BY <1>1 DEF Consistent, TypeOK
<1>7. HandsMove(c)
  BY <1>0, <1>1, <1>5, <1>6 DEF HandsMove, InHand, Pushing
<1> QED
  BY <1>1, <1>4, <1>7, UpGrows, NoNewDebts DEF Moves

LEMMA ReadAckMoves ==
    ASSUME Consistent, NEW b \in Conn, ReadAck(b), NEW c \in Conn
    PROVE  Moves(c)
<1>0. PICK g : g = Head(up[b])
  OBVIOUS
<1>1. /\ pc[b] = "read" /\ up[b] # <<>> /\ g.type = "Ack" /\ up' = [up EXCEPT ![b] = Tail(@)]
      /\ up \in [Conn -> Seq(ClientFrame)] /\ UNCHANGED <<down, status, notified>>
      /\ pc \in [Conn -> Phase] /\ cur \in [Conn -> Msg \cup {NoMsg}]
      /\ queue \in [Msg -> {"absent", "pending", "acked"}]
  BY <1>0 DEF Consistent, TypeOK, ReadAck, HandlerReads, NextIs
<1>2. g \in ClientFrame
  BY <1>0, <1>1, PopType
<1>3. g.msg \in Msg
  BY <1>2 DEF ClientFrame
<1>4. /\ \A m \in Msg : queue'[m] = "pending" => queue[m] = "pending"
      /\ Recipient[g.msg] = UserOf(b) => queue'[g.msg] # "pending"
  <2>1. \/ UNCHANGED queue /\ ~(queue[g.msg] = "pending" /\ Recipient[g.msg] = UserOf(b))
        \/ queue' = [queue EXCEPT ![g.msg] = "acked"]
    BY <1>0 DEF ReadAck
  <2> QED
    BY <1>1, <1>3, <2>1
<1>5. HandsStay
  BY <1>1 DEF ReadAck, HandsStay, Handle, Goto, Pushing
<1>6. \A f \in Range(up[c]) : f \in Range(up'[c]) \/ (c = b /\ f = g)
  BY <1>0, <1>1, PopLeaves
<1>7. UpMoves(c)
  <2>1. g.type # "ReceiptAck"
    BY <1>1
  <2> QED
    BY <1>4, <1>6, <2>1 DEF UpMoves, Carries, Frame
<1>8. DebtsMove
  BY <1>1, <1>4 DEF DebtsMove, Unconfirmed
<1> QED
  BY <1>1, <1>5, <1>7, <1>8, DownGrows, HandsStayMove DEF Moves

LEMMA UpsertDeliveredMoves ==
    ASSUME Consistent, NEW b \in Conn, UpsertDelivered(b), NEW c \in Conn
    PROVE  Moves(c)
<1>1. /\ pc[b] = "upsert_delivered" /\ pc' = [pc EXCEPT ![b] = "push_receipt"]
      /\ UNCHANGED <<up, down, queue, cur>> /\ cur[b] \in Msg
      /\ status' = [status EXCEPT ![cur[b]] = "delivered"]
      /\ notified' = [notified EXCEPT ![cur[b]] = FALSE]
  BY DEF Consistent, HandlerOK, UpsertDelivered, Goto, Upsert
<1>2. HandsStay
  BY <1>1 DEF HandsStay, Pushing, Consistent, TypeOK
<1>3. InHand(cur[b], {"push_receipt"})'
  BY <1>1 DEF InHand, Consistent, TypeOK
<1>4. DebtsMove
  BY <1>1, <1>3 DEF DebtsMove, Unconfirmed, Consistent, TypeOK
<1> QED
  BY <1>1, <1>2, <1>4, DownGrows, UpGrows, HandsStayMove DEF Moves

LEMMA PushReceiptMoves ==
    ASSUME Consistent, Routed, NEW b \in Conn, PushReceipt(b),
           NEW c \in Conn, open[c], pc[c] # "register", Foremost(c)
    PROVE  Moves(c)
<1>0. PICK m : m = cur[b]
  OBVIOUS
<1>9. PICK g : g = Frame("Receipt", m)
  OBVIOUS
<1>1. /\ pc[b] = "push_receipt" /\ m \in Msg /\ Sender[m] \in User
      /\ pc' = [pc EXCEPT ![b] = "read"] /\ cur' = [cur EXCEPT ![b] = NoMsg]
      /\ down' = PutIfOnline(down, Sender[m], g) /\ UNCHANGED <<up, storeVars>>
      /\ g \in ServerFrame
      /\ down \in [Conn -> Seq(ServerFrame)] /\ online \in [User -> Conn \cup {NoConn}]
  BY <1>0, <1>9, RelayAssumption DEF Consistent, TypeOK, HandlerOK, PushReceipt, Handle, Goto, Frame, ServerFrame
<1>2. /\ Range(down[c]) \subseteq Range(down'[c])
      /\ Sender[m] = UserOf(c) => g \in Range(down'[c])
  <2>1. online[UserOf(c)] = c
    BY DEF Routed, OnlineIsLatest
  <2>2. Range(down[c]) \subseteq Range(down'[c])
    BY <1>1, PutIfOnlineAdds
  <2>3. ASSUME Sender[m] = UserOf(c) PROVE g \in Range(down'[c])
    <3>1. online[Sender[m]] = c
      BY <2>1, <2>3
    <3> QED
      BY <1>1, <3>1, PutIfOnlineAdds
  <2> QED
    BY <2>2, <2>3
<1>3. DownMoves(c)
  BY <1>2, DownGrows
<1>4. Sender[m] = UserOf(c) => Carries(down, c, "Receipt", m)'
  BY <1>2, <1>9 DEF Carries
<1>5. \A d \in Conn \ {b} : pc'[d] = pc[d] /\ cur'[d] = cur[d]
  BY <1>1 DEF Consistent, TypeOK
<1>6. HandsMove(c)
  BY <1>0, <1>1, <1>4, <1>5 DEF HandsMove, InHand, Pushing
<1> QED
  BY <1>1, <1>3, <1>6, UpGrows, NoNewDebts DEF Moves

LEMMA ReadReceiptAckMoves ==
    ASSUME Consistent, NEW b \in Conn, ReadReceiptAck(b), NEW c \in Conn
    PROVE  Moves(c)
<1>0. PICK g : g = Head(up[b])
  OBVIOUS
<1>1. /\ up[b] # <<>> /\ g.type = "ReceiptAck" /\ up' = [up EXCEPT ![b] = Tail(@)]
      /\ up \in [Conn -> Seq(ClientFrame)] /\ UNCHANGED <<down, queue, status, pc, cur>>
      /\ notified \in [Msg -> BOOLEAN]
      /\ notified' = [notified EXCEPT ![g.msg] =
                         @ \/ (status[g.msg] # "none" /\ Sender[g.msg] = UserOf(b))]
  BY <1>0 DEF Consistent, TypeOK, ReadReceiptAck, HandlerReads, NextIs, handlerVars
<1>2. g \in ClientFrame
  BY <1>0, <1>1, PopType
<1>3. g.msg \in Msg /\ g.type # "Ack"
  BY <1>1, <1>2 DEF ClientFrame
<1>4. /\ \A m \in Msg : notified[m] => notified'[m]
      /\ Sender[g.msg] = UserOf(b) => ~Unconfirmed(g.msg)'
  BY <1>1, <1>3 DEF Unconfirmed
<1>5. HandsStay
  BY <1>1 DEF HandsStay
<1>6. \A f \in Range(up[c]) : f \in Range(up'[c]) \/ (c = b /\ f = g)
  BY <1>0, <1>1, PopLeaves
<1>7. UpMoves(c)
  BY <1>3, <1>4, <1>6 DEF UpMoves, Carries, Frame
<1>8. DebtsMove
  BY <1>1, <1>4 DEF DebtsMove, Unconfirmed
<1> QED
  BY <1>1, <1>5, <1>7, <1>8, DownGrows, HandsStayMove DEF Moves

(* Steps of a client or the network that put nothing in a channel.         *)
LEMMA QuietMoves ==
    ASSUME UNCHANGED <<up, down, storeVars, handlerVars>>, NEW c \in Conn
    PROVE  Moves(c)
<1>1. HandsStay
  BY DEF HandsStay, handlerVars
<1> QED
  BY <1>1, DownGrows, UpGrows, HandsStayMove, NoNewDebts DEF Moves

(* How the handler of a connection that is open after a step got where it  *)
(* stands: it was registered, and left a drain by finishing it.            *)
CameBy(c) ==
    /\ open[c] /\ pc[c] # "register" /\ Foremost(c)
    /\ pc[c] = "drain_messages" => DrainMessages(c)
    /\ pc[c] = "drain_receipts" /\ pc'[c] # "drain_receipts" => DrainReceipts(c)

LEMMA OwnStepCameBy ==
    ASSUME Consistent, NEW b \in Conn, HandlerStep(b), NEW c \in Conn, open'[c],
           pc'[c] \notin {"register", "drain_messages"}, Foremost(c)'
    PROVE  CameBy(c)
<1>1. open[c]
  BY DEF HandlerStep, Register, DrainMessages, DrainReceipts, ReadSend, UpsertSent, PushDeliver, ReadAck,
     UpsertDelivered, PushReceipt, ReadReceiptAck, HandlerEnds, linkVars
<1>2. pc \in [Conn -> Phase] /\ latest \in [User -> Conn \cup {NoConn}]
  BY DEF Consistent, TypeOK
<1>3. CASE Register(b)
  <2>1. /\ pc[b] = "register" /\ pc' = [pc EXCEPT ![b] = "drain_messages"]
        /\ latest' = [latest EXCEPT ![UserOf(b)] = b]
    BY <1>3, StartupOrder DEF Register, Goto
  <2>2. c # b /\ pc'[c] = pc[c]
    BY <1>2, <2>1
  <2>3. Foremost(c)
    BY <1>2, <2>1, <2>2, Owned DEF Foremost
  <2> QED
    BY <1>1, <2>2, <2>3 DEF CameBy
<1>4. CASE DrainMessages(b)
  <2>1. Foremost(c)
    BY <1>4 DEF DrainMessages, Foremost
  <2> QED
    BY <1>1, <1>2, <1>4, <2>1 DEF DrainMessages, Goto, CameBy
<1>5. CASE DrainReceipts(b)
  <2>1. Foremost(c)
    BY <1>5 DEF DrainReceipts, Foremost
  <2> QED
    BY <1>1, <1>2, <1>5, <2>1 DEF DrainReceipts, Goto, CameBy
<1>6. CASE ReadSend(b) \/ ReadAck(b)
  <2>1. Foremost(c)
    BY <1>6 DEF ReadSend, ReadAck, Foremost
  <2> QED
    BY <1>1, <1>2, <1>6, <2>1 DEF ReadSend, ReadAck, HandlerReads, Handle, Goto, CameBy
<1>7. CASE UpsertSent(b) \/ UpsertDelivered(b) \/ PushDeliver(b) \/ PushReceipt(b)
  <2>1. Foremost(c)
    BY <1>7 DEF UpsertSent, UpsertDelivered, PushDeliver, PushReceipt, Foremost
  <2> QED
    BY <1>1, <1>2, <1>7, <2>1 DEF UpsertSent, UpsertDelivered, PushDeliver, PushReceipt, Handle, Goto, CameBy
<1>8. CASE ReadReceiptAck(b) \/ HandlerEnds(b)
  <2>1. Foremost(c)
    BY <1>8 DEF ReadReceiptAck, HandlerEnds, handlerVars, Foremost
  <2> QED
    BY <1>1, <1>2, <1>8, <2>1 DEF ReadReceiptAck, HandlerEnds, Goto, handlerVars, CameBy
<1> QED
  BY <1>3, <1>4, <1>5, <1>6, <1>7, <1>8 DEF HandlerStep

LEMMA StepCameBy ==
    ASSUME Consistent, [Next]_vars, errors' = 0, NEW c \in Conn, open'[c],
           pc'[c] \notin {"register", "drain_messages"}, Foremost(c)'
    PROVE  CameBy(c)
<1>0. /\ open \in [Conn -> BOOLEAN] /\ pc \in [Conn -> Phase] /\ errors \in Nat
      /\ link \in [Client -> Conn \cup {NoConn}]
  BY RelayAssumption DEF Consistent, TypeOK
<1>1. ASSUME pc' = pc, latest' = latest, open'[c] => open[c] PROVE CameBy(c)
  BY <1>1 DEF CameBy, Foremost
<1>2. ASSUME NEW p \in Client, CloseClient(p), UNCHANGED handlerVars PROVE CameBy(c)
  BY <1>0, <1>1, <1>2 DEF CloseClient, handlerVars
<1>3. ASSUME NEW p \in Client, NEW m \in Msg, Compose(p, m) \/ CrashInCompose(p, m)
      PROVE  CameBy(c)
  BY <1>1, <1>2, <1>3 DEF Compose, CrashInCompose, linkVars, handlerVars
<1>4. ASSUME NEW p \in Client, Quit(p) \/ CrashInAccepted(p) PROVE CameBy(c)
  BY <1>2, <1>4 DEF Quit, CrashInAccepted
<1>5. CASE \E u, v \in User : ClearChat(u, v)
  BY <1>1, <1>5 DEF ClearChat, linkVars, handlerVars
<1>6. ASSUME NEW b \in Conn, Connect(b) PROVE CameBy(c)
  BY <1>0, <1>6 DEF Connect, Startup, CameBy, Foremost
<1>7. ASSUME NEW b \in Conn, ClientStep(b) PROVE CameBy(c)
  BY <1>1, <1>7 DEF ClientStep, ReceiveDeliver, ReadState, ReceiveError,
     ClientSeesEnd, linkVars, handlerVars
<1>8. ASSUME NEW b \in Conn, HandlerStep(b) PROVE CameBy(c)
  BY <1>8, OwnStepCameBy
<1>9. ASSUME NEW b \in Conn, Failure(b) PROVE FALSE
  BY <1>0, <1>9 DEF Failure, Fails, RejectDeliver, DrainFails, RefuseSend, UpsertSentFails, AckFails,
     UpsertDeliveredFails, ReceiptAckFails
<1>10. ASSUME NEW p \in Client, FinishFrame(p) \/ SetStateFails(p) PROVE CameBy(c)
  BY <1>1, <1>10 DEF FinishFrame, ReceiveAccepted, ReceiveReceipt, SetStateFails, linkVars,
     handlerVars
<1>11. ASSUME NEW b \in Conn, CutLink(b) PROVE CameBy(c)
  BY <1>0, <1>1, <1>11 DEF CutLink, handlerVars
<1>12. CASE RelayCrash
  BY <1>12 DEF RelayCrash
<1>13. CASE UNCHANGED vars
  BY <1>1, <1>13 DEF vars, linkVars, handlerVars
<1> QED
  BY <1>3, <1>4, <1>5, <1>6, <1>7, <1>8, <1>9, <1>10, <1>11, <1>12, <1>13 DEF Next

(* Every step moves what is under way for such a connection.               *)
LEMMA NextMoves ==
    ASSUME Consistent, Routed, [Next]_vars, errors' = 0, NEW c \in Conn, open'[c],
           pc'[c] \notin {"register", "drain_messages"}, Foremost(c)'
    PROVE  Moves(c)
<1>0. open[c] /\ pc[c] # "register" /\ Foremost(c)
  BY StepCameBy DEF CameBy
<1>1. ASSUME NEW p \in Client, NEW m \in Msg, Compose(p, m) \/ CrashInCompose(p, m)
      PROVE  Moves(c)
  BY <1>1, ComposeMoves, CloseMoves DEF CrashInCompose
<1>2. ASSUME NEW p \in Client, Quit(p) \/ CrashInAccepted(p) PROVE Moves(c)
  BY <1>2, CloseMoves DEF Quit, CrashInAccepted
<1>3. ASSUME NEW p \in Client, FinishFrame(p) PROVE Moves(c)
  BY <1>3, FinishFrameMoves
<1>4. CASE \E u, v \in User : ClearChat(u, v)
  BY <1>4, QuietMoves DEF ClearChat
<1>5. ASSUME NEW b \in Conn, Connect(b) PROVE Moves(c)
  BY <1>5, ConnectMoves
<1>6. ASSUME NEW b \in Conn, ClientStep(b) PROVE Moves(c)
  BY <1>6, ReceiveDeliverMoves, ReadStateMoves, ReceiveErrorMoves, SeesEndMoves DEF ClientStep
<1>7. ASSUME NEW b \in Conn, HandlerStep(b) PROVE Moves(c)
  BY <1>0, <1>7, RegisterMoves, DrainMessagesMoves, DrainReceiptsMoves, ReadSendMoves, UpsertSentMoves,
     PushDeliverMoves, ReadAckMoves, UpsertDeliveredMoves, PushReceiptMoves, ReadReceiptAckMoves
     DEF HandlerStep
<1>8. ASSUME NEW b \in Conn, Failure(b) PROVE FALSE
  BY <1>8, RelayAssumption DEF Failure, Fails, RejectDeliver, DrainFails, RefuseSend,
     UpsertSentFails, AckFails, UpsertDeliveredFails, ReceiptAckFails, Consistent, TypeOK
<1>9. ASSUME NEW p \in Client, SetStateFails(p) PROVE FALSE
  BY <1>9, RelayAssumption DEF SetStateFails, Fails, Consistent, TypeOK
<1>10. ASSUME NEW b \in Conn, CutLink(b) PROVE Moves(c)
  BY <1>10, QuietMoves DEF CutLink
<1>11. CASE RelayCrash
  BY <1>11 DEF RelayCrash
<1>12. CASE UNCHANGED vars
  BY <1>12, QuietMoves DEF vars
<1> QED
  BY <1>1, <1>2, <1>3, <1>4, <1>5, <1>6, <1>7, <1>8, <1>9, <1>10, <1>11, <1>12 DEF Next

(* A receipt in the hand of the process behind c is answered on c.         *)
LEMMA NextHeldMoves ==
    ASSUME Consistent, Routed, [Next]_vars, errors' = 0, NEW c \in Conn, open[c], open'[c]
    PROVE  HeldMoves(c)
<1>0. /\ link[Owner[c]] = c /\ Owner[c] \in Client
      /\ held \in [Client -> Held] /\ up \in [Conn -> Seq(ClientFrame)]
      /\ open \in [Conn -> BOOLEAN]
  BY Owned DEF Routed, OpenLinked, Consistent, TypeOK
<1>1. ASSUME held'[Owner[c]] = held[Owner[c]] PROVE HeldMoves(c)
  BY <1>1 DEF HeldMoves, AtHand
<1>2. ASSUME NEW p \in Client, CloseClient(p) PROVE HeldMoves(c)
  <2>1. p # Owner[c]
    BY <1>0, <1>2, Owned DEF CloseClient
  <2> QED
    BY <1>0, <1>1, <1>2, <2>1 DEF CloseClient
<1>3. ASSUME NEW p \in Client, NEW m \in Msg, Compose(p, m) \/ CrashInCompose(p, m)
      PROVE  HeldMoves(c)
  BY <1>1, <1>2, <1>3 DEF Compose, CrashInCompose
<1>4. ASSUME NEW p \in Client, Quit(p) \/ CrashInAccepted(p) PROVE HeldMoves(c)
  BY <1>2, <1>4 DEF Quit, CrashInAccepted
<1>5. ASSUME NEW p \in Client, ReceiveAccepted(p) PROVE HeldMoves(c)
  <2>1. held' = [held EXCEPT ![p] = Idle] /\ held[p].type = "Accepted"
    BY <1>5 DEF ReceiveAccepted
  <2>2. CASE p = Owner[c]
    BY <2>1, <2>2 DEF HeldMoves, AtHand
  <2>3. CASE p # Owner[c]
    BY <1>0, <1>1, <2>1, <2>3
  <2> QED
    BY <2>2, <2>3
<1>6. ASSUME NEW p \in Client, ReceiveReceipt(p) PROVE HeldMoves(c)
  <2>1. /\ held' = [held EXCEPT ![p] = Idle] /\ held[p].type = "Receipt"
        /\ up' = Put(up, link[p], Frame("ReceiptAck", held[p].msg))
    BY <1>6 DEF ReceiveReceipt
  <2>2. CASE p = Owner[c]
    <3>1. held[p] # Idle
      BY <2>1 DEF Idle
    <3>2. PICK g : g = Frame("ReceiptAck", held[p].msg)
      OBVIOUS
    <3>3. g \in ClientFrame
      BY <3>1, <3>2, HeldMsg DEF Consistent, Frame, ClientFrame
    <3>4. g \in Range(up'[c])
      BY <1>0, <2>1, <2>2, <3>2, <3>3, PutAdds
    <3> QED
      BY <2>2, <3>2, <3>4 DEF HeldMoves, AtHand, Carries
  <2>3. CASE p # Owner[c]
    BY <1>0, <1>1, <2>1, <2>3
  <2> QED
    BY <2>2, <2>3
<1>7. ASSUME NEW b \in Conn, ReadState(b) PROVE HeldMoves(c)
  <2>1. /\ held[Owner[b]] = Idle
        /\ \A q \in Client \ {Owner[b]} : held'[q] = held[q]
    BY <1>0, <1>7 DEF ReadState, ClientReads
  <2>2. CASE Owner[b] = Owner[c]
    BY <2>1, <2>2 DEF HeldMoves, AtHand, Idle
  <2>3. CASE Owner[b] # Owner[c]
    BY <1>0, <1>1, <2>1, <2>3
  <2> QED
    BY <2>2, <2>3
<1>8. ASSUME NEW b \in Conn, ClientStep(b) PROVE HeldMoves(c)
  BY <1>1, <1>7, <1>8 DEF ClientStep, ReceiveDeliver, ReceiveError, ClientSeesEnd, clientVars
<1>9. ASSUME NEW b \in Conn, HandlerStep(b) PROVE HeldMoves(c)
  BY <1>1, <1>9 DEF HandlerStep, Register, DrainMessages, DrainReceipts, ReadSend, UpsertSent,
     PushDeliver, ReadAck, UpsertDelivered, PushReceipt, ReadReceiptAck, HandlerEnds, clientVars
<1>10. ASSUME NEW b \in Conn, Failure(b) PROVE FALSE
  BY <1>10, RelayAssumption DEF Failure, Fails, RejectDeliver, DrainFails, RefuseSend,
     UpsertSentFails, AckFails, UpsertDeliveredFails, ReceiptAckFails, Consistent, TypeOK
<1>11. ASSUME NEW p \in Client, SetStateFails(p) PROVE FALSE
  BY <1>11, RelayAssumption DEF SetStateFails, Fails, Consistent, TypeOK
<1>12. ASSUME NEW b \in Conn, Connect(b) \/ CutLink(b) PROVE HeldMoves(c)
  BY <1>1, <1>12 DEF Connect, CutLink, clientVars
<1>13. ASSUME \/ \E u, v \in User : ClearChat(u, v)
              \/ RelayCrash \/ UNCHANGED vars
       PROVE  HeldMoves(c)
  BY <1>1, <1>13 DEF ClearChat, RelayCrash, vars, clientVars
<1> QED
  BY <1>3, <1>4, <1>5, <1>6, <1>8, <1>9, <1>10, <1>11, <1>12, <1>13 DEF Next, FinishFrame

-----------------------------------------------------------------------------
(* What the relay owes the user of a connection is under way on it.        *)

MessageUnderWay(c, m) ==
    \/ Carries(down, c, "Deliver", m) \/ Carries(up, c, "Ack", m)
    \/ InHand(m, Pushing)

ReceiptUnderWay(c, m) ==
    \/ Carries(down, c, "Receipt", m) \/ AtHand(c, m) \/ Carries(up, c, "ReceiptAck", m)
    \/ InHand(m, {"push_receipt"})

MessagesServed(c) ==
    open[c] /\ Foremost(c) /\ pc[c] \notin {"register", "drain_messages"} =>
        \A m \in Msg : Recipient[m] = UserOf(c) /\ queue[m] = "pending" => MessageUnderWay(c, m)

ReceiptsServed(c) ==
    open[c] /\ Foremost(c) /\ pc[c] \notin {"register", "drain_messages", "drain_receipts"} =>
        \A m \in Msg : Sender[m] = UserOf(c) /\ Unconfirmed(m) => ReceiptUnderWay(c, m)

(* While no store call fails, every drained connection that is the latest  *)
(* of its user is served.                                                  *)
Served == errors = 0 => \A c \in Conn : MessagesServed(c) /\ ReceiptsServed(c)

LEMMA MessagesServedStep ==
    ASSUME Consistent, Routed, [Next]_vars, errors' = 0, NEW c \in Conn, MessagesServed(c)
    PROVE  MessagesServed(c)'
<1> SUFFICES ASSUME open'[c], Foremost(c)', pc'[c] \notin {"register", "drain_messages"},
                    NEW m \in Msg, Recipient[m] = UserOf(c), queue'[m] = "pending"
             PROVE  MessageUnderWay(c, m)'
  BY DEF MessagesServed
<1>1. CameBy(c) /\ Moves(c)
  BY StepCameBy, NextMoves
<1>2. CASE pc[c] = "drain_messages"
  <2>1. /\ DrainMessages(c) /\ m \in Pending(UserOf(c))
    BY <1>1, <1>2 DEF CameBy, DrainMessages, storeVars, Pending
  <2> QED
    BY <2>1, DrainMessagesMoves DEF MessageUnderWay
<1>3. CASE pc[c] # "drain_messages"
  <2>1. \/ InHand(m, Pushing)'
        \/ queue[m] = "pending" /\ MessageUnderWay(c, m)
    BY <1>1, <1>3 DEF CameBy, Moves, DebtsMove, MessagesServed
  <2> QED
    BY <1>1, <2>1 DEF Moves, DownMoves, UpMoves, HandsMove, MessageUnderWay
<1> QED
  BY <1>2, <1>3

LEMMA ReceiptsServedStep ==
    ASSUME Consistent, Routed, [Next]_vars, errors' = 0, NEW c \in Conn, ReceiptsServed(c)
    PROVE  ReceiptsServed(c)'
<1> SUFFICES ASSUME open'[c], Foremost(c)', pc'[c] \notin {"register", "drain_messages", "drain_receipts"},
                    NEW m \in Msg, Sender[m] = UserOf(c), Unconfirmed(m)'
             PROVE  ReceiptUnderWay(c, m)'
  BY DEF ReceiptsServed
<1>1. CameBy(c) /\ Moves(c)
  BY StepCameBy, NextMoves
<1>5. HeldMoves(c)
  BY <1>1, NextHeldMoves DEF CameBy
<1>2. pc[c] # "drain_messages"
  BY <1>1, StartupOrder DEF CameBy, DrainMessages, Goto, Consistent, TypeOK
<1>3. CASE pc[c] = "drain_receipts"
  <2>1. /\ DrainReceipts(c) /\ m \in Unnotified(UserOf(c))
    BY <1>1, <1>3 DEF CameBy, DrainReceipts, storeVars, Unnotified, Unconfirmed
  <2> QED
    BY <2>1, DrainReceiptsMoves DEF ReceiptUnderWay
<1>4. CASE pc[c] # "drain_receipts"
  <2>1. \/ InHand(m, {"push_receipt"})'
        \/ Unconfirmed(m) /\ ReceiptUnderWay(c, m)
    BY <1>1, <1>2, <1>4 DEF CameBy, Moves, DebtsMove, ReceiptsServed
  <2> QED
    BY <1>1, <1>5, <2>1 DEF Moves, DownMoves, HeldMoves, UpMoves, HandsMove, ReceiptUnderWay
<1> QED
  BY <1>3, <1>4

LEMMA NextServed ==
    ASSUME Consistent, Routed, Served, [Next]_vars
    PROVE  Served'
<1>1. errors' = 0 => errors = 0
  <2> SUFFICES ASSUME errors' = 0 PROVE errors = 0
    OBVIOUS
  <2>1. ASSUME NEW c \in Conn, Failure(c) PROVE FALSE
    BY <2>1, RelayAssumption DEF Failure, Fails, RejectDeliver, DrainFails, RefuseSend,
       UpsertSentFails, AckFails, UpsertDeliveredFails, ReceiptAckFails, Consistent, TypeOK
  <2>2. ASSUME NEW c \in Conn, HandlerStep(c) PROVE errors' = errors
    BY <2>2 DEF HandlerStep, Register, DrainMessages, DrainReceipts, ReadSend, UpsertSent, PushDeliver,
       ReadAck, UpsertDelivered, PushReceipt, ReadReceiptAck, HandlerEnds, faultVars
  <2>3. ASSUME NEW c \in Conn, ClientStep(c) \/ Connect(c) \/ CutLink(c)
        PROVE  errors' = errors
    BY <2>3 DEF ClientStep, ReceiveDeliver, ReadState, ReceiveError, ClientSeesEnd,
       Connect, CutLink, faultVars
  <2>4. ASSUME NEW p \in Client,
               \/ \E m \in Msg : Compose(p, m) \/ CrashInCompose(p, m)
               \/ FinishFrame(p) \/ CrashInAccepted(p) \/ Quit(p)
        PROVE  errors' = errors
    BY <2>4 DEF Compose, CrashInCompose, FinishFrame, ReceiveAccepted, ReceiveReceipt,
       CrashInAccepted, Quit, faultVars
  <2>5. ASSUME NEW p \in Client, SetStateFails(p) PROVE FALSE
    BY <2>5, RelayAssumption DEF SetStateFails, Fails, Consistent, TypeOK
  <2>6. ASSUME \/ \E u, v \in User : ClearChat(u, v)
               \/ RelayCrash
               \/ UNCHANGED vars
        PROVE  errors' = errors
    BY <2>6 DEF ClearChat, RelayCrash, vars, faultVars
  <2> QED
    BY <2>1, <2>2, <2>3, <2>4, <2>5, <2>6 DEF Next
<1> QED
  BY <1>1, MessagesServedStep, ReceiptsServedStep DEF Served

(* Every drained connection that is the latest of its user is served.      *)
LEMMA AlwaysServed == Spec => [](Routed /\ Served)
<1>1. Init => Served
  BY DEF Init, Served, MessagesServed, ReceiptsServed
<1> QED
  BY <1>1, InitConsistent, NextConsistent, InitRouted, NextRouted, NextServed, PTL DEF Spec

(* The latest connection of a user belongs to a process of that user.      *)
LatestOwned == \A u \in User : latest[u] # NoConn => UserOf(latest[u]) = u

LEMMA AlwaysLatestOwned == Spec => []LatestOwned
<1>1. Init => LatestOwned
  BY DEF Init, LatestOwned
<1>2. ASSUME Consistent, LatestOwned, [Next]_vars PROVE LatestOwned'
  <2>1. ASSUME UNCHANGED latest PROVE LatestOwned'
    BY <1>2, <2>1 DEF LatestOwned, UserOf
  <2>2. ASSUME NEW c \in Conn, Register(c) PROVE LatestOwned'
    BY <1>2, <2>2, Owned DEF Consistent, TypeOK, Register, LatestOwned, UserOf
  <2>3. ASSUME NEW c \in Conn, HandlerStep(c) PROVE LatestOwned'
    BY <2>1, <2>2, <2>3 DEF HandlerStep, DrainMessages, DrainReceipts, ReadSend, UpsertSent,
       PushDeliver, ReadAck, UpsertDelivered, PushReceipt, ReadReceiptAck, HandlerEnds, handlerVars
  <2>4. ASSUME NEW c \in Conn, ClientStep(c) \/ Connect(c) \/ CutLink(c) \/ Failure(c)
        PROVE  LatestOwned'
    BY <2>1, <2>4 DEF ClientStep, ReceiveDeliver, ReadState, ReceiveError, ClientSeesEnd, Connect,
       CutLink, Failure, RejectDeliver, DrainFails, RefuseSend, UpsertSentFails, AckFails,
       UpsertDeliveredFails, ReceiptAckFails, handlerVars
  <2>5. ASSUME NEW p \in Client,
               \/ \E m \in Msg : Compose(p, m) \/ CrashInCompose(p, m)
               \/ FinishFrame(p) \/ SetStateFails(p) \/ CrashInAccepted(p) \/ Quit(p)
        PROVE  LatestOwned'
    BY <2>1, <2>5 DEF Compose, CrashInCompose, FinishFrame, ReceiveAccepted, ReceiveReceipt,
       SetStateFails, CrashInAccepted, Quit, handlerVars
  <2>6. ASSUME \/ \E u, v \in User : ClearChat(u, v)
               \/ RelayCrash \/ UNCHANGED vars
        PROVE  LatestOwned'
    BY <2>1, <2>6 DEF ClearChat, RelayCrash, vars, handlerVars
  <2> QED
    BY <1>2, <2>3, <2>4, <2>5, <2>6 DEF Next
<1> QED
  BY <1>1, <1>2, InitConsistent, NextConsistent, PTL DEF Spec

(* While no store call fails, a message pending for a user is on its way   *)
(* to the user's latest connection once that is drained, whatever was cut, *)
(* quit or crashed before and whichever processes of the user come and go  *)
(* (handle_socket, handle_send, send_if_online).                           *)
THEOREM NoMessageMissed == Spec => []NoMissedMessage
<1>1. Consistent /\ LatestOwned /\ Served => NoMissedMessage
  <2> SUFFICES ASSUME Consistent, LatestOwned, Served, errors = 0, NEW m \in Msg, NEW c \in Conn,
                      c = latest[Recipient[m]], queue[m] = "pending",
                      open[c], pc[c] \notin {"register", "drain_messages"}
               PROVE  MessageUnderWay(c, m)
    BY RelayAssumption DEF NoMissedMessage, MessageUnderWay, Pushing, Consistent, TypeOK
  <2> QED
    BY RelayAssumption DEF LatestOwned, Foremost, Served, MessagesServed
<1> QED
  BY <1>1, AlwaysServed, AlwaysLatestOwned, ConsistentAlways, PTL

(* The same of receipts: one that is recorded and unconfirmed is on its    *)
(* way to the sender's latest connection, or is being written by the       *)
(* process that uses it (handle_ack, handle_server_frame).                 *)
THEOREM NoReceiptMissed == Spec => []NoMissedReceipt
<1>1. Consistent /\ LatestOwned /\ Served => NoMissedReceipt
  <2> SUFFICES ASSUME Consistent, LatestOwned, Served, errors = 0, NEW m \in Msg, NEW c \in Conn,
                      c = latest[Sender[m]], Unconfirmed(m),
                      open[c], pc[c] \notin {"register", "drain_messages", "drain_receipts"}
               PROVE  ReceiptUnderWay(c, m)
    BY RelayAssumption DEF NoMissedReceipt, ReceiptUnderWay, AtHand, Unconfirmed, Consistent, TypeOK
  <2> QED
    BY RelayAssumption DEF LatestOwned, Foremost, Served, ReceiptsServed
<1> QED
  BY <1>1, AlwaysServed, AlwaysLatestOwned, ConsistentAlways, PTL

-----------------------------------------------------------------------------
(* The refinement mapping, one message at a time.                          *)

(* Who holds a message, by the tables that say so.                         *)
LEMMA HoldersOf ==
    ASSUME NEW m \in Msg
    PROVE  /\ Holders[m] \subseteq {"sender", "relay", "recipient"}
           /\ "sender" \in Holders[m] <=> m \in outbox
           /\ "relay" \in Holders[m] <=> queue[m] = "pending"
           /\ "recipient" \in Holders[m] <=> shows[m] > 0
BY DEF Holders

(* The same after a step.                                                  *)
LEMMA HoldersNext ==
    ASSUME NEW m \in Msg
    PROVE  /\ Holders'[m] \subseteq {"sender", "relay", "recipient"}
           /\ "sender" \in Holders'[m] <=> m \in outbox'
           /\ "relay" \in Holders'[m] <=> queue'[m] = "pending"
           /\ "recipient" \in Holders'[m] <=> shows'[m] > 0
BY DEF Holders

(* The tables say of m what they said.                                     *)
Kept(m) == /\ m \in outbox' <=> m \in outbox
           /\ queue'[m] = "pending" <=> queue[m] = "pending"
           /\ shows'[m] > 0 <=> shows[m] > 0

(* Then it is held by whom it was.                                         *)
LEMMA HoldersKept ==
    ASSUME NEW m \in Msg, Kept(m)
    PROVE  Holders'[m] = Holders[m]
<1>1. \A p \in {"sender", "relay", "recipient"} : p \in Holders'[m] <=> p \in Holders[m]
  BY HoldersOf, HoldersNext DEF Kept
<1>2. \A p : p \in Holders'[m] <=> p \in Holders[m]
  BY <1>1, HoldersOf, HoldersNext
<1> QED
  BY <1>2

(* A step that is about at most one message.                               *)
LEMMA HoldersElsewhere ==
    ASSUME NEW m \in Msg, \A k \in Msg \ {m} : Kept(k)
    PROVE  Holders' = [Holders EXCEPT ![m] = Holders'[m]]
<1>1. Holders' = [k \in Msg |-> Holders'[k]] /\ Holders = [k \in Msg |-> Holders[k]]
  BY DEF Holders
<1>2. \A k \in Msg \ {m} : Holders'[k] = Holders[k]
  BY HoldersKept
<1> QED
  BY <1>1, <1>2

(* A step that moves no message between tables.                            *)
LEMMA HoldersSame ==
    ASSUME \A k \in Msg : Kept(k)
    PROVE  Holders' = Holders
<1>1. Holders' = [k \in Msg |-> Holders'[k]] /\ Holders = [k \in Msg |-> Holders[k]]
  BY DEF Holders
<1>2. \A k \in Msg : Holders'[k] = Holders[k]
  BY HoldersKept
<1> QED
  BY <1>1, <1>2

(* Tables that are left alone.                                             *)
LEMMA TablesAlone ==
    ASSUME UNCHANGED <<outbox, queue, shows>>
    PROVE  Holders' = Holders
BY HoldersSame DEF Kept

(* What the invariant says of a message, in terms of its holders.          *)
LEMMA CustodyOf ==
    ASSUME Consistent, NEW m \in Msg
    PROVE  /\ local[m] \in {"absent", "queued_local", "sent", "delivered"}
           /\ queue[m] \in {"absent", "pending", "acked"} /\ shows[m] \in Nat
           /\ m \notin posted => Holders[m] = {}
           /\ m \in posted /\ queue[m] = "absent" => Holders[m] = {"sender"}
           /\ queue[m] # "absent" => {"relay", "recipient"} \cap Holders[m] # {}
           /\ queue[m] = "acked" => "recipient" \in Holders[m] /\ "relay" \notin Holders[m]
<1>1. /\ local[m] \in {"absent", "queued_local", "sent", "delivered"}
      /\ queue[m] \in {"absent", "pending", "acked"} /\ shows[m] \in Nat
  BY DEF Consistent, TypeOK, LocalState, Rank
<1>2. CustodyOK(m)
  BY DEF Consistent
<1>3. m \notin posted => Holders[m] = {}
  BY <1>1, <1>2, HoldersOf DEF CustodyOK
<1>4. m \in posted /\ queue[m] = "absent" => Holders[m] = {"sender"}
  BY <1>1, <1>2, HoldersOf DEF CustodyOK
<1>5. queue[m] # "absent" => {"relay", "recipient"} \cap Holders[m] # {}
  BY <1>1, <1>2, HoldersOf DEF CustodyOK
<1>6. queue[m] = "acked" => "recipient" \in Holders[m] /\ "relay" \notin Holders[m]
  BY <1>1, <1>2, HoldersOf DEF CustodyOK
<1> QED
  BY <1>1, <1>3, <1>4, <1>5, <1>6

-----------------------------------------------------------------------------
(* The steps that move custody or a tick.                                  *)

LEMMA ComposePosts ==
    ASSUME Consistent, NEW p \in Client, NEW m \in Msg, Compose(p, m)
    PROVE  D!Post(m)
<1>1. /\ local[m] = "absent" /\ m \notin posted
      /\ local' = [local EXCEPT ![m] = "queued_local"]
      /\ outbox' = outbox \cup {m} /\ UNCHANGED <<queue, shows>>
  BY DEF Compose, storeVars
<1>2. Holders[m] = {}
  BY <1>1, CustodyOf
<1>3. Holders' = [Holders EXCEPT ![m] = Holders'[m]]
  BY <1>1, HoldersElsewhere DEF Kept
<1>4. Holders'[m] = {"sender"}
  BY <1>1, <1>2, HoldersOf, HoldersNext
<1> QED
  BY <1>1, <1>2, <1>3, <1>4 DEF D!Post

LEMMA CrashInComposeDrafts ==
    ASSUME Consistent, NEW p \in Client, NEW m \in Msg, CrashInCompose(p, m)
    PROVE  D!Draft(m)
<1>1. /\ local[m] = "absent" /\ m \notin posted
      /\ local' = [local EXCEPT ![m] = "queued_local"]
      /\ UNCHANGED <<outbox, queue, shows>>
  BY DEF CrashInCompose, storeVars
<1>2. Holders[m] = {} /\ Holders' = Holders
  BY <1>1, CustodyOf, TablesAlone
<1> QED
  BY <1>1, <1>2 DEF D!Draft

(* A Deliver is stored once; again, it changes nothing.                    *)
LEMMA ReceiveDeliverStores ==
    ASSUME Consistent, NEW c \in Conn, ReceiveDeliver(c)
    PROVE  [D!Next]_(D!vars)
<1>1. PICK m \in Msg :
        /\ queue[m] # "absent"
        /\ shows' = [shows EXCEPT ![m] = TimesStored(m)]
  BY ClientReadsType DEF ReceiveDeliver, DownOK
<1>2. UNCHANGED <<local, outbox, queue>>
  BY DEF ReceiveDeliver, storeVars
<1>3. /\ shows[m] \in Nat /\ shows \in [Msg -> Nat]
      /\ m \in inbox => shows[m] > 0
  BY DEF Consistent, TypeOK, ShownOK
<1>4. \A k \in Msg \ {m} : Kept(k)
  BY <1>1, <1>2, <1>3 DEF Kept
<1>5. shows'[m] > 0
  BY <1>1, <1>3 DEF TimesStored
<1>6. CASE shows[m] > 0
  <2>1. Holders' = Holders
    BY <1>2, <1>4, <1>5, <1>6, HoldersSame DEF Kept
  <2> QED
    BY <1>2, <2>1 DEF D!vars
<1>7. CASE ~(shows[m] > 0)
  <2>1. queue[m] = "pending"
    BY <1>1, <1>7, CustodyOf, HoldersOf
  <2>2. "relay" \in Holders[m] /\ "recipient" \notin Holders[m]
    BY <1>7, <2>1, HoldersOf
  <2>3. Holders'[m] = Holders[m] \cup {"recipient"}
    BY <1>2, <1>5, HoldersOf, HoldersNext
  <2>4. Holders' = [Holders EXCEPT ![m] = Holders'[m]]
    BY <1>4, HoldersElsewhere
  <2> QED
    BY <1>2, <2>2, <2>3, <2>4 DEF D!Store, D!Next
<1> QED
  BY <1>6, <1>7

(* The UPDATE of set_state moves the tick to what the custody of its       *)
(* message justifies, or lets it slip back from delivered; with Accepted   *)
(* the outbox row goes.                                                    *)
LEMMA UpdateTicks ==
    ASSUME Consistent, NEW p \in Client, held[p] # Idle,
           NEW new \in {"sent", "delivered"},
           new = "delivered" => held[p].type = "Receipt", Update(p, new),
           UNCHANGED <<queue, shows>>,
           outbox' = outbox \/ (new = "sent" /\ outbox' = outbox \ {held[p].msg})
    PROVE  [D!Next]_(D!vars)
<1>1. PICK m \in Msg :
        /\ m = held[p].msg /\ queue[m] # "absent"
        /\ new = "delivered" => queue[m] = "acked"
        /\ local' = [local EXCEPT ![m] = local'[m]]
        /\ local'[m] \in {local[m], new}
        /\ local[m] = "absent" => local'[m] = "absent"
  BY UpdateRow
<1>2. /\ local[m] \in {"absent", "queued_local", "sent", "delivered"}
      /\ local \in [Msg -> LocalState] /\ Holders = [k \in Msg |-> Holders[k]]
  BY CustodyOf DEF Consistent, TypeOK, Holders
<1>3. {"relay", "recipient"} \cap Holders[m] # {}
  BY <1>1, CustodyOf
<1>4. D!Justified(new, Holders[m])
  BY <1>1, <1>3, CustodyOf DEF D!Justified
<1>5. \/ Holders' = Holders
      \/ new = "sent" /\ Holders' = [Holders EXCEPT ![m] = @ \ {"sender"}]
  <2>1. CASE outbox' = outbox
    BY <2>1, TablesAlone
  <2>2. CASE new = "sent" /\ outbox' = outbox \ {m}
    <3>1. Holders'[m] = Holders[m] \ {"sender"}
      BY <2>2, HoldersOf, HoldersNext
    <3>2. Holders' = [Holders EXCEPT ![m] = Holders'[m]]
      BY <2>2, HoldersElsewhere DEF Kept
    <3> QED
      BY <2>2, <3>1, <3>2
  <2> QED
    BY <1>1, <2>1, <2>2
<1>6. CASE local'[m] = local[m]
  <2>1. local' = local
    BY <1>1, <1>2, <1>6
  <2>2. CASE "sender" \in Holders[m]
    BY <1>3, <1>5, <2>1, <2>2 DEF D!Release, D!Next, D!vars
  <2>3. CASE "sender" \notin Holders[m]
    <3>1. Holders' = Holders
      BY <1>2, <1>5, <2>3
    <3> QED
      BY <2>1, <3>1 DEF D!vars
  <2> QED
    BY <2>2, <2>3
<1>7. CASE local'[m] # local[m]
  <2>1. local[m] # "absent" /\ local' = [local EXCEPT ![m] = new]
    BY <1>1, <1>7
  <2>2. CASE local[m] # "delivered"
    <3>1. D!Order[new] > D!Order[local[m]]
      BY <1>1, <1>2, <1>7, <2>2 DEF D!Order
    <3>2. D!Tick(m, new)
      BY <1>4, <1>5, <2>1, <3>1 DEF D!Tick
    <3> QED
      BY <3>2 DEF D!Next
  <2>3. CASE local[m] = "delivered"
    <3>1. new = "sent"
      BY <1>1, <1>7, <2>3
    <3>2. D!Slip(m)
      BY <1>5, <2>1, <2>3, <3>1 DEF D!Slip
    <3> QED
      BY <3>2 DEF D!Next
  <2> QED
    BY <2>2, <2>3
<1> QED
  BY <1>6, <1>7

(* The end of a frame, or a crash before the outbox row is deleted.        *)
LEMMA FrameTicks ==
    ASSUME Consistent, NEW p \in Client, FinishFrame(p) \/ CrashInAccepted(p)
    PROVE  [D!Next]_(D!vars)
<1>1. held[p] # Idle
  BY DEF FinishFrame, ReceiveAccepted, ReceiveReceipt, CrashInAccepted, Idle
<1>2. CASE ReceiveAccepted(p) \/ CrashInAccepted(p)
  BY <1>1, <1>2, UpdateTicks DEF ReceiveAccepted, CrashInAccepted, storeVars
<1>3. CASE ReceiveReceipt(p)
  BY <1>1, <1>3, UpdateTicks DEF ReceiveReceipt, storeVars
<1> QED
  BY <1>2, <1>3 DEF FinishFrame

(* enqueue_message takes what only its sender holds.                       *)
LEMMA ReadSendTakes ==
    ASSUME Consistent, NEW c \in Conn, ReadSend(c)
    PROVE  [D!Next]_(D!vars)
<1>1. PICK m \in Msg :
        /\ m \in posted
        /\ \/ queue[m] = "absent" /\ queue' = [queue EXCEPT ![m] = "pending"]
           \/ UNCHANGED queue
  BY HandlerReadsType DEF ReadSend, UpOK
<1>2. UNCHANGED <<local, outbox, shows>>
  BY DEF ReadSend, clientVars
<1>3. CASE UNCHANGED queue
  BY <1>2, <1>3, TablesAlone DEF D!vars
<1>4. CASE queue[m] = "absent" /\ queue' = [queue EXCEPT ![m] = "pending"]
  <2>1. Holders[m] = {"sender"}
    BY <1>1, <1>4, CustodyOf
  <2>2. queue \in [Msg -> {"absent", "pending", "acked"}]
    BY DEF Consistent, TypeOK
  <2>3. Holders' = [Holders EXCEPT ![m] = Holders'[m]]
    BY <1>2, <1>4, <2>2, HoldersElsewhere DEF Kept
  <2>4. Holders'[m] = Holders[m] \cup {"relay"}
    BY <1>2, <1>4, <2>2, HoldersOf, HoldersNext
  <2> QED
    BY <1>2, <2>1, <2>3, <2>4 DEF D!Take, D!Next
<1> QED
  BY <1>1, <1>3, <1>4

(* ack_message drops what its recipient holds.                             *)
LEMMA ReadAckDrops ==
    ASSUME Consistent, NEW c \in Conn, ReadAck(c)
    PROVE  [D!Next]_(D!vars)
<1>1. PICK m \in Msg :
        /\ shows[m] > 0
        /\ \/ queue[m] = "pending" /\ queue' = [queue EXCEPT ![m] = "acked"]
           \/ UNCHANGED queue
  BY HandlerReadsType DEF ReadAck, UpOK
<1>2. UNCHANGED <<local, outbox, shows>>
  BY DEF ReadAck, clientVars
<1>3. CASE UNCHANGED queue
  BY <1>2, <1>3, TablesAlone DEF D!vars
<1>4. CASE queue[m] = "pending" /\ queue' = [queue EXCEPT ![m] = "acked"]
  <2>1. {"relay", "recipient"} \subseteq Holders[m]
    BY <1>1, <1>4, HoldersOf
  <2>2. queue \in [Msg -> {"absent", "pending", "acked"}]
    BY DEF Consistent, TypeOK
  <2>3. Holders' = [Holders EXCEPT ![m] = Holders'[m]]
    BY <1>2, <1>4, <2>2, HoldersElsewhere DEF Kept
  <2>4. Holders'[m] = Holders[m] \ {"relay"}
    BY <1>2, <1>4, <2>2, HoldersOf, HoldersNext
  <2> QED
    BY <1>2, <2>1, <2>3, <2>4 DEF D!Drop, D!Next
<1> QED
  BY <1>1, <1>3, <1>4

(* /clear wipes the ticks of a chat and moves no message.                  *)
LEMMA ClearChatWipes ==
    ASSUME Consistent, NEW u \in User, NEW v \in User, ClearChat(u, v)
    PROVE  D!Next
<1> DEFINE S == {m \in Msg : Sender[m] = u /\ Recipient[m] = v}
<1>1. local' = [m \in Msg |-> IF m \in S THEN "absent" ELSE local[m]]
  BY DEF ClearChat
<1>2. Holders' = Holders
  BY TablesAlone DEF ClearChat, storeVars
<1>3. D!Wipe(S) /\ S \in SUBSET Msg
  BY <1>1, <1>2 DEF D!Wipe
<1> QED
  BY <1>3 DEF D!Next

-----------------------------------------------------------------------------
(* Every step.                                                             *)

(* The other steps touch neither the tables nor the ticks.                 *)
LEMMA Invisible ==
    ASSUME UNCHANGED <<local, outbox, queue, shows>>
    PROVE  [D!Next]_(D!vars)
BY TablesAlone DEF D!vars

LEMMA DeliveryStep == Consistent /\ [Next]_vars => [D!Next]_(D!vars)
<1> SUFFICES ASSUME Consistent, [Next]_vars PROVE [D!Next]_(D!vars)
  OBVIOUS
<1>1. ASSUME NEW p \in Client, NEW m \in Msg, Compose(p, m) \/ CrashInCompose(p, m)
      PROVE  [D!Next]_(D!vars)
  BY <1>1, ComposePosts, CrashInComposeDrafts DEF D!Next
<1>2. ASSUME NEW u \in User, NEW v \in User, ClearChat(u, v) PROVE [D!Next]_(D!vars)
  BY <1>2, ClearChatWipes
<1>3. ASSUME NEW c \in Conn, ClientStep(c) PROVE [D!Next]_(D!vars)
  <2>1. CASE ReadState(c) \/ ReceiveError(c) \/ ClientSeesEnd(c)
    BY <2>1, Invisible DEF ReadState, ReceiveError, ClientSeesEnd, clientVars, storeVars
  <2> QED
    BY <1>3, <2>1, ReceiveDeliverStores DEF ClientStep
<1>4. ASSUME NEW c \in Conn, HandlerStep(c) PROVE [D!Next]_(D!vars)
  <2>1. CASE ReadSend(c) \/ ReadAck(c)
    BY <2>1, ReadSendTakes, ReadAckDrops
  <2>2. CASE ~(ReadSend(c) \/ ReadAck(c))
    <3>1. UNCHANGED <<local, outbox, queue, shows>>
      BY <1>4, <2>2 DEF HandlerStep, Register, DrainMessages, DrainReceipts, UpsertSent,
         Upsert, PushDeliver, UpsertDelivered, PushReceipt, ReadReceiptAck, HandlerEnds,
         clientVars, storeVars
    <3> QED
      BY <3>1, Invisible
  <2> QED
    BY <2>1, <2>2
<1>5. ASSUME NEW c \in Conn, Failure(c) \/ Connect(c) \/ CutLink(c) PROVE [D!Next]_(D!vars)
  <2>1. UNCHANGED <<local, outbox, queue, shows>>
    BY <1>5 DEF Failure, RejectDeliver, DrainFails, RefuseSend, UpsertSentFails, AckFails,
       UpsertDeliveredFails, ReceiptAckFails, Connect, CutLink, clientVars, storeVars
  <2> QED
    BY <2>1, Invisible
<1>6. CASE RelayCrash \/ (\E p \in Client : Quit(p) \/ SetStateFails(p)) \/ UNCHANGED vars
  <2>1. UNCHANGED <<local, outbox, queue, shows>>
    BY <1>6 DEF RelayCrash, Quit, SetStateFails, vars, clientVars, storeVars
  <2> QED
    BY <2>1, Invisible
<1>7. ASSUME NEW p \in Client, FinishFrame(p) \/ CrashInAccepted(p) PROVE [D!Next]_(D!vars)
  BY <1>7, FrameTicks
<1> QED
  BY <1>1, <1>2, <1>3, <1>4, <1>5, <1>6, <1>7 DEF Next

(* Whatever is cut, crashes, fails, is repeated or reordered, messages     *)
(* pass from sender to relay to recipient as Delivery says, and a tick its *)
(* author sees advances only where custody justifies it.                   *)
THEOREM RelayImplementsDelivery == Spec => ImplementsDelivery
<1>1. Init => D!Init
  BY DEF Init, D!Init, Holders
<1> QED
  BY <1>1, ConsistentAlways, DeliveryStep, PTL DEF Spec, ImplementsDelivery, D!Spec
=============================================================================
