------------------------- MODULE LanExchangeProofs --------------------------
(* What LanExchange promises of messages, ticks and identities, proved for *)
(* any peers, connections and messages and buffers of any size.            *)
EXTENDS LanExchange, TLAPS, FiniteSetTheorems

In(s) == {s[i] : i \in 1..Len(s)}

(* A command past the search has an open end of a connection.              *)
Outside == {"idle", "search"}

UsesOK ==
  \A p \in Peer :
    /\ at[p] \in Outside => on[p] = None
    /\ at[p] \notin Outside => on[p] \in Conn /\ p \in ends[on[p]]

(* A connection with an open end has a dialling and an accepting peer, and *)
(* frames wait only at open ends.                                          *)
NetOK ==
  \A c \in Conn :
    /\ ends[c] # {} => /\ link[c] \in Peer \X Peer
                       /\ link[c][1] # link[c][2]
                       /\ ends[c] \subseteq {link[c][1], link[c][2]}
    /\ \A p \in Peer : wire[c][p] # <<>> => p \in ends[c]

(* The message an Ack is about is stored; whose Ack was read has two ticks.*)
CurOK ==
  \A p \in Peer :
    /\ at[p] \in {"ack", "settle"} => cur[p] \in Msg
    /\ at[p] = "ack" => cur[p] \in stored
    /\ at[p] = "settle" => tick[cur[p]] = "delivered"

FramesOK ==
  \A c \in Conn, p \in Peer : \A f \in In(wire[c][p]) :
    /\ f.type \in {"msg", "ack"} => f.id \in Msg
    /\ f.type = "ack" => f.id \in stored

RelayOK == \A m \in Msg : relay[m] = "acked" => m \in stored

(* Whoever signs has recognised its contact, and whoever is signed for was *)
(* recognised as one.                                                      *)
Known(p) == Far(p) = Target[p] /\ p \in pinned

HelloOK == \A p \in Peer : at[p] \in {"sign", "auth"} \cup Exchanging => Known(p)

AuthOK ==
  \A c \in Conn, p \in Peer :
    Auth \in In(wire[c][p]) => Other(c, p) \in pinned /\ Target[Other(c, p)] = p

MetOK == \A p \in Peer : at[p] \in Exchanging => Target[p] \in pinned

Identified == HelloOK /\ AuthOK /\ MetOK

Inv ==
  /\ TypeOK /\ UsesOK /\ NetOK /\ CurOK /\ FramesOK /\ RelayOK
  /\ Identified /\ NothingLost /\ TicksAgree

-----------------------------------------------------------------------------
(* Frames and connections.                                                 *)

Wires == [Conn -> [Peer -> Seq(Frame)]]

LEMMA AppendIn ==
  ASSUME NEW s \in Seq(Frame), NEW f \in Frame
  PROVE  Append(s, f) \in Seq(Frame) /\ In(Append(s, f)) \subseteq In(s) \cup {f}
BY DEF In

LEMMA TailIn ==
  ASSUME NEW s \in Seq(Frame), s # <<>>
  PROVE  /\ Tail(s) \in Seq(Frame) /\ In(Tail(s)) \subseteq In(s)
         /\ Head(s) \in Frame /\ Head(s) \in In(s)
<1>1. Tail(s) \in Seq(Frame) /\ Head(s) \in Frame /\ Len(s) \in Nat \ {0} OBVIOUS
<1>2. Head(s) = s[1] OBVIOUS
<1>3. \A i \in 1..Len(Tail(s)) : i + 1 \in 1..Len(s) /\ Tail(s)[i] = s[i + 1] OBVIOUS
<1> QED BY <1>1, <1>2, <1>3 DEF In

LEMMA EmptyIn == In(<<>>) = {} /\ <<>> \in Seq(Frame)
BY DEF In

(* A write to an open end appends a frame, a write to a closed one nothing.*)
LEMMA PutSets ==
  ASSUME NEW w \in Wires, NEW c \in Conn, ends[c] \subseteq Peer, NEW q, NEW f \in Frame,
         wire' = Put(w, c, q, f)
  PROVE  /\ wire' \in Wires
         /\ \A d \in Conn, p \in Peer :
              /\ In(wire'[d][p]) \subseteq In(w[d][p]) \cup {f}
              /\ wire'[d][p] # w[d][p] => d = c /\ p = q /\ q \in ends[d]
<1>1. CASE q \notin ends[c] BY <1>1 DEF Put
<1>2. CASE q \in ends[c]
  <2>1. q \in Peer /\ wire' = [w EXCEPT ![c][q] = Append(@, f)] BY <1>2 DEF Put
  <2>2. Append(w[c][q], f) \in Seq(Frame) /\ In(Append(w[c][q], f)) \subseteq In(w[c][q]) \cup {f}
    BY <2>1, AppendIn DEF Wires
  <2>3. wire' \in Wires BY <2>1, <2>2 DEF Wires
  <2>4. \A d \in Conn, p \in Peer :
           wire'[d][p] = IF d = c /\ p = q THEN Append(w[c][q], f) ELSE w[d][p]
    BY <2>1 DEF Wires
  <2> QED BY <2>2, <2>3, <2>4, <1>2
<1> QED BY <1>1, <1>2

LEMMA WriteSets ==
  ASSUME TypeOK, NEW p \in Peer, on[p] \in Conn, NEW f \in Frame, Write(p, f)
  PROVE  /\ wire' \in Wires
         /\ \A d \in Conn, q \in Peer :
              /\ In(wire'[d][q]) \subseteq In(wire[d][q]) \cup {f}
              /\ wire'[d][q] # wire[d][q] => d = on[p] /\ q = Far(p) /\ q \in ends[d]
<1>1. wire' = Put(wire, on[p], Far(p), f) BY DEF Write
<1>2. wire \in Wires /\ ends[on[p]] \subseteq Peer BY DEF TypeOK, Wires
<1> QED BY <1>1, <1>2, PutSets

LEMMA ReadSets ==
  ASSUME TypeOK, NEW p \in Peer, on[p] \in Conn, Inbox(p) # <<>>, Read(p)
  PROVE  /\ wire' \in Wires
         /\ \A d \in Conn, q \in Peer :
              /\ In(wire'[d][q]) \subseteq In(wire[d][q])
              /\ wire'[d][q] # wire[d][q] => d = on[p] /\ q = p
         /\ Head(Inbox(p)) \in In(wire[on[p]][p]) /\ Head(Inbox(p)) \in Frame
<1>1. wire \in Wires /\ wire[on[p]][p] \in Seq(Frame) BY DEF TypeOK, Wires
<1>2. wire' = [wire EXCEPT ![on[p]][p] = Tail(@)] BY DEF Read
<1>3. /\ Tail(wire[on[p]][p]) \in Seq(Frame) /\ In(Tail(wire[on[p]][p])) \subseteq In(wire[on[p]][p])
      /\ Head(Inbox(p)) \in In(wire[on[p]][p]) /\ Head(Inbox(p)) \in Frame
  BY <1>1, TailIn DEF Inbox
<1> QED BY <1>1, <1>2, <1>3 DEF Wires

(* An end of a command closes all its connections.                         *)
LEMMA CloseSets ==
  ASSUME TypeOK, NEW p \in Peer, Close(p, Conn)
  PROVE  /\ wire' \in Wires /\ ends' \in [Conn -> SUBSET Peer]
         /\ link' \in [Conn -> (Peer \X Peer) \cup {None}]
         /\ \A c \in Conn :
              /\ ends'[c] = ends[c] \ {p}
              /\ ends'[c] # {} => link'[c] = link[c]
              /\ \A q \in Peer :
                   /\ wire'[c][q] \in {wire[c][q], <<>>}
                   /\ q = p \/ ends'[c] = {} => wire'[c][q] = <<>>
<1>1. \A c \in Conn : ends'[c] = ends[c] \ {p} BY DEF Close
<1>2. ends' \in [Conn -> SUBSET Peer] BY DEF Close, TypeOK
<1>3. \A c \in Conn : ends'[c] # {} => link'[c] = link[c] BY DEF Close
<1>4. link' \in [Conn -> (Peer \X Peer) \cup {None}] BY DEF Close, TypeOK
<1>5. PICK cut \in SUBSET Conn :
         wire' = [c \in Conn |->
                   IF ends'[c] = {} THEN [q \in Peer |-> <<>>]
                   ELSE [q \in Peer |-> IF (q = p /\ c \in Conn) \/ c \in cut
                                        THEN <<>> ELSE wire[c][q]]]
  BY DEF Close
<1>6. wire \in Wires BY DEF TypeOK, Wires
<1>7. wire' \in Wires BY <1>5, <1>6, EmptyIn DEF Wires
<1>8. \A c \in Conn, q \in Peer :
        /\ wire'[c][q] \in {wire[c][q], <<>>}
        /\ q = p \/ ends'[c] = {} => wire'[c][q] = <<>>
  BY <1>5
<1> QED BY <1>1, <1>2, <1>3, <1>4, <1>7, <1>8

-----------------------------------------------------------------------------
(* The kinds of steps a command takes, as far as its connection goes.      *)

Writing(p, f) ==
  /\ Write(p, f)
  /\ f = Auth => at[p] = "sign"
  /\ f.type = "ack" => at[p] = "ack" /\ f = AckOf(cur[p])

Going(p) ==
  Go(p, "sign") \/ Go(p, "auth") \/ Go(p, "send") \/ Go(p, "loop") \/ Go(p, "ack") \/ Go(p, "settle")

StepKind(p) ==
  \/ Exit(p)
  \/ /\ UNCHANGED <<on, ends, link>> /\ (Going(p) \/ UNCHANGED at)
     /\ \/ \E f \in Frame : Writing(p, f)
        \/ Inbox(p) # <<>> /\ Read(p)
        \/ UNCHANGED wire

LEMMA StepKinds ==
  ASSUME TypeOK, UsesOK, CurOK, NEW p \in Peer, Step(p)
  PROVE  at[p] \notin Outside /\ on[p] \in Conn /\ p \in ends[on[p]] /\ StepKind(p)
<1>1. at[p] \notin Outside
  BY DEF Step, Outside, Exchanging, ReadHello, WriteAuth, ReadAuth, Eof, Send, SendBye, ReadMsg, WriteAck,
         ReadAck, Settle, ReadBye, GiveUp, WriteFails
<1>2. on[p] \in Conn /\ p \in ends[on[p]] BY <1>1 DEF UsesOK
<1> SUFFICES StepKind(p) BY <1>1, <1>2
<1> USE DEF StepKind, Going, network
<1>3. CASE ReadHello(p) BY <1>3 DEF ReadHello, Hears
<1>4. CASE WriteAuth(p)
  <2>1. Writing(p, Auth) BY <1>4 DEF WriteAuth, Writing, Auth
  <2> QED BY <1>4, <2>1 DEF WriteAuth, Frame
<1>5. CASE ReadAuth(p) BY <1>5 DEF ReadAuth, Hears
<1>6. CASE Send(p)
  <2>1. PICK m \in left[p] : Write(p, MsgOf(m)) BY <1>6 DEF Send
  <2>2. MsgOf(m) \in Frame BY <2>1 DEF TypeOK, Frame
  <2>3. Writing(p, MsgOf(m)) BY <2>1 DEF Writing, MsgOf, Auth
  <2> QED BY <1>6, <2>2, <2>3 DEF Send
<1>7. CASE SendBye(p)
  <2>1. Writing(p, Bye) BY <1>7 DEF SendBye, Writing, Bye, Auth
  <2> QED BY <1>7, <2>1 DEF SendBye, Frame
<1>8. CASE ReadMsg(p) BY <1>8 DEF ReadMsg, Hears
<1>9. CASE WriteAck(p)
  <2>1. AckOf(cur[p]) \in Frame BY <1>9 DEF WriteAck, CurOK, Frame
  <2>2. Writing(p, AckOf(cur[p])) BY <1>9 DEF WriteAck, Writing, AckOf, Auth
  <2> QED BY <1>9, <2>1, <2>2 DEF WriteAck
<1>10. CASE ReadAck(p) BY <1>10 DEF ReadAck, Hears
<1>11. CASE Settle(p) BY <1>11 DEF Settle
<1>12. CASE ReadBye(p) BY <1>12 DEF ReadBye, Hears
<1>13. CASE Eof(p) \/ GiveUp(p) \/ WriteFails(p) BY <1>13 DEF Eof, GiveUp, WriteFails
<1> QED BY <1>1, <1>2, <1>3, <1>4, <1>5, <1>6, <1>7, <1>8, <1>9, <1>10, <1>11, <1>12, <1>13 DEF Step

(* The frames that a kind of step brings, and where.                       *)
LEMMA KindSets ==
  ASSUME TypeOK, NEW p \in Peer, on[p] \in Conn, p \in ends[on[p]], StepKind(p)
  PROVE  /\ wire' \in Wires
         /\ \A d \in Conn, q \in Peer :
              /\ \A f \in In(wire'[d][q]) :
                   \/ f \in In(wire[d][q])
                   \/ d = on[p] /\ q = Far(p) /\ q \in ends[d] /\ Writing(p, f)
              /\ wire'[d][q] # <<>> =>
                   /\ link'[d] = link[d]
                   /\ wire[d][q] # <<>> \/ q \in ends[d]
                   /\ q \in ends[d] => q \in ends'[d]
<1> DEFINE Flow(d, q) ==
      /\ \A f \in In(wire'[d][q]) :
           \/ f \in In(wire[d][q])
           \/ d = on[p] /\ q = Far(p) /\ q \in ends[d] /\ Writing(p, f)
      /\ wire'[d][q] # <<>> =>
           /\ link'[d] = link[d]
           /\ wire[d][q] # <<>> \/ q \in ends[d]
           /\ q \in ends[d] => q \in ends'[d]
<1>0. wire \in Wires BY DEF TypeOK, Wires
<1>1. ASSUME Exit(p), NEW d \in Conn, NEW q \in Peer PROVE wire' \in Wires /\ Flow(d, q)
  <2>1. Close(p, Conn) BY <1>1 DEF Exit
  <2>2. /\ wire' \in Wires /\ ends'[d] = ends[d] \ {p}
        /\ ends'[d] # {} => link'[d] = link[d]
        /\ wire'[d][q] \in {wire[d][q], <<>>}
        /\ q = p \/ ends'[d] = {} => wire'[d][q] = <<>>
    BY <2>1, CloseSets
  <2>3. CASE wire'[d][q] = <<>> BY <2>2, <2>3, EmptyIn
  <2>4. CASE wire'[d][q] # <<>> BY <2>2, <2>4
  <2> QED BY <2>3, <2>4
<1>2. ASSUME NEW f \in Frame, Writing(p, f), UNCHANGED <<ends, link>>, NEW d \in Conn, NEW q \in Peer
      PROVE  wire' \in Wires /\ Flow(d, q)
  <2>1. Write(p, f) BY <1>2 DEF Writing
  <2>2. /\ wire' \in Wires /\ In(wire'[d][q]) \subseteq In(wire[d][q]) \cup {f}
        /\ wire'[d][q] # wire[d][q] => d = on[p] /\ q = Far(p) /\ q \in ends[d]
    BY <2>1, WriteSets
  <2>3. CASE wire'[d][q] = wire[d][q] BY <1>2, <2>2, <2>3
  <2>4. CASE wire'[d][q] # wire[d][q] BY <1>2, <2>2, <2>4
  <2> QED BY <2>3, <2>4
<1>3. ASSUME Inbox(p) # <<>>, Read(p), UNCHANGED <<ends, link>>, NEW d \in Conn, NEW q \in Peer
      PROVE  wire' \in Wires /\ Flow(d, q)
  <2>1. /\ wire' \in Wires /\ In(wire'[d][q]) \subseteq In(wire[d][q])
        /\ wire'[d][q] # wire[d][q] => d = on[p] /\ q = p
    BY <1>3, ReadSets
  <2>2. CASE wire'[d][q] = wire[d][q] BY <1>3, <2>1, <2>2
  <2>3. CASE wire'[d][q] # wire[d][q] BY <1>3, <2>1, <2>3
  <2> QED BY <2>2, <2>3
<1>4. ASSUME UNCHANGED <<wire, ends, link>>, NEW d \in Conn, NEW q \in Peer
      PROVE  wire' \in Wires /\ Flow(d, q)
  BY <1>0, <1>4
<1>5. ASSUME NEW d \in Conn, NEW q \in Peer PROVE wire' \in Wires /\ Flow(d, q)
  BY <1>1, <1>2, <1>3, <1>4 DEF StepKind
<1>6. Conn # {} /\ Peer # {} OBVIOUS
<1> QED BY <1>5, <1>6

(* Where the frames of a connection come from, and that it stays the same  *)
(* as long as there are any.                                               *)
Flows(d, q) ==
  /\ \A f \in In(wire'[d][q]) :
       \/ f \in In(wire[d][q]) \/ f = Hello
       \/ \E p \in Peer : at[p] \notin Outside /\ d = on[p] /\ q = Far(p) /\ q \in ends[d] /\ Writing(p, f)
  /\ wire'[d][q] # <<>> => link'[d] = link[d] /\ q \in ends[d] /\ q \in ends'[d]

NetFlow == wire' \in Wires /\ \A d \in Conn, q \in Peer : Flows(d, q)

LEMMA KindNet ==
  ASSUME TypeOK, NetOK, NEW p \in Peer, at[p] \notin Outside, on[p] \in Conn, p \in ends[on[p]], StepKind(p)
  PROVE  NetFlow /\ NetOK'
<1>1. wire' \in Wires /\ \A d \in Conn, q \in Peer : Flows(d, q)
  BY KindSets DEF Flows, NetOK
<1>2. \A d \in Conn : ends'[d] = ends[d] \/ ends'[d] = ends[d] \ {p}
  <2>1. CASE Exit(p) BY <2>1, CloseSets DEF Exit
  <2> QED BY <2>1 DEF StepKind
<1>3. \A d \in Conn : ends'[d] # {} => link'[d] = link[d]
  <2>1. CASE Exit(p) BY <2>1, CloseSets DEF Exit
  <2> QED BY <2>1 DEF StepKind
<1> QED BY <1>1, <1>2, <1>3 DEF NetFlow, NetOK, Flows

LEMMA DialNet == ASSUME TypeOK, NetOK, NEW p \in Peer, Dial(p) PROVE NetFlow /\ NetOK'
<1>1. PICK c \in Conn : /\ link[c] = None /\ link' = [link EXCEPT ![c] = <<p, Target[p]>>]
                        /\ ends' = [ends EXCEPT ![c] = {p, Target[p]}] /\ wire' = wire
  BY DEF Dial
<1>2. Target[p] \in Peer /\ Target[p] # p BY TargetAssumption
<1>3. ends[c] = {} BY <1>1, NoneAssumption DEF NetOK
<1>4. \A q \in Peer : wire[c][q] = <<>> BY <1>3 DEF NetOK
<1>5. ends'[c] = {p, Target[p]} /\ link'[c] = <<p, Target[p]>> BY <1>1 DEF TypeOK
<1>6. \A d \in Conn \ {c} : ends'[d] = ends[d] /\ link'[d] = link[d] BY <1>1 DEF TypeOK
<1>7. NetOK'
  <2>1. ASSUME NEW d \in Conn \ {c} PROVE
          /\ ends'[d] # {} => /\ link'[d] \in Peer \X Peer
                              /\ link'[d][1] # link'[d][2]
                              /\ ends'[d] \subseteq {link'[d][1], link'[d][2]}
          /\ \A q \in Peer : wire'[d][q] # <<>> => q \in ends'[d]
    BY <1>1, <1>6 DEF NetOK
  <2>2. /\ link'[c] \in Peer \X Peer
        /\ link'[c][1] # link'[c][2]
        /\ ends'[c] \subseteq {link'[c][1], link'[c][2]}
        /\ \A q \in Peer : wire'[c][q] = <<>>
    BY <1>1, <1>2, <1>4, <1>5
  <2> QED BY <2>1, <2>2 DEF NetOK
<1>8. wire' \in Wires BY <1>1 DEF TypeOK, Wires
<1>9. ASSUME NEW d \in Conn, NEW q \in Peer PROVE Flows(d, q)
  <2>1. wire'[d][q] = wire[d][q] BY <1>1
  <2>2. wire[d][q] # <<>> => d # c /\ q \in ends[d] BY <1>4 DEF NetOK
  <2> QED BY <1>6, <2>1, <2>2 DEF Flows
<1> QED BY <1>7, <1>8, <1>9 DEF NetFlow

LEMMA TakeNet == ASSUME TypeOK, NetOK, NEW p \in Peer, TakeOutbound(p) PROVE NetFlow /\ NetOK'
<1>1. PICK c \in Conn : wire' = Put(wire, c, Other(c, p), Hello) /\ ends' = ends /\ link' = link
  BY DEF TakeOutbound, Dialled
<1>2. Hello \in Frame /\ wire \in Wires /\ ends[c] \subseteq Peer BY DEF Frame, TypeOK, Wires
<1>3. /\ wire' \in Wires
      /\ \A d \in Conn, q \in Peer :
           /\ In(wire'[d][q]) \subseteq In(wire[d][q]) \cup {Hello}
           /\ wire'[d][q] # wire[d][q] => q \in ends[d]
  BY <1>1, <1>2, PutSets
<1>4. \A d \in Conn, q \in Peer : wire'[d][q] # <<>> => q \in ends'[d]
  BY <1>1, <1>3 DEF NetOK
<1>5. NetOK' BY <1>1, <1>4 DEF NetOK
<1>6. \A d \in Conn, q \in Peer : Flows(d, q) BY <1>1, <1>3, <1>4 DEF Flows
<1> QED BY <1>3, <1>5, <1>6 DEF NetFlow

LEMMA AcceptNet ==
  ASSUME TypeOK, NetOK, NEW p \in Peer, Accept(p)
  PROVE  /\ NetFlow /\ NetOK' /\ ends' \in [Conn -> SUBSET Peer]
         /\ link' \in [Conn -> (Peer \X Peer) \cup {None}]
         /\ on' = [on EXCEPT ![p] = on'[p]] /\ on'[p] \in Conn /\ p \in ends'[on'[p]]
         /\ \A d \in Conn : ends[d] \ {p} \subseteq ends'[d] /\ ends'[d] \subseteq ends[d]
         /\ \A d \in Conn : ends'[d] # {} => link'[d] = link[d]
<1> DEFINE W(c) == [d \in Conn |-> IF d \in Dialled(p) /\ ends'[d] = {}
                                   THEN [q \in Peer |-> <<>>]
                                   ELSE [wire[d] EXCEPT ![p] = IF d = c THEN @ ELSE <<>>]]
<1>1. PICK c \in Conn :
        /\ p \in ends[c] /\ link[c][2] = p /\ Greet(p, c)
        /\ ends' = [d \in Conn |-> IF d \in Dialled(p) THEN ends[d] \ {p} ELSE ends[d]]
        /\ link' = [d \in Conn |-> IF ends'[d] = {} THEN None ELSE link[d]]
        /\ wire' = Put(W(c), c, Other(c, p), Hello)
  BY DEF Accept
<1>2. c \notin Dialled(p) BY <1>1 DEF NetOK, Dialled
<1>3. /\ ends'[c] = ends[c]
      /\ \A d \in Conn : /\ ends[d] \ {p} \subseteq ends'[d] /\ ends'[d] \subseteq ends[d]
                         /\ ends'[d] # {} => link'[d] = link[d]
  BY <1>1, <1>2
<1>4. ends' \in [Conn -> SUBSET Peer] /\ link' \in [Conn -> (Peer \X Peer) \cup {None}]
  BY <1>1 DEF TypeOK
<1>5. wire \in Wires BY DEF TypeOK, Wires
<1>6. /\ W(c) \in Wires
      /\ \A d \in Conn, q \in Peer :
           /\ W(c)[d][q] \in {wire[d][q], <<>>}
           /\ W(c)[d][q] # <<>> => (q # p \/ d = c) /\ (d \in Dialled(p) => ends'[d] # {})
  BY <1>5, EmptyIn DEF Wires
<1>7. Hello \in Frame /\ ends[c] \subseteq Peer BY DEF Frame, TypeOK
<1> HIDE DEF W
<1>8. /\ wire' \in Wires
      /\ \A d \in Conn, q \in Peer :
           /\ In(wire'[d][q]) \subseteq In(W(c)[d][q]) \cup {Hello}
           /\ wire'[d][q] # W(c)[d][q] => d = c /\ q \in ends[d]
  BY <1>1, <1>6, <1>7, PutSets
<1>9. ASSUME NEW d \in Conn, NEW q \in Peer
      PROVE  /\ In(wire'[d][q]) \subseteq In(wire[d][q]) \cup {Hello}
             /\ wire'[d][q] # <<>> => q \in ends[d] /\ q \in ends'[d]
  <2>1. In(W(c)[d][q]) \subseteq In(wire[d][q]) BY <1>6, EmptyIn
  <2>2. CASE wire'[d][q] # W(c)[d][q] BY <1>3, <1>8, <2>1, <2>2
  <2>3. CASE wire'[d][q] = W(c)[d][q]
    <3>1. wire'[d][q] # <<>> => wire[d][q] # <<>> /\ (q # p \/ d = c) BY <1>6, <2>3
    <3> QED BY <1>3, <1>8, <2>1, <3>1 DEF NetOK
  <2> QED BY <2>2, <2>3
<1>10. \A d \in Conn, q \in Peer : Flows(d, q) BY <1>3, <1>9 DEF Flows
<1>11. NetOK' BY <1>3, <1>9 DEF NetOK
<1>12. on' = [on EXCEPT ![p] = c] BY <1>1 DEF Greet
<1>13. on'[p] = c BY <1>12 DEF TypeOK
<1> QED BY <1>1, <1>3, <1>4, <1>8, <1>10, <1>11, <1>12, <1>13 DEF NetFlow

LEMMA NoNet == ASSUME TypeOK, NetOK, UNCHANGED network PROVE NetFlow /\ NetOK'
BY DEF TypeOK, Wires, network, NetFlow, NetOK, Flows

LEMMA QuitKind ==
  ASSUME TypeOK, UsesOK, NetOK, NEW p \in Peer, Quit(p)
  PROVE  NetFlow /\ NetOK'
<1>1. Close(p, Conn) BY DEF Quit, Exit
<1>2. /\ wire' \in Wires
      /\ \A d \in Conn : /\ ends'[d] = ends[d] \ {p}
                         /\ ends'[d] # {} => link'[d] = link[d]
  BY <1>1, CloseSets
<1>3. ASSUME NEW d \in Conn, NEW q \in Peer
      PROVE  /\ wire'[d][q] \in {wire[d][q], <<>>}
             /\ wire'[d][q] # <<>> => q \in ends[d] /\ q # p
  BY <1>1, CloseSets DEF NetOK
<1>4. \A d \in Conn, q \in Peer : Flows(d, q) BY <1>2, <1>3, EmptyIn DEF Flows
<1>5. NetOK' BY <1>2, <1>3 DEF NetOK
<1> QED BY <1>2, <1>4, <1>5 DEF NetFlow

LEMMA NetStep == TypeOK /\ UsesOK /\ NetOK /\ CurOK /\ [Next]_vars => NetFlow /\ NetOK'
<1> SUFFICES ASSUME TypeOK, UsesOK, NetOK, CurOK, [Next]_vars PROVE NetFlow /\ NetOK'
  OBVIOUS
<1>1. ASSUME NEW m \in Msg, Compose(m) \/ SyncSend(m) \/ SyncReceive(m) PROVE NetFlow /\ NetOK'
  <2>1. UNCHANGED network BY <1>1 DEF Compose, SyncSend, SyncReceive
  <2> QED BY <2>1, NoNet
<1>2. ASSUME NEW p \in Peer, Start(p) PROVE NetFlow /\ NetOK'
  <2>1. UNCHANGED network BY <1>2 DEF Start
  <2> QED BY <2>1, NoNet
<1>3. ASSUME NEW p \in Peer, Dial(p) \/ TakeOutbound(p) \/ Accept(p) PROVE NetFlow /\ NetOK'
  BY <1>3, DialNet, TakeNet, AcceptNet
<1>4. ASSUME NEW p \in Peer, Step(p) PROVE NetFlow /\ NetOK'
  BY <1>4, StepKinds, KindNet
<1>5. ASSUME NEW p \in Peer, Quit(p) PROVE NetFlow /\ NetOK'
  BY <1>5, QuitKind
<1>6. CASE UNCHANGED vars
  BY <1>6, NoNet DEF vars, network
<1> QED BY <1>1, <1>2, <1>3, <1>4, <1>5, <1>6 DEF Next

-----------------------------------------------------------------------------
(* Types, and the use of connections.                                      *)

Stages == {"idle", "search", "hello", "sign", "auth"} \cup Exchanging

LEMMA GoTypes ==
  ASSUME TypeOK, NEW p \in Peer, NEW l \in Stages, Go(p, l)
  PROVE  at' \in [Peer -> Stages]
BY DEF TypeOK, Go, Stages

LEMMA ExitTypes ==
  ASSUME TypeOK, NEW p \in Peer, Exit(p)
  PROVE  /\ at' \in [Peer -> Stages] /\ on' \in [Peer -> Conn \cup {None}]
         /\ left' \in [Peer -> SUBSET Msg] /\ need' \in [Peer -> Nat] /\ acked' \in [Peer -> Nat]
         /\ bye' \in [Peer -> BOOLEAN] /\ cur' \in [Peer -> Msg \cup {None}]
         /\ ends' \in [Conn -> SUBSET Peer] /\ link' \in [Conn -> (Peer \X Peer) \cup {None}]
         /\ wire' \in Wires
<1>1. at' \in [Peer -> Stages] BY GoTypes DEF Exit, Stages
<1>2. Close(p, Conn) BY DEF Exit
<1>3. /\ on' \in [Peer -> Conn \cup {None}]
      /\ left' \in [Peer -> SUBSET Msg] /\ need' \in [Peer -> Nat] /\ acked' \in [Peer -> Nat]
      /\ bye' \in [Peer -> BOOLEAN] /\ cur' \in [Peer -> Msg \cup {None}]
  BY DEF Exit, TypeOK
<1> QED BY <1>1, <1>2, <1>3, CloseSets

(* The part of the types that the network is not.                          *)
LocalOK ==
  /\ pinned \subseteq Peer
  /\ outbox \subseteq Msg /\ stored \subseteq Msg
  /\ relay \in [Msg -> {None, "pending", "acked"}]
  /\ tick \in [Msg -> {None, "queued", "sent", "delivered"}]
  /\ at \in [Peer -> Stages]
  /\ on \in [Peer -> Conn \cup {None}]
  /\ left \in [Peer -> SUBSET Msg]
  /\ need \in [Peer -> Nat] /\ acked \in [Peer -> Nat]
  /\ bye \in [Peer -> BOOLEAN]
  /\ cur \in [Peer -> Msg \cup {None}]
  /\ ends \in [Conn -> SUBSET Peer]
  /\ link \in [Conn -> (Peer \X Peer) \cup {None}]
  /\ starts \in [Peer -> Nat] /\ quits \in Nat

LEMMA LocalTypes == TypeOK <=> LocalOK /\ wire \in Wires
BY DEF TypeOK, LocalOK, Wires, Stages

LEMMA OutgoingTypes ==
  ASSUME TypeOK, NEW p \in Peer
  PROVE  Outgoing(p) \subseteq Msg /\ Cardinality(Outgoing(p)) \in Nat
<1>1. Outgoing(p) \subseteq Msg BY DEF Outgoing, TypeOK
<1>2. IsFiniteSet(Outgoing(p)) BY <1>1, MsgAssumption, FS_Subset
<1> QED BY <1>1, <1>2, FS_CardinalityType

LEMMA TypeStep == TypeOK /\ UsesOK /\ NetOK /\ CurOK /\ [Next]_vars => TypeOK'
<1> SUFFICES ASSUME TypeOK, UsesOK, NetOK, CurOK, [Next]_vars PROVE TypeOK'
  OBVIOUS
<1>w. wire' \in Wires BY NetStep DEF NetFlow
<1> SUFFICES LocalOK' BY <1>w DEF TypeOK, LocalOK, Wires, Stages
<1>0. LocalOK BY LocalTypes
<1>h. ASSUME NEW p \in Peer, Step(p), Inbox(p) # <<>>
      PROVE  Head(Inbox(p)) \in Frame
  <2>1. on[p] \in Conn BY <1>h, StepKinds
  <2>2. Inbox(p) \in Seq(Frame) BY <2>1 DEF TypeOK, Inbox
  <2> QED BY <1>h, <2>2, TailIn
<1>i. ASSUME NEW f \in Frame, f.type \in {"msg", "ack"} PROVE f.id \in Msg
  <2>1. f \notin {Hello, Auth, Bye} BY <1>i DEF Hello, Auth, Bye
  <2>2. \E m \in Msg : f = MsgOf(m) \/ f = AckOf(m) BY <2>1 DEF Frame
  <2> QED BY <2>2 DEF MsgOf, AckOf
<1> USE DEF messages, command, network, bounds
<1>1. ASSUME NEW m \in Msg, Compose(m) \/ SyncSend(m) \/ SyncReceive(m) PROVE LocalOK'
  BY <1>0, <1>1 DEF LocalOK, Compose, SyncSend, SyncReceive, Raise
<1>2. ASSUME NEW p \in Peer, Start(p) PROVE LocalOK'
  <2>1. at' \in [Peer -> Stages] BY <1>2, GoTypes DEF Start, Stages
  <2>2. starts' \in [Peer -> Nat] BY <1>0, <1>2 DEF LocalOK, Start
  <2>3. UNCHANGED <<pinned, messages, on, command, network, quits>> BY <1>2 DEF Start
  <2> QED BY <1>0, <2>1, <2>2, <2>3 DEF LocalOK
<1>3. ASSUME NEW p \in Peer, Dial(p) PROVE LocalOK'
  BY <1>0, <1>3, TargetAssumption DEF LocalOK, Dial
<1>4. ASSUME NEW p \in Peer, TakeOutbound(p) PROVE LocalOK'
  <2>1. at' \in [Peer -> Stages] BY <1>4, GoTypes DEF TakeOutbound, Greet, Stages
  <2>2. PICK c \in Conn : Greet(p, c) BY <1>4 DEF TakeOutbound, Dialled
  <2>3. on' \in [Peer -> Conn \cup {None}] BY <1>0, <2>2 DEF LocalOK, Greet
  <2> QED BY <1>0, <1>4, <2>1, <2>2, <2>3 DEF LocalOK, TakeOutbound, Greet
<1>5. ASSUME NEW p \in Peer, Accept(p) PROVE LocalOK'
  <2>1. at' \in [Peer -> Stages] BY <1>5, GoTypes DEF Accept, Greet, Stages
  <2>2. ends' \in [Conn -> SUBSET Peer] /\ link' \in [Conn -> (Peer \X Peer) \cup {None}]
    BY <1>5, AcceptNet
  <2>3. PICK c \in Conn : Greet(p, c) BY <1>5 DEF Accept
  <2>4. on' \in [Peer -> Conn \cup {None}] BY <1>0, <2>3 DEF LocalOK, Greet
  <2> QED BY <1>0, <2>1, <2>2, <2>3, <2>4 DEF LocalOK, Greet
<1>6. ASSUME NEW p \in Peer, ReadHello(p) PROVE LocalOK'
  <2>1. CASE Exit(p) BY <1>0, <1>6, <2>1, ExitTypes DEF LocalOK, ReadHello
  <2>2. CASE ~Exit(p)
    <3>1. at' \in [Peer -> Stages] BY <1>6, <2>2, GoTypes DEF ReadHello, Stages
    <3> QED BY <1>0, <1>6, <2>2, <3>1 DEF LocalOK, ReadHello
  <2> QED BY <2>1, <2>2
<1>7. ASSUME NEW p \in Peer, WriteAuth(p) \/ SendBye(p) PROVE LocalOK'
  <2>1. at' \in [Peer -> Stages] BY <1>7, GoTypes DEF WriteAuth, SendBye, Stages, Exchanging
  <2> QED BY <1>0, <1>7, <2>1 DEF LocalOK, WriteAuth, SendBye
<1>8. ASSUME NEW p \in Peer, ReadAuth(p) PROVE LocalOK'
  <2>1. at' \in [Peer -> Stages] BY <1>8, GoTypes DEF ReadAuth, Stages, Exchanging
  <2> QED BY <1>0, <1>8, <2>1, OutgoingTypes DEF LocalOK, ReadAuth
<1>9. ASSUME NEW p \in Peer, Send(p) PROVE LocalOK'
  BY <1>0, <1>9 DEF LocalOK, Send
<1>10. ASSUME NEW p \in Peer, Step(p), ReadMsg(p) PROVE LocalOK'
  <2>1. Head(Inbox(p)).id \in Msg BY <1>10, <1>h, <1>i DEF ReadMsg, Hears
  <2>2. at' \in [Peer -> Stages] BY <1>0, <1>10, GoTypes DEF ReadMsg, Stages, Exchanging, LocalOK
  <2> QED BY <1>0, <1>10, <2>1, <2>2 DEF LocalOK, ReadMsg
<1>11. ASSUME NEW p \in Peer, WriteAck(p) PROVE LocalOK'
  <2>1. at' \in [Peer -> Stages] BY <1>11, GoTypes DEF WriteAck, Stages, Exchanging
  <2> QED BY <1>0, <1>11, <2>1 DEF LocalOK, WriteAck
<1>12. ASSUME NEW p \in Peer, Step(p), ReadAck(p) PROVE LocalOK'
  <2>1. Head(Inbox(p)).id \in Msg BY <1>12, <1>h, <1>i DEF ReadAck, Hears
  <2>2. at' \in [Peer -> Stages] BY <1>12, GoTypes DEF ReadAck, Stages, Exchanging
  <2> QED BY <1>0, <1>12, <2>1, <2>2 DEF LocalOK, ReadAck, Raise
<1>13. ASSUME NEW p \in Peer, Settle(p) PROVE LocalOK'
  <2>1. CASE Exit(p) BY <1>0, <1>13, <2>1, ExitTypes DEF LocalOK, Settle
  <2>2. CASE ~Exit(p)
    <3>1. at' \in [Peer -> Stages] BY <1>13, <2>2, GoTypes DEF Settle, Stages, Exchanging
    <3> QED BY <1>0, <1>13, <2>2, <3>1 DEF LocalOK, Settle
  <2> QED BY <2>1, <2>2
<1>14. ASSUME NEW p \in Peer, ReadBye(p) PROVE LocalOK'
  <2>1. CASE Exit(p) BY <1>0, <1>14, <2>1, ExitTypes DEF LocalOK, ReadBye
  <2>2. CASE ~Exit(p) BY <1>0, <1>14, <2>2 DEF LocalOK, ReadBye
  <2> QED BY <2>1, <2>2
<1>15. ASSUME NEW p \in Peer, Eof(p) \/ GiveUp(p) \/ WriteFails(p) PROVE LocalOK'
  BY <1>0, <1>15, ExitTypes DEF LocalOK, Eof, GiveUp, WriteFails
<1>16. ASSUME NEW p \in Peer, Quit(p) PROVE LocalOK'
  BY <1>0, <1>16, ExitTypes DEF LocalOK, Quit
<1>17. CASE UNCHANGED vars
  BY <1>0, <1>17 DEF LocalOK, vars
<1> QED BY <1>1, <1>2, <1>3, <1>4, <1>5, <1>6, <1>7, <1>8, <1>9, <1>10, <1>11, <1>12, <1>13,
           <1>14, <1>15, <1>16, <1>17 DEF Next, Step

LEMMA UsesStep == TypeOK /\ UsesOK /\ NetOK /\ CurOK /\ [Next]_vars => UsesOK'
<1> SUFFICES ASSUME TypeOK, UsesOK, NetOK, CurOK, [Next]_vars PROVE UsesOK'
  OBVIOUS
<1> USE DEF network
<1>0. on \in [Peer -> Conn \cup {None}] /\ at \in [Peer -> Stages] BY LocalTypes DEF LocalOK
<1>1. ASSUME NEW m \in Msg, Compose(m) \/ SyncSend(m) \/ SyncReceive(m) PROVE UsesOK'
  BY <1>1 DEF UsesOK, Compose, SyncSend, SyncReceive
<1>2. ASSUME NEW p \in Peer, Start(p) PROVE UsesOK'
  BY <1>0, <1>2 DEF UsesOK, Start, Go, Outside
<1>3. ASSUME NEW p \in Peer, Dial(p) PROVE UsesOK'
  <2>1. PICK c \in Conn : link[c] = None /\ ends' = [ends EXCEPT ![c] = {p, Target[p]}]
    BY <1>3 DEF Dial
  <2>2. ends[c] = {} BY <2>1, NoneAssumption DEF NetOK
  <2>3. \A d \in Conn : ends[d] \subseteq ends'[d] BY <2>1, <2>2 DEF TypeOK
  <2> QED BY <1>3, <2>3 DEF UsesOK, Dial
<1>4. ASSUME NEW p \in Peer, TakeOutbound(p) PROVE UsesOK'
  <2>1. PICK c \in Conn : p \in ends[c] /\ Greet(p, c) /\ ends' = ends
    BY <1>4 DEF TakeOutbound, Dialled
  <2>2. on' = [on EXCEPT ![p] = c] /\ at' = [at EXCEPT ![p] = "hello"] BY <2>1 DEF Greet, Go
  <2> QED BY <1>0, <2>1, <2>2 DEF UsesOK, Outside
<1>5. ASSUME NEW p \in Peer, Accept(p) PROVE UsesOK'
  <2>1. /\ on' = [on EXCEPT ![p] = on'[p]] /\ on'[p] \in Conn /\ p \in ends'[on'[p]]
        /\ \A d \in Conn : ends[d] \ {p} \subseteq ends'[d]
    BY <1>5, AcceptNet
  <2>2. at' = [at EXCEPT ![p] = "hello"] BY <1>5 DEF Accept, Greet, Go
  <2>3. ASSUME NEW q \in Peer \ {p} PROVE at'[q] = at[q] /\ on'[q] = on[q]
    BY <1>0, <2>1, <2>2
  <2>4. at'[p] = "hello" BY <1>0, <2>2
  <2> QED BY <2>1, <2>3, <2>4 DEF UsesOK, Outside
<1>6. ASSUME NEW p \in Peer, Exit(p) PROVE UsesOK'
  <2>1. Close(p, Conn) /\ on' = [on EXCEPT ![p] = None] /\ at' = [at EXCEPT ![p] = "idle"]
    BY <1>6 DEF Exit, Go
  <2>2. \A d \in Conn : ends'[d] = ends[d] \ {p} BY <2>1, CloseSets
  <2> QED BY <1>0, <2>1, <2>2 DEF UsesOK, Outside
<1>7. ASSUME NEW p \in Peer, Step(p) PROVE UsesOK'
  <2>1. at[p] \notin Outside /\ on[p] \in Conn /\ p \in ends[on[p]] /\ StepKind(p)
    BY <1>7, StepKinds
  <2>2. CASE UNCHANGED <<on, ends, link>> /\ (Going(p) \/ UNCHANGED at)
    <3>1. \A q \in Peer \ {p} : at'[q] = at[q] BY <1>0, <2>2 DEF Going, Go
    <3>2. at'[p] \notin Outside BY <1>0, <2>1, <2>2 DEF Going, Go, Outside
    <3> QED BY <2>1, <2>2, <3>1, <3>2 DEF UsesOK
  <2> QED BY <1>6, <2>1, <2>2 DEF StepKind
<1>8. ASSUME NEW p \in Peer, Quit(p) PROVE UsesOK'
  BY <1>6, <1>8 DEF Quit
<1>9. CASE UNCHANGED vars
  BY <1>9 DEF vars, UsesOK
<1> QED BY <1>1, <1>2, <1>3, <1>4, <1>5, <1>7, <1>8, <1>9 DEF Next

-----------------------------------------------------------------------------
(* Whom a peer exchanges with.                                             *)

LEMMA NothingElse ==
  /\ Hello # Auth /\ \A m : MsgOf(m) # Auth /\ AckOf(m) # Auth /\ Bye # Auth
  /\ \A f \in Frame : f.type = "auth" => f = Auth
  /\ Hello.type # "ack" /\ Hello.type = "hello"
BY DEF Hello, Auth, Bye, MsgOf, AckOf, Frame

(* A peer that stays on its connection keeps its other side.               *)
LEMMA StayKnown ==
  ASSUME TypeOK, NEW p \in Peer, Known(p), on'[p] = on[p], link'[on[p]] = link[on[p]], pinned' = pinned
  PROVE  Known(p)'
BY DEF Known, Far, Other

(* pinned stands, and a connection that is used stays the same one.        *)
LEMMA LinksStay ==
  ASSUME TypeOK, UsesOK, NetOK, CurOK, [Next]_vars
  PROVE  /\ pinned' = pinned
         /\ \A p \in Peer : at[p] \notin Outside /\ at'[p] \notin Outside =>
              on'[p] = on[p] /\ link'[on[p]] = link[on[p]]
         /\ \A p \in Peer : at'[p] \in {"sign", "auth"} \cup Exchanging => at[p] \notin Outside
<1> DEFINE Stay ==
      /\ pinned' = pinned
      /\ \A p \in Peer : at[p] \notin Outside /\ at'[p] \notin Outside =>
           on'[p] = on[p] /\ link'[on[p]] = link[on[p]]
      /\ \A p \in Peer : at'[p] \in {"sign", "auth"} \cup Exchanging => at[p] \notin Outside
<1> USE DEF network, Exchanging, Outside
<1>0. on \in [Peer -> Conn \cup {None}] /\ at \in [Peer -> Stages] BY LocalTypes DEF LocalOK
<1>1. ASSUME NEW m \in Msg, Compose(m) \/ SyncSend(m) \/ SyncReceive(m) PROVE Stay
  BY <1>1 DEF Compose, SyncSend, SyncReceive
<1>2. ASSUME NEW p \in Peer, Start(p) PROVE Stay
  BY <1>0, <1>2 DEF Start, Go
<1>3. ASSUME NEW p \in Peer, Dial(p) PROVE Stay
  <2>1. PICK c \in Conn : /\ link[c] = None /\ link' = [link EXCEPT ![c] = <<p, Target[p]>>]
                          /\ UNCHANGED <<pinned, at, on>>
    BY <1>3 DEF Dial
  <2>2. ends[c] = {} BY <2>1, NoneAssumption DEF NetOK
  <2>3. \A q \in Peer : at[q] \notin Outside => on[q] # c BY <2>2 DEF UsesOK
  <2>4. \A d \in Conn \ {c} : link'[d] = link[d] BY <2>1 DEF TypeOK
  <2>5. \A q \in Peer : at[q] \notin Outside => on[q] \in Conn \ {c} BY <2>3 DEF UsesOK
  <2> QED BY <2>1, <2>4, <2>5
<1>4. ASSUME NEW p \in Peer, TakeOutbound(p) PROVE Stay
  <2>1. /\ at[p] = "search" /\ at' = [at EXCEPT ![p] = "hello"] /\ link' = link
        /\ \E c : on' = [on EXCEPT ![p] = c]
        /\ pinned' = pinned
    BY <1>4 DEF TakeOutbound, Greet, Go
  <2> QED BY <1>0, <2>1
<1>5. ASSUME NEW p \in Peer, Accept(p) PROVE Stay
  <2>1. /\ at[p] = "search" /\ at' = [at EXCEPT ![p] = "hello"] /\ pinned' = pinned
        /\ \E c : on' = [on EXCEPT ![p] = c]
    BY <1>5 DEF Accept, Greet, Go
  <2>2. \A d \in Conn : /\ ends[d] \ {p} \subseteq ends'[d]
                        /\ ends'[d] # {} => link'[d] = link[d]
    BY <1>5, AcceptNet
  <2>3. \A q \in Peer \ {p} : at[q] \notin Outside => on[q] \in Conn /\ link'[on[q]] = link[on[q]]
    BY <2>2 DEF UsesOK
  <2> QED BY <1>0, <2>1, <2>3
<1>6. ASSUME NEW p \in Peer, at[p] \notin Outside, Exit(p), pinned' = pinned PROVE Stay
  <2>1. Close(p, Conn) /\ on' = [on EXCEPT ![p] = None] /\ at' = [at EXCEPT ![p] = "idle"]
    BY <1>6 DEF Exit, Go
  <2>2. \A d \in Conn : /\ ends'[d] = ends[d] \ {p}
                        /\ ends'[d] # {} => link'[d] = link[d]
    BY <2>1, CloseSets
  <2>3. \A q \in Peer \ {p} : at[q] \notin Outside => on[q] \in Conn /\ link'[on[q]] = link[on[q]]
    BY <2>2 DEF UsesOK
  <2> QED BY <1>0, <1>6, <2>1, <2>3
<1>7. ASSUME NEW p \in Peer, Step(p) PROVE Stay
  <2>1. at[p] \notin Outside /\ StepKind(p) BY <1>7, StepKinds
  <2>2. pinned' = pinned
    BY <1>7 DEF Step, ReadHello, WriteAuth, ReadAuth, Eof, Send, SendBye, ReadMsg, WriteAck,
                ReadAck, Settle, ReadBye, GiveUp, WriteFails
  <2>3. CASE UNCHANGED <<on, ends, link>> /\ (Going(p) \/ UNCHANGED at)
    <3>1. \A q \in Peer \ {p} : at'[q] = at[q] BY <1>0, <2>3 DEF Going, Go
    <3> QED BY <2>1, <2>2, <2>3, <3>1
  <2> QED BY <1>6, <2>1, <2>2, <2>3 DEF StepKind
<1>8. ASSUME NEW p \in Peer, Quit(p) PROVE Stay
  <2>1. CASE at[p] \notin Outside BY <1>6, <1>8, <2>1 DEF Quit
  <2>2. CASE at[p] \in Outside
    <3>1. Close(p, Conn) /\ on' = [on EXCEPT ![p] = None] /\ at' = [at EXCEPT ![p] = "idle"]
          /\ pinned' = pinned
      BY <1>8 DEF Quit, Exit, Go
    <3>2. \A d \in Conn : /\ ends'[d] = ends[d] \ {p}
                          /\ ends'[d] # {} => link'[d] = link[d]
      BY <3>1, CloseSets
    <3>3. \A q \in Peer \ {p} : at[q] \notin Outside => on[q] \in Conn /\ link'[on[q]] = link[on[q]]
      BY <3>2 DEF UsesOK
    <3> QED BY <1>0, <2>2, <3>1, <3>3
  <2> QED BY <2>1, <2>2
<1>9. CASE UNCHANGED vars BY <1>9 DEF vars
<1> QED BY <1>1, <1>2, <1>3, <1>4, <1>5, <1>7, <1>8, <1>9 DEF Next

(* How a peer comes to sign, and to exchange.                              *)
LEMMA Moves ==
  ASSUME TypeOK, [Next]_vars, NEW p \in Peer
  PROVE  \/ at'[p] = at[p] \/ at'[p] \in {"idle", "search", "hello"}
         \/ at[p] = "hello" /\ at'[p] = "sign" /\ Known(p)
         \/ at[p] = "sign" /\ at'[p] = "auth"
         \/ at[p] = "auth" /\ Hears(p, "auth")
         \/ at[p] \in Exchanging
<1> DEFINE Move(q) ==
      \/ at'[q] = at[q] \/ at'[q] \in {"idle", "search", "hello"}
      \/ at[q] = "hello" /\ at'[q] = "sign" /\ Known(q)
      \/ at[q] = "sign" /\ at'[q] = "auth"
      \/ at[q] = "auth" /\ Hears(q, "auth")
      \/ at[q] \in Exchanging
<1>0. at \in [Peer -> Stages] BY LocalTypes DEF LocalOK
<1> USE <1>0 DEF Exchanging
<1>1. ASSUME NEW m \in Msg, Compose(m) \/ SyncSend(m) \/ SyncReceive(m) PROVE Move(p)
  BY <1>1 DEF Compose, SyncSend, SyncReceive
<1>2. ASSUME NEW q \in Peer, Start(q) \/ Dial(q) PROVE Move(p)
  BY <1>2 DEF Start, Dial, Go
<1>3. ASSUME NEW q \in Peer, TakeOutbound(q) \/ Accept(q) PROVE Move(p)
  <2>1. at' = [at EXCEPT ![q] = "hello"] BY <1>3 DEF TakeOutbound, Accept, Greet, Go
  <2> QED BY <2>1
<1>4. ASSUME NEW q \in Peer, Exit(q) PROVE Move(p)
  BY <1>4 DEF Exit, Go
<1>5. ASSUME NEW q \in Peer, ReadHello(q) PROVE Move(p)
  BY <1>4, <1>5 DEF ReadHello, Go, Known
<1>6. ASSUME NEW q \in Peer, WriteAuth(q) \/ ReadAuth(q) PROVE Move(p)
  BY <1>6 DEF WriteAuth, ReadAuth, Go
<1>7. ASSUME NEW q \in Peer, Send(q) \/ SendBye(q) \/ ReadMsg(q) \/ WriteAck(q) \/ ReadAck(q) PROVE Move(p)
  BY <1>7 DEF Send, SendBye, ReadMsg, WriteAck, ReadAck, Go
<1>8. ASSUME NEW q \in Peer, Settle(q) \/ ReadBye(q) PROVE Move(p)
  BY <1>4, <1>8 DEF Settle, ReadBye, Go
<1>9. ASSUME NEW q \in Peer, Eof(q) \/ GiveUp(q) \/ WriteFails(q) \/ Quit(q) PROVE Move(p)
  BY <1>4, <1>9 DEF Eof, GiveUp, WriteFails, Quit
<1>10. CASE UNCHANGED vars BY <1>10 DEF vars
<1> QED BY <1>1, <1>2, <1>3, <1>5, <1>6, <1>7, <1>8, <1>9, <1>10 DEF Next, Step

LEMMA IdentifiedStep ==
  TypeOK /\ UsesOK /\ NetOK /\ CurOK /\ Identified /\ [Next]_vars => Identified'
<1> SUFFICES ASSUME TypeOK, UsesOK, NetOK, CurOK, Identified, [Next]_vars PROVE Identified'
  OBVIOUS
<1>0. pinned' = pinned BY LinksStay
<1>1. ASSUME NEW p \in Peer, at'[p] \in {"sign", "auth"} \cup Exchanging PROVE Known(p)'
  <2>1. at[p] \notin Outside /\ at'[p] \notin Outside BY <1>1, LinksStay DEF Outside, Exchanging
  <2>2. on'[p] = on[p] /\ link'[on[p]] = link[on[p]] BY <2>1, LinksStay
  <2>3. Known(p) BY <1>1, Moves DEF Identified, HelloOK, Exchanging
  <2> QED BY <1>0, <2>2, <2>3, StayKnown
<1>2. ASSUME NEW p \in Peer, at'[p] \in Exchanging PROVE Target[p] \in pinned
  <2>1. CASE at[p] \in Exchanging BY <2>1 DEF Identified, MetOK
  <2>2. CASE at[p] = "auth" /\ Hears(p, "auth")
    <3>1. on[p] \in Conn BY <2>2 DEF UsesOK, Outside
    <3>2. Inbox(p) \in Seq(Frame) /\ Inbox(p) # <<>> BY <2>2, <3>1 DEF TypeOK, Inbox, Hears
    <3>3. Auth \in In(wire[on[p]][p]) BY <2>2, <3>2, TailIn, NothingElse DEF Hears, Inbox
    <3>4. Other(on[p], p) \in pinned BY <3>1, <3>3 DEF Identified, AuthOK
    <3>5. Known(p) BY <2>2 DEF Identified, HelloOK
    <3> QED BY <3>4, <3>5 DEF Known, Far
  <2> QED BY <1>2, <2>1, <2>2, Moves DEF Exchanging
<1>3. ASSUME NEW c \in Conn, NEW q \in Peer, Auth \in In(wire'[c][q])
      PROVE  Other(c, q)' \in pinned /\ Target[Other(c, q)'] = q
  <2>1. Flows(c, q) BY NetStep DEF NetFlow
  <2>2. wire'[c][q] # <<>> BY <1>3, EmptyIn
  <2>3. link'[c] = link[c] BY <2>1, <2>2 DEF Flows
  <2>4. Other(c, q)' = Other(c, q) BY <2>3 DEF Other
  <2>5. CASE Auth \in In(wire[c][q]) BY <2>4, <2>5 DEF Identified, AuthOK
  <2>6. CASE Auth \notin In(wire[c][q])
    <3>1. PICK p \in Peer : at[p] \notin Outside /\ c = on[p] /\ q = Far(p) /\ q \in ends[c] /\ Writing(p, Auth)
      BY <1>3, <2>1, <2>6, NothingElse DEF Flows
    <3>2. Known(p) BY <3>1 DEF Writing, Identified, HelloOK
    <3>3. p \in ends[c] BY <3>1 DEF UsesOK
    <3>4. link[c] \in Peer \X Peer /\ link[c][1] # link[c][2] /\ ends[c] \subseteq {link[c][1], link[c][2]}
      BY <3>3 DEF NetOK
    <3>5. Other(c, q) = p BY <3>1, <3>3, <3>4 DEF Other, Far
    <3> QED BY <2>4, <3>1, <3>2, <3>5 DEF Known
  <2> QED BY <2>5, <2>6
<1>4. HelloOK' BY <1>1 DEF HelloOK
<1>5. AuthOK' BY <1>0, <1>3 DEF AuthOK
<1>6. MetOK' BY <1>0, <1>2 DEF MetOK
<1> QED BY <1>4, <1>5, <1>6 DEF Identified

-----------------------------------------------------------------------------
(* The messages.                                                           *)

Ledger == RelayOK /\ NothingLost /\ TicksAgree

(* What is stored stays so, and two ticks stay.                            *)
Monotone ==
  /\ stored \subseteq stored'
  /\ \A m \in Msg : tick[m] = "delivered" => tick'[m] = "delivered"

HeadOK(p) ==
  Inbox(p) # <<>> =>
    /\ Head(Inbox(p)).type \in {"msg", "ack"} => Head(Inbox(p)).id \in Msg
    /\ Head(Inbox(p)).type = "ack" => Head(Inbox(p)).id \in stored

LEMMA HeadsOK ==
  ASSUME TypeOK, UsesOK, FramesOK, NEW p \in Peer, at[p] \notin Outside PROVE HeadOK(p)
<1>1. on[p] \in Conn BY DEF UsesOK
<1>2. Inbox(p) \in Seq(Frame) BY <1>1 DEF TypeOK, Inbox
<1> QED BY <1>1, <1>2, TailIn DEF FramesOK, HeadOK, Inbox

LEMMA LedgerStep ==
  ASSUME TypeOK, UsesOK, CurOK, FramesOK, Ledger, [Next]_vars
  PROVE  Monotone /\ Ledger'
<1> USE NoneAssumption DEF messages, Ledger, RelayOK, NothingLost, TicksAgree, Monotone
<1>0. /\ tick \in [Msg -> {None, "queued", "sent", "delivered"}]
      /\ relay \in [Msg -> {None, "pending", "acked"}]
      /\ outbox \subseteq Msg /\ stored \subseteq Msg
  BY DEF TypeOK
<1>1. ASSUME NEW m \in Msg, Compose(m) PROVE Monotone /\ Ledger'
  BY <1>0, <1>1 DEF Compose
<1>2. ASSUME NEW m \in Msg, SyncSend(m) PROVE Monotone /\ Ledger'
  BY <1>0, <1>2 DEF SyncSend, Raise
<1>3. ASSUME NEW m \in Msg, SyncReceive(m) PROVE Monotone /\ Ledger'
  BY <1>0, <1>3 DEF SyncReceive
<1>4. CASE UNCHANGED messages BY <1>4
<1>5. ASSUME NEW p \in Peer, ReadMsg(p) PROVE Monotone /\ Ledger'
  BY <1>0, <1>5 DEF ReadMsg
<1>6. ASSUME NEW p \in Peer, ReadAck(p) PROVE Monotone /\ Ledger'
  <2>1. Head(Inbox(p)).id \in Msg /\ Head(Inbox(p)).id \in stored
    BY <1>6, HeadsOK DEF ReadAck, Hears, HeadOK, Outside
  <2> QED BY <1>0, <1>6, <2>1 DEF ReadAck, Raise
<1>7. ASSUME NEW p \in Peer, Settle(p) PROVE Monotone /\ Ledger'
  <2>1. cur[p] \in Msg /\ tick[cur[p]] = "delivered" BY <1>7 DEF Settle, CurOK
  <2> QED BY <1>0, <1>7, <2>1 DEF Settle
<1>8. ASSUME NEW p \in Peer, Start(p) \/ Dial(p) \/ TakeOutbound(p) \/ Accept(p) \/ Quit(p)
      PROVE  UNCHANGED messages
  BY <1>8 DEF Start, Dial, TakeOutbound, Accept, Greet, Quit
<1>9. ASSUME NEW p \in Peer, ReadHello(p) \/ WriteAuth(p) \/ ReadAuth(p) \/ Eof(p) \/ Send(p) \/ SendBye(p)
      PROVE  UNCHANGED messages
  BY <1>9 DEF ReadHello, WriteAuth, ReadAuth, Eof, Send, SendBye
<1>10. ASSUME NEW p \in Peer, WriteAck(p) \/ ReadBye(p) \/ GiveUp(p) \/ WriteFails(p)
       PROVE  UNCHANGED messages
  BY <1>10 DEF WriteAck, ReadBye, GiveUp, WriteFails
<1>11. CASE UNCHANGED vars BY <1>4, <1>11 DEF vars
<1> QED BY <1>1, <1>2, <1>3, <1>4, <1>5, <1>6, <1>7, <1>8, <1>9, <1>10, <1>11 DEF Next, Step

LEMMA FramesStep ==
  TypeOK /\ UsesOK /\ NetOK /\ CurOK /\ FramesOK /\ Ledger /\ [Next]_vars => FramesOK'
<1> SUFFICES ASSUME TypeOK, UsesOK, NetOK, CurOK, FramesOK, Ledger, [Next]_vars,
                    NEW c \in Conn, NEW q \in Peer, NEW f \in In(wire'[c][q])
             PROVE  /\ f.type \in {"msg", "ack"} => f.id \in Msg
                    /\ f.type = "ack" => f.id \in stored'
  BY DEF FramesOK
<1>1. Flows(c, q) /\ wire' \in Wires BY NetStep DEF NetFlow
<1>2. stored \subseteq stored' BY LedgerStep DEF Monotone
<1>3. f \in Frame
  <2>1. wire'[c][q] \in Seq(Frame) BY <1>1 DEF Wires
  <2> QED BY <2>1 DEF In
<1>4. f.type \in {"msg", "ack"} => f.id \in Msg
  <2>1. CASE f \in {Hello, Auth, Bye} BY <2>1 DEF Hello, Auth, Bye
  <2>2. CASE \E m \in Msg : f = MsgOf(m) \/ f = AckOf(m) BY <2>2 DEF MsgOf, AckOf
  <2> QED BY <1>3, <2>1, <2>2 DEF Frame
<1>5. ASSUME f.type = "ack" PROVE f.id \in stored'
  <2>1. CASE f \in In(wire[c][q]) BY <1>2, <1>5, <2>1 DEF FramesOK
  <2>2. ASSUME NEW p \in Peer, Writing(p, f) PROVE f.id \in stored'
    BY <1>2, <1>5, <2>2 DEF Writing, AckOf, CurOK
  <2> QED BY <1>1, <1>5, <2>1, <2>2, NothingElse DEF Flows
<1> QED BY <1>4, <1>5

LEMMA CurStep == TypeOK /\ UsesOK /\ CurOK /\ FramesOK /\ Ledger /\ [Next]_vars => CurOK'
<1> SUFFICES ASSUME TypeOK, UsesOK, CurOK, FramesOK, Ledger, [Next]_vars PROVE CurOK'
  OBVIOUS
<1>0. at \in [Peer -> Stages] /\ cur \in [Peer -> Msg \cup {None}] BY LocalTypes DEF LocalOK
<1>m. Monotone BY LedgerStep
<1> DEFINE Cur(p) == /\ at'[p] \in {"ack", "settle"} => cur'[p] \in Msg
                     /\ at'[p] = "ack" => cur'[p] \in stored'
                     /\ at'[p] = "settle" => tick'[cur'[p]] = "delivered"
<1>1. ASSUME NEW p \in Peer, at'[p] = at[p], cur'[p] = cur[p] PROVE Cur(p)
  BY <1>1, <1>m DEF CurOK, Monotone
<1>2. ASSUME NEW p \in Peer, at'[p] \notin {"ack", "settle"} PROVE Cur(p)
  BY <1>2
<1> SUFFICES ASSUME NEW p \in Peer PROVE Cur(p)
  BY DEF CurOK
<1> USE DEF command
<1>3. ASSUME NEW m \in Msg, Compose(m) \/ SyncSend(m) \/ SyncReceive(m) PROVE Cur(p)
  BY <1>1, <1>3 DEF Compose, SyncSend, SyncReceive
<1>4. ASSUME NEW q \in Peer, Start(q) \/ Dial(q) \/ TakeOutbound(q) \/ Accept(q) PROVE Cur(p)
  <2>1. /\ cur' = cur
        /\ at' = at \/ at' = [at EXCEPT ![q] = "search"] \/ at' = [at EXCEPT ![q] = "hello"]
    BY <1>4 DEF Start, Dial, TakeOutbound, Accept, Greet, Go
  <2> QED BY <1>0, <1>1, <1>2, <2>1
<1>5. ASSUME NEW q \in Peer, Exit(q) PROVE Cur(p)
  <2>1. at' = [at EXCEPT ![q] = "idle"] /\ cur' = [cur EXCEPT ![q] = None]
    BY <1>5 DEF Exit, Go
  <2> QED BY <1>0, <1>1, <1>2, <2>1
<1>6. ASSUME NEW q \in Peer, ReadHello(q) PROVE Cur(p)
  <2>1. CASE Exit(q) BY <1>5, <2>1
  <2>2. CASE ~Exit(q)
    <3>1. at' = [at EXCEPT ![q] = "sign"] /\ cur' = cur BY <1>6, <2>2 DEF ReadHello, Go
    <3> QED BY <1>0, <1>1, <1>2, <3>1
  <2> QED BY <2>1, <2>2
<1>7. ASSUME NEW q \in Peer, WriteAuth(q) \/ ReadAuth(q) \/ Send(q) \/ SendBye(q) PROVE Cur(p)
  <2>1. /\ cur' = cur
        /\ \/ at' = at \/ at' = [at EXCEPT ![q] = "auth"] \/ at' = [at EXCEPT ![q] = "send"]
           \/ at' = [at EXCEPT ![q] = "loop"]
    BY <1>7 DEF WriteAuth, ReadAuth, Send, SendBye, Go
  <2> QED BY <1>0, <1>1, <1>2, <2>1
<1>8. ASSUME NEW q \in Peer, ReadMsg(q) PROVE Cur(p)
  <2>1. Head(Inbox(q)).id \in Msg
    BY <1>8, HeadsOK DEF ReadMsg, Hears, HeadOK, Outside
  <2>2. CASE UNCHANGED <<cur, at>> BY <1>1, <2>2
  <2>3. CASE /\ stored' = stored \cup {Head(Inbox(q)).id}
             /\ cur' = [cur EXCEPT ![q] = Head(Inbox(q)).id] /\ at' = [at EXCEPT ![q] = "ack"]
    <3>1. CASE p = q BY <1>0, <2>1, <2>3, <3>1
    <3>2. CASE p # q BY <1>0, <1>1, <2>3, <3>2
    <3> QED BY <3>1, <3>2
  <2> QED BY <1>8, <2>2, <2>3 DEF ReadMsg, Go
<1>9. ASSUME NEW q \in Peer, WriteAck(q) PROVE Cur(p)
  <2>1. at' = [at EXCEPT ![q] = "loop"] /\ cur' = [cur EXCEPT ![q] = None]
    BY <1>9 DEF WriteAck, Go
  <2> QED BY <1>0, <1>1, <1>2, <2>1
<1>10. ASSUME NEW q \in Peer, ReadAck(q) PROVE Cur(p)
  <2>1. Head(Inbox(q)).id \in Msg
    BY <1>10, HeadsOK DEF ReadAck, Hears, HeadOK, Outside
  <2>2. /\ cur' = [cur EXCEPT ![q] = Head(Inbox(q)).id] /\ at' = [at EXCEPT ![q] = "settle"]
        /\ Raise(Head(Inbox(q)).id, "delivered")
    BY <1>10 DEF ReadAck, Go
  <2>3. tick'[Head(Inbox(q)).id] = "delivered" BY <2>1, <2>2 DEF Raise, TypeOK
  <2>4. CASE p = q BY <1>0, <2>1, <2>2, <2>3, <2>4
  <2>5. CASE p # q BY <1>0, <1>1, <2>2, <2>5
  <2> QED BY <2>4, <2>5
<1>11. ASSUME NEW q \in Peer, Settle(q) PROVE Cur(p)
  <2>1. CASE Exit(q) BY <1>5, <2>1
  <2>2. CASE ~Exit(q)
    <3>1. at' = [at EXCEPT ![q] = "loop"] /\ cur' = [cur EXCEPT ![q] = None]
      BY <1>11, <2>2 DEF Settle, Go
    <3> QED BY <1>0, <1>1, <1>2, <3>1
  <2> QED BY <2>1, <2>2
<1>12. ASSUME NEW q \in Peer, ReadBye(q) PROVE Cur(p)
  <2>1. CASE Exit(q) BY <1>5, <2>1
  <2>2. CASE ~Exit(q) BY <1>1, <1>12, <2>2 DEF ReadBye
  <2> QED BY <2>1, <2>2
<1>13. ASSUME NEW q \in Peer, Eof(q) \/ GiveUp(q) \/ WriteFails(q) \/ Quit(q) PROVE Cur(p)
  BY <1>5, <1>13 DEF Eof, GiveUp, WriteFails, Quit
<1>14. CASE UNCHANGED vars BY <1>1, <1>14 DEF vars
<1> QED BY <1>3, <1>4, <1>6, <1>7, <1>8, <1>9, <1>10, <1>11, <1>12, <1>13, <1>14 DEF Next, Step

-----------------------------------------------------------------------------
(* The inductive invariant and what follows from it.                       *)

LEMMA InvInit == Init => Inv
<1> SUFFICES ASSUME Init PROVE Inv
  OBVIOUS
<1> USE NoneAssumption DEF Init
<1>1. LocalOK
  <2>1. pinned \subseteq Peer OBVIOUS
  <2>2. at \in [Peer -> Stages] /\ on \in [Peer -> Conn \cup {None}] BY DEF Stages
  <2>3. relay \in [Msg -> {None, "pending", "acked"}] OBVIOUS
  <2>4. tick \in [Msg -> {None, "queued", "sent", "delivered"}] OBVIOUS
  <2>5. left \in [Peer -> SUBSET Msg] /\ need \in [Peer -> Nat] /\ acked \in [Peer -> Nat] OBVIOUS
  <2>6. bye \in [Peer -> BOOLEAN] /\ cur \in [Peer -> Msg \cup {None}] OBVIOUS
  <2>7. ends \in [Conn -> SUBSET Peer] /\ link \in [Conn -> (Peer \X Peer) \cup {None}] OBVIOUS
  <2>8. starts \in [Peer -> Nat] /\ quits \in Nat /\ outbox = {} /\ stored = {} OBVIOUS
  <2> QED BY ONLY <2>1, <2>2, <2>3, <2>4, <2>5, <2>6, <2>7, <2>8 DEF LocalOK
<1>2. wire \in Wires /\ \A c \in Conn, p \in Peer : wire[c][p] = <<>> BY EmptyIn DEF Wires
<1>3. UsesOK /\ CurOK BY DEF UsesOK, CurOK, Outside
<1>4. NetOK /\ FramesOK BY <1>2, EmptyIn DEF NetOK, FramesOK
<1>5. Identified BY <1>2, EmptyIn DEF Identified, HelloOK, AuthOK, MetOK, Exchanging
<1>6. RelayOK /\ NothingLost /\ TicksAgree BY DEF RelayOK, NothingLost, TicksAgree
<1> QED BY <1>1, <1>2, <1>3, <1>4, <1>5, <1>6, LocalTypes DEF Inv

LEMMA InvStep == Inv /\ [Next]_vars => Inv'
<1> SUFFICES ASSUME Inv, [Next]_vars PROVE Inv'
  OBVIOUS
<1>1. TypeOK /\ UsesOK /\ NetOK /\ CurOK /\ FramesOK /\ Identified /\ Ledger BY DEF Inv, Ledger
<1>2. TypeOK' /\ UsesOK' /\ NetOK' BY <1>1, TypeStep, UsesStep, NetStep
<1>3. CurOK' /\ FramesOK' BY <1>1, CurStep, FramesStep
<1>4. Identified' BY <1>1, IdentifiedStep
<1>5. Ledger' BY <1>1, LedgerStep
<1> QED BY <1>2, <1>3, <1>4, <1>5 DEF Inv, Ledger

(* The invariant of the LAN exchange (lan.rs).                             *)
THEOREM InvAlways == Spec => []Inv
BY InvInit, InvStep, PTL DEF Spec

(* Every variable keeps its type.                                          *)
THEOREM TypesCorrect == Spec => []TypeOK
<1>1. Inv => TypeOK BY DEF Inv
<1> QED BY <1>1, InvAlways, PTL

(* exchange and the relay's path lose no message, wherever either side is  *)
(* interrupted.                                                            *)
THEOREM NothingIsLost == Spec => []NothingLost
<1>1. Inv => NothingLost BY DEF Inv
<1> QED BY <1>1, InvAlways, PTL

(* set_state before outbox_remove, and the Ack after the insert: ticks     *)
(* agree with both histories.                                              *)
THEOREM TicksAlwaysAgree == Spec => []TicksAgree
<1>1. Inv => TicksAgree BY DEF Inv
<1> QED BY <1>1, InvAlways, PTL

(* handshake lets nobody exchange with anybody but the contact it asked    *)
(* for, and only when both recognised the pinned keys.                     *)
THEOREM ExchangesArePinned == Spec => []OnlyPinnedContacts
<1>1. Inv => OnlyPinnedContacts
  <2> SUFFICES ASSUME Inv, NEW p \in Peer, at[p] \in Exchanging
               PROVE  /\ {p, Target[p]} \subseteq pinned
                      /\ link[on[p]] \in {<<p, Target[p]>>, <<Target[p], p>>}
    BY DEF OnlyPinnedContacts
  <2>1. Known(p) /\ Target[p] \in pinned BY DEF Inv, Identified, HelloOK, MetOK
  <2>2. on[p] \in Conn /\ p \in ends[on[p]] BY DEF Inv, UsesOK, Outside, Exchanging
  <2>3. link[on[p]] \in Peer \X Peer /\ ends[on[p]] \subseteq {link[on[p]][1], link[on[p]][2]}
    BY <2>2 DEF Inv, NetOK
  <2>4. Target[p] = IF link[on[p]][1] = p THEN link[on[p]][2] ELSE link[on[p]][1]
    BY <2>1 DEF Known, Far, Other
  <2>5. PICK a \in Peer, b \in Peer : link[on[p]] = <<a, b>> BY <2>3
  <2>6. p \in {a, b} BY <2>2, <2>3, <2>5
  <2>7. link[on[p]] \in {<<p, Target[p]>>, <<Target[p], p>>} BY <2>4, <2>5, <2>6
  <2>8. {p, Target[p]} \subseteq pinned BY <2>1 DEF Known
  <2> QED BY <2>7, <2>8
<1> QED BY <1>1, InvAlways, PTL
=============================================================================
