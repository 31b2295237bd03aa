-------------------------- MODULE ChatScreenProofs --------------------------
(* What ChatScreen promises, proved for any chats, any order of the list,  *)
(* any size of the window of history and any number of messages.           *)
EXTENDS ChatScreen, FiniteSetTheorems, SequenceTheorems, TLAPS

(***************************************************************************)
(* The parts of the inductive invariant.                                   *)
(***************************************************************************)

Message == [id : 1..MaxMsgs, quote : 1..MaxMsgs \cup {None}]
Entry == [id : Chat, unread : BOOLEAN]
Request == [chat : Chat, wrote : BOOLEAN]

(* What TypeOK says of the entries, with the sequences they are in.        *)
Shape ==
  /\ log \in [Chat -> Seq(Message)]
  /\ chats \in Seq(Entry)
  /\ ~up => chats = <<>>
  /\ asked \in [Twice -> Request \cup {None}]

Types == TypeOK /\ Shape

(* Identities are given out in order, each to a message of one chat.       *)
IdsAreGiven ==
  /\ \A c \in Chat : \A i \in DOMAIN log[c] :
       /\ log[c][i].id < next
       /\ log[c][i].quote # None => log[c][i].quote < next
  /\ reply # None => reply < next
  /\ \A c, d \in Chat : \A i \in DOMAIN log[c], j \in DOMAIN log[d] :
       log[c][i].id = log[d][j].id => c = d

Quotes == IdsAreGiven /\ QuoteStaysInChat

(* A command that is armed was asked for, and nothing was written since.   *)
ArmedIsAsked == \A t \in armed : asked[t] # None /\ ~asked[t].wrote

Inv ==
  /\ Types /\ ScreenShowsOpenChat /\ ListedAreKnown
  /\ Quotes /\ UnreadIsMarked /\ ArmedIsAsked

-----------------------------------------------------------------------------
(***************************************************************************)
(* The list of chats.  Rank counts the members of k up to a place, so it   *)
(* grows with the place and reaches every number up to the size of k.      *)
(***************************************************************************)

LEMMA Places ==
  ASSUME NEW c \in Chat
  PROVE  Place(c) \in DOMAIN Order /\ Place(c) \in Nat /\ Order[Place(c)] = c
BY OrderAssumption DEF Place

LEMMA ChatsAreFinite == IsFiniteSet(Chat)
<1>1. Order \in [1..Len(Order) -> Chat] /\ Len(Order) \in Nat
  BY OrderAssumption
<1>2. Order \in Surjection(1..Len(Order), Chat)
  BY <1>1, OrderAssumption DEF Surjection
<1> QED BY <1>1, <1>2, FS_Surjection, FS_Interval

LEMMA RankGrows ==
  ASSUME NEW k \in SUBSET Chat, NEW c \in k, NEW d \in k, Place(c) < Place(d)
  PROVE  Rank(c, k) < Rank(d, k)
<1> DEFINE UpTo(e) == {x \in k : Place(x) <= Place(e)}
<1>1. IsFiniteSet(UpTo(d))
  BY ChatsAreFinite, FS_Subset
<1>2. UpTo(c) \subseteq UpTo(d)
  BY Places
<1>3. d \in UpTo(d) /\ d \notin UpTo(c)
  BY Places
<1>4. UpTo(c) \in SUBSET UpTo(d) /\ UpTo(c) # UpTo(d)
  BY <1>2, <1>3
<1>5. Cardinality(UpTo(c)) <= Cardinality(UpTo(d)) /\ Cardinality(UpTo(c)) # Cardinality(UpTo(d))
  BY <1>1, <1>4, FS_Subset
<1>6. IsFiniteSet(UpTo(c))
  BY <1>1, <1>4, FS_Subset
<1>7. Cardinality(UpTo(c)) \in Nat /\ Cardinality(UpTo(d)) \in Nat
  BY <1>1, <1>6, FS_CardinalityType
<1>8. Rank(c, k) = Cardinality(UpTo(c)) /\ Rank(d, k) = Cardinality(UpTo(d))
  BY DEF Rank
<1> HIDE DEF UpTo
<1> QED BY <1>5, <1>7, <1>8

LEMMA RankRange ==
  ASSUME NEW k \in SUBSET Chat, NEW c \in k
  PROVE  IsFiniteSet(k) /\ Cardinality(k) \in Nat /\ Rank(c, k) \in 1..Cardinality(k)
<1> DEFINE UpTo == {x \in k : Place(x) <= Place(c)}
<1>1. IsFiniteSet(k) /\ Cardinality(k) \in Nat
  BY ChatsAreFinite, FS_Subset, FS_CardinalityType
<1>2. UpTo \in SUBSET k /\ c \in UpTo
  BY Places
<1>3. IsFiniteSet(UpTo) /\ Cardinality(UpTo) <= Cardinality(k)
  BY <1>1, <1>2, FS_Subset
<1>4. Cardinality(UpTo) \in Nat
  BY <1>3, FS_CardinalityType
<1>5. Cardinality(UpTo) # 0
  BY <1>2, <1>3, FS_EmptySet
<1>6. Rank(c, k) = Cardinality(UpTo)
  BY DEF Rank
<1> HIDE DEF UpTo
<1> QED BY <1>1, <1>3, <1>4, <1>5, <1>6

LEMMA RanksDiffer ==
  ASSUME NEW k \in SUBSET Chat, NEW c \in k, NEW d \in k, Rank(c, k) = Rank(d, k)
  PROVE  c = d
<1>1. Rank(c, k) \in 1..Cardinality(k) /\ Rank(d, k) \in 1..Cardinality(k)
  BY RankRange, Zenon
<1>2. ~(Place(c) < Place(d)) /\ ~(Place(d) < Place(c))
  BY <1>1, RankGrows
<1>3. Place(c) = Place(d)
  BY <1>2, Places
<1> QED BY <1>3, Places

(* Every number up to the size of k is the rank of a member of k.          *)
LEMMA Nths ==
  ASSUME NEW k \in SUBSET Chat
  PROVE  /\ IsFiniteSet(k) /\ Cardinality(k) \in Nat
         /\ \A i \in 1..Cardinality(k) : Nth(k, i) \in k
         /\ \A c \in k : Rank(c, k) \in 1..Cardinality(k) /\ Nth(k, Rank(c, k)) = c
<1>1. IsFiniteSet(k) /\ Cardinality(k) \in Nat
  BY ChatsAreFinite, FS_Subset, FS_CardinalityType
<1>2. PICK r : r = [c \in k |-> Rank(c, k)]
  OBVIOUS
<1>3. r \in [k -> 1..Cardinality(k)]
  BY <1>2, RankRange
<1>4. r \in Injection(k, 1..Cardinality(k))
  BY <1>2, <1>3, RanksDiffer DEF Injection, IsInjective
<1>5. IsFiniteSet(1..Cardinality(k)) /\ Cardinality(1..Cardinality(k)) = Cardinality(k)
  BY <1>1, FS_Interval
<1>6. r \in Surjection(k, 1..Cardinality(k))
  BY <1>4, <1>5, FS_Injection
<1>7. \A i \in 1..Cardinality(k) : \E c \in k : Rank(c, k) = i
  BY <1>2, <1>6 DEF Surjection
<1>8. \A i \in 1..Cardinality(k) : Nth(k, i) \in k
  BY <1>7 DEF Nth
<1>9. ASSUME NEW c \in k PROVE Rank(c, k) \in 1..Cardinality(k) /\ Nth(k, Rank(c, k)) = c
  <2>1. Nth(k, Rank(c, k)) \in k /\ Rank(Nth(k, Rank(c, k)), k) = Rank(c, k)
    BY DEF Nth
  <2> QED BY <2>1, RankRange, RanksDiffer
<1> QED BY <1>1, <1>8, <1>9

LEMMA TruthValue ==
  ASSUME NEW x, NEW u
  PROVE  \E b \in BOOLEAN : b = (x \in u)
<1>1. (x \in u) \in BOOLEAN
  BY SMT
<1> QED BY <1>1, Zenon

LEMMA Entries ==
  ASSUME NEW c \in Chat, NEW b \in BOOLEAN
  PROVE  /\ [id |-> c, unread |-> b] \in Entry
         /\ [id |-> c, unread |-> b].id = c /\ [id |-> c, unread |-> b].unread = b
BY DEF Entry

(* The list has an entry for each chat of k, and marks those of u.         *)
LEMMA Loads ==
  ASSUME NEW k \in SUBSET Chat, NEW u
  PROVE  LET list == LoadChats(k, u)
         IN  /\ list \in Seq(Entry)
             /\ \A i \in DOMAIN list : list[i].id \in k /\ list[i].unread = (list[i].id \in u)
             /\ \A c \in k : \E i \in DOMAIN list : list[i].id = c
<1> DEFINE list == LoadChats(k, u)
<1>1. Cardinality(k) \in Nat /\ \A i \in 1..Cardinality(k) : Nth(k, i) \in k
  BY Nths
<1>2. DOMAIN list = 1..Cardinality(k)
  BY DEF LoadChats
<1>3. \A i \in 1..Cardinality(k) : list[i] = [id |-> Nth(k, i), unread |-> Nth(k, i) \in u]
  BY DEF LoadChats
<1>4. \A i \in 1..Cardinality(k) : list[i] \in Entry
  <2> SUFFICES ASSUME NEW i \in 1..Cardinality(k) PROVE list[i] \in Entry
    OBVIOUS
  <2>1. Nth(k, i) \in Chat
    BY <1>1
  <2>2. PICK b \in BOOLEAN : b = (Nth(k, i) \in u)
    BY TruthValue, Zenon
  <2>3. list[i] = [id |-> Nth(k, i), unread |-> b]
    BY <1>3, <2>2, Zenon
  <2> QED BY <2>1, <2>3, Entries
<1>5. list \in [1..Cardinality(k) -> Entry]
  BY <1>4 DEF LoadChats
<1>6. list \in Seq(Entry)
  BY <1>1, <1>5
<1>7. \A i \in DOMAIN list : list[i].id \in k /\ list[i].unread = (list[i].id \in u)
  <2> SUFFICES ASSUME NEW i \in 1..Cardinality(k)
               PROVE  list[i].id \in k /\ list[i].unread = (list[i].id \in u)
    BY <1>2, Zenon
  <2>1. Nth(k, i) \in k /\ Nth(k, i) \in Chat
    BY <1>1
  <2>2. PICK b \in BOOLEAN : b = (Nth(k, i) \in u)
    BY TruthValue, Zenon
  <2>3. list[i] = [id |-> Nth(k, i), unread |-> b]
    BY <1>3, <2>2, Zenon
  <2>4. list[i].id = Nth(k, i) /\ list[i].unread = b
    BY <2>1, <2>3, Entries
  <2> QED BY <2>1, <2>2, <2>4, Zenon
<1>8. ASSUME NEW c \in k PROVE \E i \in DOMAIN list : list[i].id = c
  <2>1. Rank(c, k) \in DOMAIN list /\ Nth(k, Rank(c, k)) = c
    BY <1>2, Nths
  <2>2. list[Rank(c, k)].id = c
    BY <1>2, <1>3, <2>1
  <2> QED BY <2>1, <2>2
<1> QED BY <1>6, <1>7, <1>8

(* A badge changes no chat of the list and no other badge.                 *)
LEMMA Badges ==
  ASSUME NEW list \in Seq(Entry), NEW c, NEW on \in BOOLEAN
  PROVE  /\ Badge(list, c, on) \in Seq(Entry)
         /\ DOMAIN Badge(list, c, on) = DOMAIN list /\ Len(Badge(list, c, on)) = Len(list)
         /\ \A i \in DOMAIN list :
              /\ Badge(list, c, on)[i].id = list[i].id
              /\ Badge(list, c, on)[i].unread = IF list[i].id = c THEN on ELSE list[i].unread
<1>1. \A i \in DOMAIN list : list[i] \in Entry
  OBVIOUS
<1>2. \A i \in DOMAIN list :
        Badge(list, c, on)[i] = [id |-> list[i].id, unread |-> IF list[i].id = c THEN on ELSE list[i].unread]
  BY <1>1 DEF Badge, Entry
<1>3. DOMAIN Badge(list, c, on) = DOMAIN list
  BY DEF Badge
<1>4. \A i \in DOMAIN list : Badge(list, c, on)[i] \in Entry
  <2> SUFFICES ASSUME NEW i \in DOMAIN list PROVE Badge(list, c, on)[i] \in Entry
    OBVIOUS
  <2>1. list[i].id \in Chat /\ list[i].unread \in BOOLEAN
    BY <1>1 DEF Entry
  <2>2. PICK b \in BOOLEAN : b = IF list[i].id = c THEN on ELSE list[i].unread
    BY <2>1
  <2>3. Badge(list, c, on)[i] = [id |-> list[i].id, unread |-> b]
    BY <1>2, <2>2, Zenon
  <2> QED BY <2>1, <2>3, Entries
<1>5. Badge(list, c, on) \in Seq(Entry)
  BY <1>3, <1>4 DEF Badge
<1>6. Len(Badge(list, c, on)) = Len(list)
  BY <1>3, <1>5
<1> QED BY <1>2, <1>3, <1>5, <1>6

(* The history of a chat is made of its messages.                          *)
LEMMA Histories ==
  ASSUME NEW l \in [Chat -> Seq(Message)], NEW c \in Chat
  PROVE  /\ History(c, l) \in Seq(Message)
         /\ \A i \in DOMAIN History(c, l) : \E j \in DOMAIN l[c] : History(c, l)[i] = l[c][j]
<1>1. l[c] \in Seq(Message) /\ Len(l[c]) \in Nat /\ Window \in Nat
  BY BoundAssumption
<1>2. PICK w : w = IF Len(l[c]) < Window THEN Len(l[c]) ELSE Window
  OBVIOUS
<1>3. w \in 0..Len(l[c])
  BY <1>1, <1>2
<1> DEFINE m == Len(l[c]) - w + 1
           n == Len(l[c])
<1>4. 1 <= m /\ n <= Len(l[c]) /\ \A i \in m..n : l[c][i] \in Message /\ i \in DOMAIN l[c]
  BY <1>1, <1>3
<1>5. History(c, l) = SubSeq(l[c], m, n)
  BY <1>2 DEF History
<1>6. m \in Int /\ n \in Int
  BY <1>1, <1>3
<1> HIDE DEF m, n
<1>7. /\ History(c, l) \in Seq(Message)
      /\ Len(History(c, l)) = IF m <= n THEN n - m + 1 ELSE 0
      /\ \A i \in 1 .. n - m + 1 : History(c, l)[i] = l[c][m + i - 1]
  BY <1>4, <1>5, <1>6, SubSeqProperties
<1>8. \A i \in DOMAIN History(c, l) : i \in 1 .. n - m + 1 /\ m + i - 1 \in m..n
  BY <1>7, <1>6
<1> QED BY <1>4, <1>7, <1>8
-----------------------------------------------------------------------------
(***************************************************************************)
(* What a step does to the list, the screen and the messages, whichever    *)
(* action it is.                                                           *)
(***************************************************************************)

(* The list and the messages stay as they are.                             *)
Stays ==
  /\ UNCHANGED <<log, unread, next, up, chats, active, unacked>>
  /\ known \subseteq known'
  /\ messages' = messages \/ (up /\ messages' = History(Open, log))
  /\ reply' \in {reply, None} \/ (up /\ \E i \in DOMAIN messages : reply' = messages[i].id)

(* A message is stored; one that quotes is stored in the open chat.        *)
Posts(c, q) ==
  /\ Insert(c, q)
  /\ q = None \/ (up /\ c = Open /\ q = reply)
  /\ UNCHANGED <<up, active>>
  /\ known \subseteq known'
  /\ reply' \in {reply, None}
  /\ up => messages' = History(Open, log')
  /\ chats' = chats \/ chats' = Badge(chats, c, TRUE)
  /\ \A d \in unread' \ unacked' :
       \/ d \in unread \ unacked /\ d # c
       \/ d \in unread \ unacked /\ chats' = chats
       \/ d = c /\ (~up \/ chats' = Badge(chats, c, TRUE))

(* No message is stored; those of a chat may be cleared.                   *)
Wipes ==
  /\ next' = next
  /\ log' \in [Chat -> Seq(Message)]
  /\ \A c \in Chat : log'[c] \in {log[c], <<>>}

(* /clear.                                                                 *)
Clears ==
  /\ up /\ Wipes
  /\ UNCHANGED <<known, up, chats, active, reply>>
  /\ messages' = History(Open, log')
  /\ unread' \ unacked' \subseteq unread \ unacked

(* A list and a chat of it are shown.                                      *)
Shows ==
  /\ up' /\ Wipes
  /\ chats' \in Seq(Entry)
  /\ active' \in DOMAIN chats' /\ messages' = History(chats'[active'].id, log')
  /\ reply' = None
  /\ \A i \in DOMAIN chats' :
       /\ chats'[i].id \in known'
       /\ chats'[i].id \in unread' \ unacked' => chats'[i].unread

(* The window is closed.                                                   *)
Closes == ~up' /\ Wipes /\ chats' = <<>> /\ reply' = None

Kind == Stays \/ Clears \/ Shows \/ Closes \/ \E c \in Chat, q \in 1..MaxMsgs \cup {None} : Posts(c, q)

(* Insert adds one message to one chat.                                    *)
LEMMA Inserts ==
  ASSUME Types, NEW c \in Chat, NEW q \in 1..MaxMsgs \cup {None}, Insert(c, q)
  PROVE  /\ log' \in [Chat -> Seq(Message)] /\ log'[c] # <<>>
         /\ next \in 1..MaxMsgs /\ next' = next + 1
         /\ \A d \in Chat \ {c} : log'[d] = log[d]
         /\ \A i \in DOMAIN log'[c] :
              \/ i \in DOMAIN log[c] /\ log'[c][i] = log[c][i]
              \/ log'[c][i].id = next /\ log'[c][i].quote = q
<1>1. next \in 1..MaxMsgs /\ next' = next + 1
  BY BoundAssumption DEF Types, TypeOK, Insert
<1>2. PICK m \in Message : m = [id |-> next, quote |-> q]
  BY <1>1 DEF Message
<1>3. log' = [log EXCEPT ![c] = Append(log[c], m)]
  BY <1>2 DEF Insert
<1>4. log \in [Chat -> Seq(Message)] /\ log[c] \in Seq(Message)
  BY DEF Types, Shape
<1>5. log'[c] = Append(log[c], m) /\ \A d \in Chat \ {c} : log'[d] = log[d]
  BY <1>3, <1>4
<1>6. /\ Append(log[c], m) \in Seq(Message)
      /\ Len(Append(log[c], m)) = Len(log[c]) + 1
      /\ \A i \in 1..Len(log[c]) : Append(log[c], m)[i] = log[c][i]
      /\ Append(log[c], m)[Len(log[c]) + 1] = m
  BY <1>4
<1>7. log' \in [Chat -> Seq(Message)]
  BY <1>3, <1>4, <1>6
<1>8. log'[c] # <<>>
  BY <1>4, <1>5, <1>6
<1>9. \A i \in DOMAIN log'[c] :
        \/ i \in DOMAIN log[c] /\ log'[c][i] = log[c][i]
        \/ log'[c][i] = m
  BY <1>4, <1>5, <1>6
<1> QED BY <1>1, <1>2, <1>5, <1>7, <1>8, <1>9

LEMMA OpenIsKnown ==
  ASSUME Inv, up
  PROVE  Open \in known /\ Open \in Chat /\ active \in DOMAIN chats
BY DEF Inv, Types, TypeOK, ListedAreKnown, Listed, Open

(* The actions that leave the list and the messages alone.                 *)
LEMMA StaysKind ==
  ASSUME Inv,
         \/ \E c \in Chat : Learn(c)
         \/ \E g \in SUBSET Group, p \in SUBSET Direct : NoMessage(g, p)
         \/ CloseModal \/ Esc \/ CtrlR \/ MoveSelection \/ PickReply
         \/ \E cmd, p : Notice(cmd, p)
         \/ \E cmd : OpenModal(cmd) \/ Ask(cmd) \/ Refused(cmd)
  PROVE  Stays
<1>1. CASE \E c \in Chat : Learn(c)
  BY <1>1 DEF Learn, screen, ghost, Stays
<1>2. CASE \E g \in SUBSET Group, p \in SUBSET Direct : NoMessage(g, p)
  BY <1>2 DEF NoMessage, ghost, Stays
<1>3. CASE CloseModal \/ Esc \/ CtrlR \/ MoveSelection
  BY <1>3 DEF CloseModal, Esc, CtrlR, MoveSelection, store, ghost, Stays
<1>4. CASE PickReply
  BY <1>4 DEF PickReply, Free, store, ghost, Stays
<1>5. CASE \E cmd, p : Notice(cmd, p)
  BY <1>5 DEF Notice, Typing, Free, ghost, Stays
<1>6. CASE \E cmd : OpenModal(cmd) \/ Ask(cmd) \/ Refused(cmd)
  BY <1>6 DEF OpenModal, Ask, Refused, store, ghost, Stays
<1> QED BY <1>1, <1>2, <1>3, <1>4, <1>5, <1>6

(* The actions that store a message.                                       *)
LEMMA PostsKind ==
  ASSUME Inv,
         \/ \E c \in Chat : SyncMessage(c)
         \/ \E c \in Chat, d \in Direct, acked \in BOOLEAN : Deliver(c, d, acked)
         \/ \E p : SendImage(p)
         \/ SendText
  PROVE  Stays \/ \E c \in Chat, q \in 1..MaxMsgs \cup {None} : Posts(c, q)
<1>1. ASSUME NEW c \in Chat, SyncMessage(c) PROVE Posts(c, None)
  BY <1>1 DEF SyncMessage, screen, ghost, Posts
<1>2. ASSUME NEW c \in Chat, NEW d \in Direct, NEW acked \in BOOLEAN, Deliver(c, d, acked)
      PROVE  Posts(c, None)
  <2>1. up /\ Insert(c, None) /\ UNCHANGED <<up, active, reply>> /\ known \subseteq known'
        /\ messages' = History(Open, log')
    BY <1>2 DEF Deliver
  <2>2. CASE acked /\ c = Open
    <3>1. unread' = unread \ {c} /\ chats' = chats /\ unacked' = unacked \ {c}
      BY <1>2, <2>2 DEF Deliver
    <3> QED BY <2>1, <3>1 DEF Posts
  <2>3. CASE acked /\ c # Open
    <3>1. unread' = unread \cup {c} /\ chats' = Badge(chats, c, TRUE) /\ unacked' = unacked \ {c}
      BY <1>2, <2>3 DEF Deliver
    <3> QED BY <2>1, <3>1 DEF Posts
  <2>4. CASE ~acked
    <3>1. unread' = unread \cup {c} /\ chats' = chats /\ unacked' = unacked \cup {c}
      BY <1>2, <2>4 DEF Deliver
    <3> QED BY <2>1, <3>1 DEF Posts
  <2> QED BY <2>2, <2>3, <2>4
<1>3. ASSUME NEW p, SendImage(p) PROVE Open \in Chat /\ Posts(Open, None)
  BY <1>3, OpenIsKnown DEF SendImage, Typing, Free, ghost, Posts
<1>4. ASSUME SendText, Insert(Open, reply)
      PROVE  Open \in Chat /\ reply \in 1..MaxMsgs \cup {None} /\ Posts(Open, reply)
  BY <1>4, OpenIsKnown DEF SendText, Typing, Free, Posts, Inv, Types, TypeOK
<1>5. ASSUME SendText, UNCHANGED <<log, next>> PROVE Stays
  BY <1>5 DEF SendText, Typing, Free, Stays
<1> QED BY <1>1, <1>2, <1>3, <1>4, <1>5 DEF SendText
(* The actions that show a chat, or none.                                  *)
LEMMA OpenShows ==
  ASSUME Inv, NEW c \in Chat, NEW p \in SUBSET Direct, OpenChat(c, p)
  PROVE  Shows
<1>1. /\ up' /\ UNCHANGED <<log, next>> /\ reply' = None
      /\ active' = PositionOf(c, chats') /\ messages' = History(c, log)
      /\ unread' = unread \ {c} /\ known' = known \cup p /\ c \in known
  BY DEF OpenChat
<1>2. PICK list : list = LoadChats(known, unread)
  OBVIOUS
<1>3. chats' = list
  BY <1>2 DEF OpenChat
<1>4. known \in SUBSET Chat /\ log \in [Chat -> Seq(Message)]
  BY DEF Inv, Types, TypeOK, Shape
<1>5. /\ list \in Seq(Entry)
      /\ \A i \in DOMAIN list : list[i].id \in known /\ list[i].unread = (list[i].id \in unread)
      /\ \E i \in DOMAIN list : list[i].id = c
  BY <1>1, <1>2, <1>4, Loads
<1>6. active' \in DOMAIN chats' /\ chats'[active'].id = c
  BY <1>3, <1>5 DEF PositionOf, OpenChat
<1>7. messages' = History(chats'[active'].id, log')
  BY <1>1, <1>6
<1>8. \A i \in DOMAIN chats' :
        /\ chats'[i].id \in known'
        /\ chats'[i].id \in unread' \ unacked' => chats'[i].unread
  BY <1>1, <1>3, <1>5
<1> QED BY <1>1, <1>3, <1>4, <1>5, <1>6, <1>7, <1>8 DEF Shows, Wipes

LEMMA ModRange ==
  ASSUME NEW a \in Int, NEW n \in Nat, n > 0
  PROVE  a % n \in 0..(n - 1)
OBVIOUS

LEMMA SwitchShows ==
  ASSUME Inv, SwitchChat
  PROVE  Shows /\ unread' \subseteq unread
<1>1. up /\ chats \in Seq(Entry) /\ active \in DOMAIN chats /\ active \in Nat /\ Len(chats) \in Nat
  BY DEF Inv, Types, TypeOK, Shape, SwitchChat, Typing, Free
<1>2. PICK step \in {1, Len(chats) - 1} : active' = ((active - 1 + step) % Len(chats)) + 1
  BY DEF SwitchChat
<1>3. Len(chats) > 0 /\ active - 1 + step \in Int
  <2>1. active \in 1..Len(chats)
    BY <1>1
  <2>2. Len(chats) > 0
    BY <1>1, <2>1
  <2>3. step \in Int
    BY <1>1
  <2> QED BY <1>1, <2>2, <2>3
<1>4. (active - 1 + step) % Len(chats) \in 0..(Len(chats) - 1)
  BY <1>1, <1>3, ModRange
<1>5. active' \in DOMAIN chats
  BY <1>1, <1>2, <1>4
<1>6. PICK c \in Chat : c = chats[active'].id
  <2>1. chats[active'] \in Entry
    BY <1>1, <1>5
  <2>2. chats[active'].id \in Chat
    BY <2>1 DEF Entry
  <2> QED BY <2>2, Zenon
<1>7. /\ up' = up /\ reply' = None /\ known' = known
      /\ unread' = unread \ {c} /\ unacked' = unacked \cap unread'
      /\ chats' = Badge(chats, c, FALSE) /\ messages' = History(c, log)
      /\ log' = log /\ next' = next
  <2>1. /\ messages' = History(chats[active'].id, log)
        /\ unread' = unread \ {chats[active'].id}
        /\ chats' = Badge(chats, chats[active'].id, FALSE)
    BY DEF SwitchChat
  <2>2. /\ up' = up /\ reply' = None /\ known' = known /\ unacked' = unacked \cap unread'
        /\ log' = log /\ next' = next
    BY DEF SwitchChat
  <2> QED BY <1>6, <2>1, <2>2
<1>8. /\ chats' \in Seq(Entry) /\ DOMAIN chats' = DOMAIN chats
      /\ \A i \in DOMAIN chats :
           /\ chats'[i].id = chats[i].id
           /\ chats'[i].unread = IF chats[i].id = c THEN FALSE ELSE chats[i].unread
  <2>1. PICK off \in BOOLEAN : off = FALSE
    OBVIOUS
  <2>2. chats' = Badge(chats, c, off)
    BY <1>7, <2>1, Zenon
  <2>3. /\ Badge(chats, c, off) \in Seq(Entry) /\ DOMAIN Badge(chats, c, off) = DOMAIN chats
        /\ \A i \in DOMAIN chats :
             /\ Badge(chats, c, off)[i].id = chats[i].id
             /\ Badge(chats, c, off)[i].unread = IF chats[i].id = c THEN off ELSE chats[i].unread
    BY <1>1, Badges
  <2> QED BY <2>1, <2>2, <2>3
<1>9. active' \in DOMAIN chats' /\ messages' = History(chats'[active'].id, log')
  BY <1>5, <1>6, <1>7, <1>8
<1>10. \A i \in DOMAIN chats : chats[i].id \in known
  BY DEF Inv, ListedAreKnown, Listed
<1>11. \A i \in DOMAIN chats : chats[i].id \in unread \ unacked => chats[i].unread
  BY DEF Inv, UnreadIsMarked
<1>12. \A i \in DOMAIN chats' :
         /\ chats'[i].id \in known'
         /\ chats'[i].id \in unread' \ unacked' => chats'[i].unread
  BY <1>7, <1>8, <1>10, <1>11
<1>13. up' /\ Wipes
  BY <1>1, <1>7 DEF Wipes, Inv, Types, Shape
<1> QED BY <1>7, <1>8, <1>9, <1>12, <1>13 DEF Shows

LEMMA ForgottenShows ==
  ASSUME Inv, NEW cmd \in Twice, Forgotten(cmd), up, log' \in [Chat -> Seq(Message)],
         \A c \in Chat : log'[c] \in {log[c], <<>>}
  PROVE  Shows \/ Closes
<1>1. PICK list : list = LoadChats(known', unread')
  OBVIOUS
<1>2. known' \in SUBSET Chat /\ next' = next
  BY DEF Inv, Types, TypeOK, Forgotten
<1>3. /\ list \in Seq(Entry)
      /\ \A i \in DOMAIN list : list[i].id \in known' /\ list[i].unread = (list[i].id \in unread')
  BY <1>1, <1>2, Loads
<1>4. CASE list = <<>>
  BY <1>1, <1>2, <1>4 DEF Forgotten, Rebuilt, CloseWith, Closes, Wipes
<1>5. CASE list # <<>>
  <2>1. ShowFirst(list) /\ up' = up
    BY <1>1, <1>5 DEF Forgotten, Rebuilt
  <2>2. 1 \in DOMAIN list
    BY <1>3, <1>5
  <2> QED BY <1>2, <1>3, <2>1, <2>2 DEF ShowFirst, Shows, Wipes
<1> QED BY <1>4, <1>5

LEMMA ClearKind ==
  ASSUME Inv, ClearChat
  PROVE  Clears
<1>1. Open \in Chat /\ log \in [Chat -> Seq(Message)] /\ up
  BY OpenIsKnown DEF Inv, Types, Shape, ClearChat, Confirmed, Typing, Free
<1>2. log' = [log EXCEPT ![Open] = <<>>]
  BY DEF ClearChat
<1>3. log' \in [Chat -> Seq(Message)] /\ \A c \in Chat : log'[c] \in {log[c], <<>>}
  BY <1>1, <1>2
<1> QED BY <1>1, <1>3 DEF ClearChat, Clears, Wipes

(* A confirmed delete, leave or remove forgets the open chat; only remove  *)
(* clears it.                                                              *)
LEMMA Forgets ==
  ASSUME Inv, NEW cmd \in Twice,
         (cmd = "remove" /\ RemoveContact) \/ GiveUpGroup(cmd)
  PROVE  /\ up /\ Forgotten(cmd) /\ cmd \in armed /\ Open \in known
         /\ log' \in [Chat -> Seq(Message)] /\ unread' \subseteq unread
         /\ \A c \in Chat : log'[c] \in {log[c], <<>>} /\ (c # Open => log'[c] = log[c])
         /\ IF cmd = "remove" THEN Open \in Direct ELSE cmd \in {"delete", "leave"} /\ Open \in Group
<1>1. log \in [Chat -> Seq(Message)]
  BY DEF Inv, Types, Shape
<1>2. CASE cmd = "remove" /\ RemoveContact
  <2>1. Confirmed("remove") /\ Forgotten("remove") /\ unread' = unread \ {Open}
        /\ log' = [log EXCEPT ![Open] = <<>>]
    BY <1>2 DEF RemoveContact
  <2>2. up /\ "remove" \in armed /\ Open \in Direct
    BY <2>1 DEF Confirmed, Typing, Free, Allowed
  <2>3. Open \in known /\ Open \in Chat
    BY <2>2, OpenIsKnown
  <2>4. log' \in [Chat -> Seq(Message)] /\ \A c \in Chat : log'[c] \in {log[c], <<>>} /\ (c # Open => log'[c] = log[c])
    BY <1>1, <2>1, <2>3
  <2> QED BY <1>2, <2>1, <2>2, <2>3, <2>4
<1>3. CASE GiveUpGroup(cmd)
  <2>1. Confirmed(cmd) /\ Forgotten(cmd) /\ cmd \in {"delete", "leave"} /\ UNCHANGED <<log, unread>>
    BY <1>3 DEF GiveUpGroup
  <2>2. up /\ cmd \in armed /\ Open \in Group
    BY <2>1 DEF Confirmed, Typing, Free, Allowed
  <2> QED BY <1>1, <2>1, <2>2, OpenIsKnown
<1> QED BY <1>2, <1>3

LEMMA NextKind ==
  ASSUME Inv, Next
  PROVE  Kind
<1>1. ASSUME Home PROVE Kind
  <2>1. CASE \E c \in Chat : Learn(c)
    BY <2>1, StaysKind DEF Kind
  <2>2. CASE \E c \in Chat : SyncMessage(c)
    BY <2>2, PostsKind DEF Kind
  <2>3. CASE \E c \in Chat, p \in SUBSET Direct : OpenChat(c, p)
    BY <2>3, OpenShows DEF Kind
  <2> QED BY <1>1, <2>1, <2>2, <2>3 DEF Home
<1>2. ASSUME Frame PROVE Kind
  <2>1. CASE \E c \in Chat, d \in Direct, acked \in BOOLEAN : Deliver(c, d, acked)
    BY <2>1, PostsKind DEF Kind
  <2>2. CASE \E g \in SUBSET Group, p \in SUBSET Direct : NoMessage(g, p)
    BY <2>2, StaysKind DEF Kind
  <2>3. ASSUME NEW g \in Group, NEW p \in SUBSET Direct, NoMessage({g}, p)
        PROVE  \E h \in SUBSET Group, q \in SUBSET Direct : NoMessage(h, q)
    BY <2>3
  <2>4. ASSUME NEW d \in Direct, NoMessage({}, {d})
        PROVE  \E h \in SUBSET Group, q \in SUBSET Direct : NoMessage(h, q)
    BY <2>4
  <2> QED BY <1>2, <2>1, <2>2, <2>3, <2>4 DEF Frame
<1>3. ASSUME Key PROVE Kind
  <2>1. CASE CloseModal \/ Esc \/ CtrlR \/ MoveSelection \/ PickReply
    BY <2>1, StaysKind DEF Kind
  <2>2. CASE Quit
    BY <2>2 DEF Quit, CloseWith, store, Kind, Closes, Wipes, Inv, Types, Shape
  <2>3. CASE SwitchChat
    BY <2>3, SwitchShows DEF Kind
  <2> QED BY <1>3, <2>1, <2>2, <2>3 DEF Key
<1>4. ASSUME Enter PROVE Kind
  <2>1. CASE (\E cmd, p : Notice(cmd, p)) \/ (\E cmd : OpenModal(cmd) \/ Ask(cmd) \/ Refused(cmd))
    BY <2>1, StaysKind DEF Kind
  <2>2. CASE ClearChat
    BY <2>2, ClearKind DEF Kind
  <2>3. ASSUME NEW cmd \in Twice, (cmd = "remove" /\ RemoveContact) \/ GiveUpGroup(cmd) PROVE Kind
    BY <2>3, Forgets, ForgottenShows DEF Kind
  <2>4. CASE (\E p : SendImage(p)) \/ SendText
    BY <2>4, PostsKind DEF Kind
  <2> QED BY <1>4, <2>1, <2>2, <2>3, <2>4 DEF Enter, Twice
<1> QED BY <1>1, <1>2, <1>3, <1>4 DEF Next
-----------------------------------------------------------------------------
(***************************************************************************)
(* The invariant is preserved.                                             *)
(***************************************************************************)

LEMMA PostsTypes ==
  ASSUME Inv, NEW c \in Chat, NEW q \in 1..MaxMsgs \cup {None}, Posts(c, q)
  PROVE  /\ log' \in [Chat -> Seq(Message)] /\ next' \in 1..(MaxMsgs + 1)
         /\ chats' \in Seq(Entry) /\ DOMAIN chats' = DOMAIN chats
         /\ \A i \in DOMAIN chats :
              /\ chats'[i].id = chats[i].id
              /\ chats[i].unread => chats'[i].unread
              /\ chats' = Badge(chats, c, TRUE) /\ chats[i].id = c => chats'[i].unread
<1>1. log' \in [Chat -> Seq(Message)] /\ next' \in 1..(MaxMsgs + 1)
  BY Inserts, BoundAssumption DEF Inv, Posts
<1>2. chats \in Seq(Entry)
  BY DEF Inv, Types, Shape
<1>3. PICK on \in BOOLEAN : on = TRUE
  OBVIOUS
<1>4. /\ Badge(chats, c, on) \in Seq(Entry) /\ DOMAIN Badge(chats, c, on) = DOMAIN chats
      /\ \A i \in DOMAIN chats :
           /\ Badge(chats, c, on)[i].id = chats[i].id
           /\ Badge(chats, c, on)[i].unread = IF chats[i].id = c THEN on ELSE chats[i].unread
  BY <1>2, Badges
<1>5. CASE chats' = Badge(chats, c, TRUE)
  <2>1. chats' = Badge(chats, c, on)
    BY <1>3, <1>5, Zenon
  <2> QED BY <1>1, <1>3, <1>4, <2>1
<1>6. CASE chats' = chats /\ chats' # Badge(chats, c, TRUE)
  BY <1>1, <1>2, <1>6
<1> QED BY <1>5, <1>6 DEF Posts

LEMMA KindTypes ==
  ASSUME Inv, Kind
  PROVE  /\ log' \in [Chat -> Seq(Message)] /\ next' \in 1..(MaxMsgs + 1)
         /\ reply' \in 1..MaxMsgs \cup {None}
         /\ chats' \in Seq(Entry)
         /\ up' => active' \in DOMAIN chats'
         /\ ~up' => chats' = <<>>
<1>1. /\ log \in [Chat -> Seq(Message)] /\ next \in 1..(MaxMsgs + 1) /\ chats \in Seq(Entry)
      /\ reply \in 1..MaxMsgs \cup {None}
      /\ ~up => chats = <<>>
      /\ up => active \in DOMAIN chats
  BY DEF Inv, Types, TypeOK, Shape
<1>2. ASSUME Stays PROVE reply' \in 1..MaxMsgs \cup {None}
  <2>1. ASSUME up, NEW i \in DOMAIN messages PROVE messages[i].id \in 1..MaxMsgs
    <3>1. messages = History(Open, log)
      BY <2>1 DEF Inv, ScreenShowsOpenChat
    <3>2. messages[i] \in Message
      BY <1>1, <2>1, <3>1, OpenIsKnown, Histories
    <3> QED BY <3>2 DEF Message
  <2> QED BY <1>1, <1>2, <2>1 DEF Stays
<1>3. CASE Stays
  BY <1>1, <1>2, <1>3 DEF Stays
<1>4. CASE Clears
  BY <1>1, <1>4 DEF Clears, Wipes
<1>5. CASE Shows
  BY <1>1, <1>5 DEF Shows, Wipes
<1>6. CASE Closes
  BY <1>1, <1>6 DEF Closes, Wipes
<1>7. ASSUME NEW c \in Chat, NEW q \in 1..MaxMsgs \cup {None}, Posts(c, q)
      PROVE  /\ log' \in [Chat -> Seq(Message)] /\ next' \in 1..(MaxMsgs + 1)
             /\ reply' \in 1..MaxMsgs \cup {None}
             /\ chats' \in Seq(Entry)
             /\ up' => active' \in DOMAIN chats'
             /\ ~up' => chats' = <<>>
  <2>1. /\ UNCHANGED <<up, active>> /\ reply' \in {reply, None}
        /\ chats' = chats \/ chats' = Badge(chats, c, TRUE)
    BY <1>7 DEF Posts
  <2>2. /\ log' \in [Chat -> Seq(Message)] /\ next' \in 1..(MaxMsgs + 1)
        /\ chats' \in Seq(Entry) /\ DOMAIN chats' = DOMAIN chats
    BY <1>7, PostsTypes
  <2>3. chats = <<>> => chats' = <<>>
    BY <1>1, <2>2
  <2> QED BY <1>1, <2>1, <2>2, <2>3
<1> QED BY <1>3, <1>4, <1>5, <1>6, <1>7 DEF Kind

(* The parts of Types no kind speaks of.                                   *)
Rest ==
  /\ known \subseteq Chat /\ unread \subseteq Chat /\ unacked \subseteq Chat
  /\ up \in BOOLEAN /\ pick \in Nat /\ modal \in {None, "verify", "images"}
  /\ armed \subseteq Twice /\ asked \in [Twice -> Request \cup {None}]

LEMMA AskedExcept ==
  ASSUME asked \in [Twice -> Request \cup {None}], NEW cmd \in Twice
  PROVE  [asked EXCEPT ![cmd] = None] \in [Twice -> Request \cup {None}]
OBVIOUS

LEMMA CloseRest ==
  ASSUME Rest, NEW a \in [Twice -> Request \cup {None}], CloseWith(a)
  PROVE  /\ up' \in BOOLEAN /\ pick' \in Nat /\ modal' \in {None, "verify", "images"}
         /\ armed' \subseteq Twice /\ asked' \in [Twice -> Request \cup {None}]
BY DEF CloseWith

LEMMA RestStep ==
  ASSUME Inv, Next
  PROVE  Rest'
<1>1. Rest /\ (up => messages \in Seq(Message))
  <2>1. ASSUME up PROVE messages \in Seq(Message)
    BY <2>1, OpenIsKnown, Histories DEF Inv, Types, Shape, ScreenShowsOpenChat
  <2> QED BY <2>1 DEF Inv, Types, TypeOK, Shape, Rest
<1>2. \A p \in SUBSET Direct : p \subseteq Chat
  BY DEF Chat
<1>3. ASSUME Home PROVE Rest'
  <2>1. ASSUME NEW c \in Chat, Learn(c) \/ SyncMessage(c) PROVE Rest'
    BY <1>1, <2>1 DEF Learn, SyncMessage, Insert, screen, ghost, Rest
  <2>2. ASSUME NEW c \in Chat, NEW p \in SUBSET Direct, OpenChat(c, p) PROVE Rest'
    BY <1>1, <1>2, <2>2 DEF OpenChat, Rest
  <2> QED BY <1>3, <2>1, <2>2 DEF Home
<1>4. ASSUME Frame PROVE Rest'
  <2>1. ASSUME NEW c \in Chat, NEW d \in Direct, NEW acked \in BOOLEAN, Deliver(c, d, acked) PROVE Rest'
    BY <1>1, <2>1 DEF Deliver, Insert, Rest, Chat
  <2>2. ASSUME NEW g \in SUBSET Group, NEW p \in SUBSET Direct, NoMessage(g, p) PROVE Rest'
    BY <1>1, <2>2 DEF NoMessage, ghost, Rest, Chat
  <2>3. ASSUME NEW g \in Group, NEW p \in SUBSET Direct, NoMessage({g}, p) PROVE Rest'
    BY <2>2, <2>3
  <2>4. ASSUME NEW d \in Direct, NoMessage({}, {d}) PROVE Rest'
    BY <2>2, <2>4
  <2> QED BY <1>4, <2>1, <2>3, <2>4 DEF Frame
<1>5. ASSUME Key PROVE Rest'
  <2>1. CASE CloseModal \/ Esc \/ PickReply
    BY <1>1, <2>1 DEF CloseModal, Esc, PickReply, store, ghost, Rest
  <2>2. CASE CtrlR \/ MoveSelection
    <3>1. messages \in Seq(Message) /\ Len(messages) \in Nat
      BY <1>1, <2>2 DEF CtrlR, MoveSelection, Free
    <3>2. pick' \in Nat
      BY <1>1, <2>2, <3>1 DEF CtrlR, MoveSelection, Rest
    <3> QED BY <1>1, <2>2, <3>2 DEF CtrlR, MoveSelection, store, ghost, Rest
  <2>3. CASE Quit
    BY <1>1, <2>3, CloseRest DEF Quit, store, Rest
  <2>4. CASE SwitchChat
    BY <1>1, <2>4, SwitchShows DEF SwitchChat, Rest
  <2> QED BY <1>5, <2>1, <2>2, <2>3, <2>4 DEF Key
<1>6. ASSUME Enter PROVE Rest'
  <2>1. ASSUME NEW cmd, NEW p \in SUBSET Direct, Notice(cmd, p) PROVE Rest'
    BY <1>1, <1>2, <2>1 DEF Notice, ghost, Rest
  <2>2. ASSUME NEW cmd \in {"verify", "images"}, OpenModal(cmd) PROVE Rest'
    BY <1>1, <2>2 DEF OpenModal, store, ghost, Rest
  <2>3. ASSUME NEW cmd \in Twice, Ask(cmd) PROVE Rest'
    <3>1. [chat |-> Open, wrote |-> FALSE] \in Request
      BY <2>3, OpenIsKnown DEF Ask, Typing, Free, Request
    <3> QED BY <1>1, <2>3, <3>1 DEF Ask, store, Rest
  <2>4. CASE ClearChat
    <3>1. asked' \in [Twice -> Request \cup {None}]
      BY <1>1, <2>4, AskedExcept DEF ClearChat, Rest, Twice
    <3> QED BY <1>1, <2>4, <3>1 DEF ClearChat, Disarmed, Rest
  <2>5. ASSUME NEW cmd \in Twice, (cmd = "remove" /\ RemoveContact) \/ GiveUpGroup(cmd) PROVE Rest'
    <3>1. Forgotten(cmd) /\ unread' \subseteq unread
      BY <2>5, Forgets
    <3>2. known' = known \ {Open} /\ unacked' = unacked \cap unread'
      BY <3>1 DEF Forgotten
    <3>3. [asked EXCEPT ![cmd] = None] \in [Twice -> Request \cup {None}]
      BY <1>1, AskedExcept DEF Rest
    <3>4. CASE CloseWith([asked EXCEPT ![cmd] = None])
      BY <1>1, <3>1, <3>2, <3>3, <3>4, CloseRest DEF Rest
    <3>5. CASE /\ \E list : ShowFirst(list)
               /\ armed' = Disarmed(cmd) /\ asked' = [asked EXCEPT ![cmd] = None]
               /\ UNCHANGED <<up, modal>>
      BY <1>1, <3>1, <3>2, <3>3, <3>5 DEF ShowFirst, Disarmed, Rest
    <3> QED BY <3>1, <3>4, <3>5 DEF Forgotten
  <2>6. ASSUME NEW cmd \in Twice, Refused(cmd) PROVE Rest'
    BY <1>1, <2>6, AskedExcept DEF Refused, Disarmed, store, Rest
  <2>7. ASSUME NEW p \in SUBSET Direct, SendImage(p) PROVE Rest'
    BY <1>1, <1>2, <2>7 DEF SendImage, Insert, ghost, Rest
  <2>8. CASE SendText
    <3>1. Wrote \in [Twice -> Request \cup {None}]
      BY <1>1 DEF Wrote, Rest, Request
    <3> QED BY <1>1, <2>8, <3>1 DEF SendText, Insert, Rest
  <2> QED BY <1>6, <2>1, <2>2, <2>3, <2>4, <2>5, <2>6, <2>7, <2>8 DEF Enter, Twice
<1> QED BY <1>3, <1>4, <1>5, <1>6 DEF Next

LEMMA TypesStep ==
  ASSUME Inv, Next
  PROVE  Types'
<1>1. /\ log' \in [Chat -> Seq(Message)] /\ next' \in 1..(MaxMsgs + 1)
      /\ reply' \in 1..MaxMsgs \cup {None}
      /\ chats' \in Seq(Entry)
      /\ up' => active' \in DOMAIN chats'
      /\ ~up' => chats' = <<>>
  BY NextKind, KindTypes
<1>2. Rest'
  BY RestStep
<1>3. \A c \in Chat : \A i \in DOMAIN log'[c] :
        log'[c][i].id \in 1..MaxMsgs /\ log'[c][i].quote \in 1..MaxMsgs \cup {None}
  <2> SUFFICES ASSUME NEW c \in Chat, NEW i \in DOMAIN log'[c]
               PROVE  log'[c][i].id \in 1..MaxMsgs /\ log'[c][i].quote \in 1..MaxMsgs \cup {None}
    OBVIOUS
  <2>1. log'[c][i] \in Message
    BY <1>1
  <2> QED BY <2>1 DEF Message
<1>4. \A i \in DOMAIN chats' : chats'[i].id \in Chat /\ chats'[i].unread \in BOOLEAN
  <2> SUFFICES ASSUME NEW i \in DOMAIN chats'
               PROVE  chats'[i].id \in Chat /\ chats'[i].unread \in BOOLEAN
    OBVIOUS
  <2>1. chats'[i] \in Entry
    BY <1>1
  <2> QED BY <2>1 DEF Entry
<1> QED BY <1>1, <1>2, <1>3, <1>4 DEF Types, TypeOK, Shape, Rest
(* An action that shows no other chat leaves the open one open.            *)
LEMMA PostsStaysOpen ==
  ASSUME Inv, up, NEW c \in Chat, NEW q \in 1..MaxMsgs \cup {None}, Posts(c, q)
  PROVE  up' /\ Open' = Open
<1>1. up' = up /\ active' = active
  BY DEF Posts
<1>2. chats'[active].id = chats[active].id
  BY OpenIsKnown, PostsTypes
<1> QED BY <1>1, <1>2 DEF Open

LEMMA ScreenStep ==
  ASSUME Inv, Kind
  PROVE  ScreenShowsOpenChat'
<1>1. up => messages = History(Open, log)
  BY DEF Inv, ScreenShowsOpenChat
<1>2. CASE Stays
  BY <1>1, <1>2 DEF Stays, ScreenShowsOpenChat, Open
<1>3. CASE Clears
  BY <1>3 DEF Clears, ScreenShowsOpenChat, Open
<1>4. CASE Shows
  BY <1>4 DEF Shows, ScreenShowsOpenChat, Open
<1>5. CASE Closes
  BY <1>5 DEF Closes, ScreenShowsOpenChat
<1>6. ASSUME NEW c \in Chat, NEW q \in 1..MaxMsgs \cup {None}, Posts(c, q)
      PROVE  ScreenShowsOpenChat'
  <2>1. up' = up /\ (up => messages' = History(Open, log'))
    BY <1>6 DEF Posts
  <2>2. up => Open' = Open
    BY <1>6, PostsStaysOpen
  <2> QED BY <2>1, <2>2 DEF ScreenShowsOpenChat
<1> QED BY <1>2, <1>3, <1>4, <1>5, <1>6 DEF Kind

LEMMA ListStep ==
  ASSUME Inv, Kind
  PROVE  ListedAreKnown' /\ UnreadIsMarked'
<1>1. /\ \A i \in DOMAIN chats : chats[i].id \in known
      /\ \A i \in DOMAIN chats : chats[i].id \in unread \ unacked => chats[i].unread
      /\ chats \in Seq(Entry)
      /\ ~up => chats = <<>>
  BY DEF Inv, Types, Shape, ListedAreKnown, Listed, UnreadIsMarked
<1>2. SUFFICES \A i \in DOMAIN chats' :
                 /\ chats'[i].id \in known'
                 /\ chats'[i].id \in unread' \ unacked' => chats'[i].unread
  BY DEF ListedAreKnown, Listed, UnreadIsMarked
<1>3. CASE Stays
  BY <1>1, <1>3 DEF Stays
<1>4. CASE Clears
  BY <1>1, <1>4 DEF Clears
<1>5. CASE Shows
  BY <1>5 DEF Shows
<1>6. CASE Closes
  BY <1>6 DEF Closes
<1>7. ASSUME NEW c \in Chat, NEW q \in 1..MaxMsgs \cup {None}, Posts(c, q),
             NEW i \in DOMAIN chats'
      PROVE  /\ chats'[i].id \in known'
             /\ chats'[i].id \in unread' \ unacked' => chats'[i].unread
  <2>1. /\ i \in DOMAIN chats /\ chats'[i].id = chats[i].id
        /\ chats[i].unread => chats'[i].unread
        /\ chats' = Badge(chats, c, TRUE) /\ chats[i].id = c => chats'[i].unread
    BY <1>7, PostsTypes
  <2>2. chats'[i].id \in known'
    BY <1>1, <1>7, <2>1 DEF Posts
  <2>3. up
    BY <1>1, <2>1
  <2>4. ASSUME chats[i].id \in unread' \ unacked' PROVE chats'[i].unread
    <3>1. \/ chats[i].id \in unread \ unacked
          \/ chats[i].id = c /\ chats' = Badge(chats, c, TRUE)
      BY <1>7, <2>3, <2>4 DEF Posts
    <3> QED BY <1>1, <2>1, <3>1
  <2> QED BY <2>1, <2>2, <2>4
<1> QED BY <1>3, <1>4, <1>5, <1>6, <1>7 DEF Kind

(* The identities and quotes of the messages, and a target they fit.       *)
Numbered(l, n) ==
  /\ \A c \in Chat : \A i \in DOMAIN l[c] :
       /\ l[c][i].id < n
       /\ l[c][i].quote # None => l[c][i].quote < n
  /\ \A c, d \in Chat : \A i \in DOMAIN l[c], j \in DOMAIN l[d] :
       /\ l[c][i].id = l[d][j].id => c = d
       /\ l[c][i].quote = l[d][j].id => c = d

Target(l, n, r, c) ==
  r # None => /\ r < n
              /\ \A d \in Chat \ {c} : \A i \in DOMAIN l[d] : l[d][i].id # r

LEMMA QuotesAre ==
  Quotes <=> /\ Numbered(log, next)
             /\ reply # None => reply < next
             /\ up => Target(log, next, reply, Open)
BY DEF Quotes, IdsAreGiven, QuoteStaysInChat, Numbered, Target

LEMMA QuotesPrimed ==
  ASSUME Numbered(log', next'), reply' # None => reply' < next',
         up' => Target(log', next', reply', Open')
  PROVE  Quotes'
BY DEF Quotes, IdsAreGiven, QuoteStaysInChat, Numbered, Target

(* Clearing a chat breaks neither.                                         *)
LEMMA WipedNumbered ==
  ASSUME Numbered(log, next), Wipes
  PROVE  /\ Numbered(log', next')
         /\ \A r : \A c \in Chat : Target(log, next, r, c) => Target(log', next', r, c)
<1>1. \A c \in Chat : \A i \in DOMAIN log'[c] : i \in DOMAIN log[c] /\ log'[c][i] = log[c][i]
  <2>1. \A c \in Chat : log'[c] = log[c] \/ log'[c] = <<>>
    BY DEF Wipes
  <2> QED BY <2>1
<1>2. next' = next
  BY DEF Wipes
<1>3. Numbered(log', next')
  BY <1>1, <1>2 DEF Numbered
<1>4. \A r : \A c \in Chat : Target(log, next, r, c) => Target(log', next', r, c)
  BY <1>1, <1>2 DEF Target
<1> QED BY <1>3, <1>4

(* Nor does a new message that quotes one of its own chat.                 *)
LEMMA PostedNumbered ==
  ASSUME Types, NEW c \in Chat, NEW q \in 1..MaxMsgs \cup {None}, Insert(c, q),
         Numbered(log, next), Target(log, next, q, c)
  PROVE  /\ Numbered(log', next')
         /\ \A r \in 1..MaxMsgs \cup {None} : \A d \in Chat :
              Target(log, next, r, d) => Target(log', next', r, d)
<1>1. /\ next \in 1..MaxMsgs /\ next' = next + 1
      /\ log' \in [Chat -> Seq(Message)] /\ log \in [Chat -> Seq(Message)]
      /\ \A d \in Chat \ {c} : log'[d] = log[d]
      /\ \A i \in DOMAIN log'[c] :
           \/ i \in DOMAIN log[c] /\ log'[c][i] = log[c][i]
           \/ log'[c][i].id = next /\ log'[c][i].quote = q
  BY Inserts DEF Types, Shape
<1>2. \A d \in Chat : \A i \in DOMAIN log'[d] :
        \/ i \in DOMAIN log[d] /\ log'[d][i] = log[d][i]
        \/ d = c /\ log'[d][i].id = next /\ log'[d][i].quote = q
  BY <1>1
<1>3. \A d \in Chat : \A i \in DOMAIN log[d] :
        log[d][i].id \in 1..MaxMsgs /\ log[d][i].quote \in 1..MaxMsgs \cup {None}
  BY DEF Types, TypeOK
<1>4. None \notin Nat /\ MaxMsgs \in Nat /\ next \in Nat
  BY <1>1, NoneAssumption, BoundAssumption
<1>5. /\ \A d \in Chat : \A i \in DOMAIN log[d] :
           /\ log[d][i].id < next
           /\ log[d][i].quote # None => log[d][i].quote < next
      /\ q # None => q < next /\ \A d \in Chat \ {c} : \A i \in DOMAIN log[d] : log[d][i].id # q
  BY DEF Numbered, Target
<1>6. ASSUME NEW d \in Chat, NEW i \in DOMAIN log'[d]
      PROVE  log'[d][i].id < next' /\ (log'[d][i].quote # None => log'[d][i].quote < next')
  BY <1>1, <1>2, <1>3, <1>4, <1>5
<1>7. ASSUME NEW d \in Chat, NEW e \in Chat, NEW i \in DOMAIN log'[d], NEW j \in DOMAIN log'[e]
      PROVE  /\ log'[d][i].id = log'[e][j].id => d = e
             /\ log'[d][i].quote = log'[e][j].id => d = e
  <2>1. CASE i \in DOMAIN log[d] /\ log'[d][i] = log[d][i]
    <3>1. CASE j \in DOMAIN log[e] /\ log'[e][j] = log[e][j]
      BY <2>1, <3>1 DEF Numbered
    <3>2. CASE log'[e][j].id = next
      BY <2>1, <3>2, <1>3, <1>4, <1>5
    <3> QED BY <3>1, <3>2, <1>2
  <2>2. CASE d = c /\ log'[d][i].id = next /\ log'[d][i].quote = q
    <3>1. CASE j \in DOMAIN log[e] /\ log'[e][j] = log[e][j]
      BY <2>2, <3>1, <1>3, <1>4, <1>5
    <3>2. CASE e = c
      BY <2>2, <3>2
    <3> QED BY <3>1, <3>2, <1>2
  <2> QED BY <2>1, <2>2, <1>2
<1>8. Numbered(log', next')
  BY <1>6, <1>7 DEF Numbered
<1>9. ASSUME NEW r \in 1..MaxMsgs \cup {None}, NEW d \in Chat, Target(log, next, r, d), r # None
      PROVE  /\ r < next'
             /\ \A e \in Chat \ {d} : \A i \in DOMAIN log'[e] : log'[e][i].id # r
  <2>1. r < next /\ r \in Nat /\ \A e \in Chat \ {d} : \A i \in DOMAIN log[e] : log[e][i].id # r
    BY <1>4, <1>9 DEF Target
  <2> QED BY <1>1, <1>2, <1>4, <2>1
<1>10. \A r \in 1..MaxMsgs \cup {None} : \A d \in Chat :
         Target(log, next, r, d) => Target(log', next', r, d)
  BY <1>9 DEF Target
<1> QED BY <1>8, <1>10

LEMMA QuotesStep ==
  ASSUME Inv, Kind, Types'
  PROVE  Quotes'
<1>1. /\ Types /\ Numbered(log, next)
      /\ reply # None => reply < next
      /\ up => Target(log, next, reply, Open)
  BY QuotesAre DEF Inv
<1>2. reply \in 1..MaxMsgs \cup {None} /\ next \in Nat /\ log \in [Chat -> Seq(Message)]
  BY BoundAssumption DEF Inv, Types, TypeOK, Shape
<1>3. CASE Stays
  <2>1. /\ log' = log /\ next' = next /\ up' = up /\ Open' = Open
        /\ reply' \in {reply, None} \/ (up /\ \E i \in DOMAIN messages : reply' = messages[i].id)
    BY <1>3 DEF Stays, Open
  <2>2. ASSUME up, NEW i \in DOMAIN messages, reply' = messages[i].id
        PROVE  reply' < next /\ Target(log, next, reply', Open)
    <3>1. messages = History(Open, log) /\ Open \in Chat
      BY <2>2, OpenIsKnown DEF Inv, ScreenShowsOpenChat
    <3>2. PICK j \in DOMAIN log[Open] : messages[i] = log[Open][j]
      BY <1>2, <2>2, <3>1, Histories
    <3>3. reply' = log[Open][j].id
      BY <2>2, <3>2
    <3> QED BY <1>1, <3>1, <3>3 DEF Numbered, Target
  <2>3. CASE reply' \in {reply, None}
    <3>1. reply' # None => reply' < next'
      BY <1>1, <2>1, <2>3
    <3>2. up' => Target(log', next', reply', Open')
      BY <1>1, <2>1, <2>3 DEF Target
    <3> QED BY <1>1, <2>1, <3>1, <3>2, QuotesPrimed
  <2>4. CASE up /\ \E i \in DOMAIN messages : reply' = messages[i].id
    BY <1>1, <2>1, <2>2, <2>4, QuotesPrimed
  <2> QED BY <2>1, <2>3, <2>4
<1>4. CASE Clears
  <2>1. /\ up /\ Wipes /\ reply' = reply /\ Open' = Open /\ next' = next
    BY <1>4 DEF Clears, Wipes, Open
  <2>2. Numbered(log', next') /\ Target(log', next', reply, Open)
    BY <1>1, <2>1, WipedNumbered, OpenIsKnown
  <2> QED BY <1>1, <2>1, <2>2, QuotesPrimed
<1>5. CASE Shows \/ Closes
  <2>1. Wipes /\ reply' = None
    BY <1>5 DEF Shows, Closes
  <2>2. Numbered(log', next')
    BY <1>1, <2>1, WipedNumbered
  <2>3. Target(log', next', reply', Open')
    BY <2>1 DEF Target
  <2> QED BY <2>1, <2>2, <2>3, QuotesPrimed
<1>6. ASSUME NEW c \in Chat, NEW q \in 1..MaxMsgs \cup {None}, Posts(c, q) PROVE Quotes'
  <2>1. /\ Insert(c, q) /\ up' = up /\ reply' \in {reply, None}
        /\ q = None \/ (up /\ c = Open /\ q = reply)
    BY <1>6 DEF Posts
  <2>2. Target(log, next, q, c)
    BY <1>1, <2>1 DEF Target
  <2>3. /\ Numbered(log', next')
        /\ \A d \in Chat : Target(log, next, reply, d) => Target(log', next', reply, d)
    BY <1>1, <1>2, <2>1, <2>2, PostedNumbered
  <2>4. up' => Open' = Open /\ Open \in Chat
    BY <1>6, <2>1, PostsStaysOpen, OpenIsKnown
  <2>5. up' => Target(log', next', reply, Open)
    BY <1>1, <2>1, <2>3, <2>4
  <2>6. up' => Target(log', next', reply', Open')
    BY <2>1, <2>4, <2>5 DEF Target
  <2>7. next' = next + 1
    BY <2>1 DEF Insert
  <2>8. reply' # None => reply' < next'
    BY <1>1, <1>2, <2>1, <2>7, BoundAssumption
  <2> QED BY <2>3, <2>6, <2>8, QuotesPrimed
<1> QED BY <1>3, <1>4, <1>5, <1>6 DEF Kind
(* What is carried out is disarmed; what is written disarms everything.    *)
LEMMA ArmedStep ==
  ASSUME Inv, Next
  PROVE  ArmedIsAsked'
<1>1. /\ \A t \in armed : asked[t] # None /\ ~asked[t].wrote
      /\ armed \subseteq Twice /\ asked \in [Twice -> Request \cup {None}]
  BY DEF Inv, ArmedIsAsked, Types, TypeOK, Shape
<1>2. SUFFICES \A t \in armed' : asked'[t] # None /\ ~asked'[t].wrote
  BY DEF ArmedIsAsked
<1> DEFINE Goal == \A t \in armed' : asked'[t] # None /\ ~asked'[t].wrote
<1>3. ASSUME armed' \subseteq armed, asked' = asked PROVE Goal
  BY <1>1, <1>3
<1>4. ASSUME armed' = {} PROVE Goal
  BY <1>4
<1>5. ASSUME NEW cmd \in Twice, armed' = Disarmed(cmd), asked' = [asked EXCEPT ![cmd] = None] PROVE Goal
  <2>1. cmd \notin armed' /\ armed' \subseteq armed
    BY <1>5 DEF Disarmed
  <2>2. \A t \in armed' : asked'[t] = asked[t]
    BY <1>1, <1>5, <2>1
  <2> QED BY <1>1, <2>1, <2>2
<1> HIDE DEF Goal
<1>6. ASSUME Home PROVE Goal
  BY <1>3, <1>4, <1>6 DEF Home, Learn, SyncMessage, OpenChat, screen, ghost
<1>7. ASSUME Frame PROVE Goal
  <2>1. armed' = armed /\ asked' = asked
    BY <1>7 DEF Frame, Deliver, NoMessage, ghost
  <2> QED BY <1>3, <2>1
<1>8. ASSUME Key PROVE Goal
  <2>1. CASE Quit
    BY <1>4, <2>1 DEF Quit, CloseWith
  <2>2. CASE CloseModal \/ Esc \/ CtrlR \/ MoveSelection \/ PickReply \/ SwitchChat
    <3>1. armed' = armed /\ asked' = asked
      BY <2>2 DEF CloseModal, Esc, CtrlR, MoveSelection, PickReply, SwitchChat, ghost
    <3> QED BY <1>3, <3>1
  <2> QED BY <1>8, <2>1, <2>2 DEF Key
<1>9. ASSUME Enter PROVE Goal
  <2>1. CASE (\E cmd, p : Notice(cmd, p)) \/ (\E cmd : OpenModal(cmd)) \/ (\E p : SendImage(p))
    <3>1. armed' \subseteq armed /\ asked' = asked
      BY <2>1 DEF Notice, OpenModal, SendImage, ghost
    <3> QED BY <1>3, <3>1
  <2>2. ASSUME NEW cmd \in Twice, Ask(cmd) PROVE Goal
    <3>1. /\ armed' \subseteq armed \cup {cmd}
          /\ asked' = [asked EXCEPT ![cmd] = [chat |-> Open, wrote |-> FALSE]]
      BY <2>2 DEF Ask
    <3>2. asked'[cmd] = [chat |-> Open, wrote |-> FALSE] /\ \A t \in Twice \ {cmd} : asked'[t] = asked[t]
      BY <1>1, <3>1
    <3>3. [chat |-> Open, wrote |-> FALSE] # None /\ ~[chat |-> Open, wrote |-> FALSE].wrote
      <4>1. [chat |-> Open, wrote |-> FALSE] \in [chat : Chat, wrote : BOOLEAN]
        BY <2>2, OpenIsKnown DEF Ask, Typing, Free
      <4>2. ~[chat |-> Open, wrote |-> FALSE].wrote
        OBVIOUS
      <4> QED BY <4>1, <4>2, NoneAssumption
    <3> QED BY <1>1, <3>1, <3>2, <3>3 DEF Goal
  <2>3. CASE ClearChat
    BY <1>5, <2>3 DEF ClearChat, Twice
  <2>4. ASSUME NEW cmd \in Twice, (cmd = "remove" /\ RemoveContact) \/ GiveUpGroup(cmd) PROVE Goal
    <3>1. Forgotten(cmd)
      BY <2>4, Forgets
    <3>2. CASE CloseWith([asked EXCEPT ![cmd] = None])
      BY <1>4, <3>2 DEF CloseWith
    <3>3. CASE armed' = Disarmed(cmd) /\ asked' = [asked EXCEPT ![cmd] = None]
      BY <1>5, <3>3
    <3> QED BY <3>1, <3>2, <3>3 DEF Forgotten
  <2>5. ASSUME NEW cmd \in Twice, Refused(cmd) PROVE Goal
    BY <1>5, <2>5 DEF Refused
  <2>6. CASE SendText
    <3>1. armed' = {}
      BY <1>1, <2>6 DEF SendText, Passed
    <3> QED BY <1>4, <3>1
  <2> QED BY <1>9, <2>1, <2>2, <2>3, <2>4, <2>5, <2>6 DEF Enter, Twice
<1> QED BY <1>6, <1>7, <1>8, <1>9 DEF Next, Goal

LEMMA InitInv == Init => Inv
<1> SUFFICES ASSUME Init PROVE Inv
  OBVIOUS
<1>1. Types
  <2>1. asked \in [Twice -> Request \cup {None}]
    BY DEF Init
  <2>2. log \in [Chat -> Seq(Message)] /\ \A c \in Chat : log[c] = <<>>
    BY DEF Init
  <2>3. chats = <<>> /\ chats \in Seq(Entry)
    BY DEF Init
  <2>4. TypeOK
    <3>1. next \in 1..(MaxMsgs + 1)
      BY BoundAssumption DEF Init
    <3>2. (\A c \in Chat : DOMAIN log[c] = {}) /\ DOMAIN chats = {}
      BY <2>2, <2>3
    <3>3. known = {} /\ unread = {} /\ unacked = {} /\ up = FALSE /\ pick = 0
          /\ reply = None /\ modal = None /\ armed = {}
      BY DEF Init
    <3> QED BY <3>1, <3>2, <3>3 DEF TypeOK
  <2> QED BY <2>1, <2>2, <2>3, <2>4 DEF Types, Shape
<1>2. ScreenShowsOpenChat /\ ListedAreKnown /\ UnreadIsMarked
  BY DEF Init, ScreenShowsOpenChat, ListedAreKnown, Listed, UnreadIsMarked
<1>3. Quotes
  <2>1. \A c \in Chat : DOMAIN log[c] = {}
    BY DEF Init
  <2>2. reply = None
    BY DEF Init
  <2> QED BY <2>1, <2>2 DEF Quotes, IdsAreGiven, QuoteStaysInChat
<1>4. ArmedIsAsked
  BY DEF Init, ArmedIsAsked
<1> QED BY <1>1, <1>2, <1>3, <1>4 DEF Inv

LEMMA StepInv == Inv /\ [Next]_vars => Inv'
<1> SUFFICES ASSUME Inv, [Next]_vars PROVE Inv'
  OBVIOUS
<1>1. CASE Next
  <2>1. Kind /\ Types'
    BY <1>1, NextKind, TypesStep
  <2> QED BY <1>1, <2>1, ScreenStep, ListStep, QuotesStep, ArmedStep DEF Inv
<1>2. CASE UNCHANGED vars
  BY <1>2 DEF vars, store, screen, ghost, Inv, Types, TypeOK, Shape, ScreenShowsOpenChat,
              ListedAreKnown, Listed, Quotes, IdsAreGiven, QuoteStaysInChat, UnreadIsMarked,
              ArmedIsAsked, Open
<1> QED BY <1>1, <1>2

LEMMA Invariance == Spec => []Inv
BY InitInv, StepInv, PTL DEF Spec

-----------------------------------------------------------------------------
(***************************************************************************)
(* Clearing and forgetting.                                                *)
(***************************************************************************)

(* A step that clears or forgets a chat carries out a command that is      *)
(* armed, and uses up the request for it and no other.                     *)
Carries(cmd) ==
  /\ cmd \in armed
  /\ asked' = [asked EXCEPT ![cmd] = None]

LEMMA ForgottenCarries ==
  ASSUME NEW cmd \in Twice, Forgotten(cmd)
  PROVE  asked' = [asked EXCEPT ![cmd] = None] /\ known' = known \ {Open}
BY DEF Forgotten, CloseWith

(* No other action clears a chat or forgets one.                           *)
LEMMA OthersKeep ==
  ASSUME Inv, Next, ~ClearChat, ~RemoveContact, \A cmd : ~GiveUpGroup(cmd)
  PROVE  \A c \in Chat : ~Cleared(c) /\ ~Forgot(c)
<1>1. log \in [Chat -> Seq(Message)]
  BY DEF Inv, Types, Shape
<1>2. ASSUME log' = log, known \subseteq known' PROVE \A c \in Chat : ~Cleared(c) /\ ~Forgot(c)
  BY <1>2 DEF Cleared, Forgot
<1>3. ASSUME NEW d \in Chat, NEW q \in 1..MaxMsgs \cup {None}, Posts(d, q)
      PROVE  \A c \in Chat : ~Cleared(c) /\ ~Forgot(c)
  <2>1. log'[d] # <<>> /\ \A c \in Chat \ {d} : log'[c] = log[c]
    BY <1>3, Inserts DEF Posts, Inv
  <2>2. known \subseteq known'
    BY <1>3 DEF Posts
  <2> QED BY <2>1, <2>2 DEF Cleared, Forgot
<1>4. ASSUME Home PROVE \A c \in Chat : ~Cleared(c) /\ ~Forgot(c)
  <2>1. CASE \E c \in Chat : Learn(c)
    BY <1>2, <2>1 DEF Learn
  <2>2. CASE \E c \in Chat : SyncMessage(c)
    BY <1>2, <1>3, <2>2, PostsKind DEF Stays
  <2>3. CASE \E c \in Chat, p \in SUBSET Direct : OpenChat(c, p)
    BY <1>2, <2>3 DEF OpenChat
  <2> QED BY <1>4, <2>1, <2>2, <2>3 DEF Home
<1>5. ASSUME Frame PROVE \A c \in Chat : ~Cleared(c) /\ ~Forgot(c)
  <2>1. CASE \E c \in Chat, d \in Direct, acked \in BOOLEAN : Deliver(c, d, acked)
    BY <1>2, <1>3, <2>1, PostsKind DEF Stays
  <2>2. CASE \E g, p : NoMessage(g, p)
    BY <1>2, <2>2 DEF NoMessage
  <2> QED BY <1>5, <2>1, <2>2 DEF Frame
<1>6. ASSUME Key PROVE \A c \in Chat : ~Cleared(c) /\ ~Forgot(c)
  <2>1. log' = log /\ known' = known
    BY <1>6 DEF Key, CloseModal, Esc, Quit, CtrlR, MoveSelection, PickReply, SwitchChat, store
  <2> QED BY <1>2, <2>1
<1>7. ASSUME Enter PROVE \A c \in Chat : ~Cleared(c) /\ ~Forgot(c)
  <2>1. CASE \/ \E cmd, p : Notice(cmd, p)
             \/ \E cmd : OpenModal(cmd) \/ Ask(cmd) \/ Refused(cmd)
    <3>1. Stays
      BY <2>1, StaysKind
    <3> QED BY <1>2, <3>1 DEF Stays
  <2>2. CASE (\E p : SendImage(p)) \/ SendText
    <3>1. Stays \/ \E c \in Chat, q \in 1..MaxMsgs \cup {None} : Posts(c, q)
      BY <2>2, PostsKind
    <3> QED BY <1>2, <1>3, <3>1 DEF Stays
  <2> QED BY <1>7, <2>1, <2>2 DEF Enter
<1> QED BY <1>4, <1>5, <1>6, <1>7 DEF Next

(* Which command it is, and which chat it is done to.                      *)
LEMMA Destruction ==
  ASSUME Inv, Next, NEW c \in Chat, Cleared(c) \/ Forgot(c)
  PROVE  \E cmd \in Twice :
           /\ Carries(cmd)
           /\ Cleared(c) => cmd = "clear"
           /\ Forgot(c) => IF c \in Direct THEN cmd = "remove" ELSE cmd \in {"delete", "leave"}
<1>1. log \in [Chat -> Seq(Message)]
  BY DEF Inv, Types, Shape
<1>2. CASE ClearChat
  <2>1. Carries("clear") /\ known' = known
    BY <1>2 DEF ClearChat, Confirmed, Carries
  <2>2. ~Forgot(c)
    BY <2>1 DEF Forgot
  <2> QED BY <2>1, <2>2 DEF Twice
<1>3. ASSUME NEW cmd \in Twice, (cmd = "remove" /\ RemoveContact) \/ GiveUpGroup(cmd)
      PROVE  \E d \in Twice :
               /\ Carries(d)
               /\ Cleared(c) => d = "clear"
               /\ Forgot(c) => IF c \in Direct THEN d = "remove" ELSE d \in {"delete", "leave"}
  <2>1. /\ Forgotten(cmd) /\ cmd \in armed /\ Open \in known
        /\ c # Open => log'[c] = log[c]
        /\ IF cmd = "remove" THEN Open \in Direct ELSE cmd \in {"delete", "leave"} /\ Open \in Group
    BY <1>3, Forgets
  <2>2. Carries(cmd) /\ known' = known \ {Open}
    BY <2>1, ForgottenCarries DEF Carries
  <2>3. ~Cleared(c)
    BY <2>1, <2>2 DEF Cleared
  <2>4. Forgot(c) => c = Open
    BY <2>2 DEF Forgot
  <2>5. Forgot(c) => IF c \in Direct THEN cmd = "remove" ELSE cmd \in {"delete", "leave"}
    BY <2>1, <2>4, OrderAssumption
  <2> QED BY <2>2, <2>3, <2>5
<1>4. CASE RemoveContact
  BY <1>3, <1>4 DEF Twice
<1>5. CASE \E cmd : GiveUpGroup(cmd)
  BY <1>3, <1>5 DEF GiveUpGroup, Twice
<1> QED BY <1>2, <1>4, <1>5, OthersKeep

(* A command that is carried out uses up its own request, one that nothing *)
(* was written after.                                                      *)
LEMMA CarriesUses ==
  ASSUME Inv, NEW cmd \in Twice, Carries(cmd)
  PROVE  cmd \in Used /\ \A t \in Used : t = cmd /\ ~asked[t].wrote
<1>1. /\ asked \in [Twice -> Request \cup {None}]
      /\ asked[cmd] # None /\ ~asked[cmd].wrote
  BY DEF Inv, Types, Shape, ArmedIsAsked, Carries
<1>2. asked'[cmd] = None /\ \A t \in Twice \ {cmd} : asked'[t] = asked[t]
  BY <1>1 DEF Carries
<1> QED BY <1>1, <1>2 DEF Used

LEMMA Unmoved ==
  ASSUME UNCHANGED vars, NEW c \in Chat
  PROVE  ~Cleared(c) /\ ~Forgot(c)
BY DEF vars, store, Cleared, Forgot

-----------------------------------------------------------------------------
(***************************************************************************)
(* The theorems.                                                           *)
(***************************************************************************)

(* The window and the store hold what their types say.                     *)
THEOREM TypesCorrect == Spec => []TypeOK
BY Invariance, PTL DEF Inv, Types

(* Whatever list rebuilt, switch, clear or frame came last, the screen     *)
(* holds the newest part of the open chat's history.                       *)
THEOREM ScreenIsTheOpenChat == Spec => []ScreenShowsOpenChat
BY Invariance, PTL DEF Inv

(* Every chat of the list is a contact or group of the store, so none that *)
(* was removed, left or deleted can be written to again.                   *)
THEOREM ListHoldsKnownChats == Spec => []ListedAreKnown
BY Invariance, PTL DEF Inv

(* No message quotes one of another chat, and no reply target is one.      *)
THEOREM QuotesStayInTheirChat == Spec => []QuoteStaysInChat
BY Invariance, PTL DEF Inv, Quotes

(* A listed chat with unread messages is marked, unless the connection     *)
(* broke before its message could be acknowledged.                         *)
THEOREM UnreadChatsAreMarked == Spec => []UnreadIsMarked
BY Invariance, PTL DEF Inv

(* Every clear, leave, delete and remove uses up a request made before it. *)
THEOREM DestructionIsAskedTwice == Spec => TwiceAsked
<1>1. Inv /\ [Next]_vars =>
        [\A c \in Chat :
           /\ Cleared(c) => "clear" \in Used
           /\ Forgot(c) => Used \cap (IF c \in Direct THEN {"remove"} ELSE {"delete", "leave"}) # {}]_vars
  <2> SUFFICES ASSUME Inv, [Next]_vars, NEW c \in Chat
               PROVE  /\ Cleared(c) => "clear" \in Used
                      /\ Forgot(c) => Used \cap (IF c \in Direct THEN {"remove"} ELSE {"delete", "leave"}) # {}
    OBVIOUS
  <2>1. CASE Next /\ (Cleared(c) \/ Forgot(c))
    <3>1. PICK cmd \in Twice :
            /\ Carries(cmd)
            /\ Cleared(c) => cmd = "clear"
            /\ Forgot(c) => IF c \in Direct THEN cmd = "remove" ELSE cmd \in {"delete", "leave"}
      BY <2>1, Destruction
    <3>2. cmd \in Used
      BY <3>1, CarriesUses
    <3> QED BY <3>1, <3>2
  <2>2. CASE ~(Cleared(c) \/ Forgot(c))
    BY <2>2
  <2>3. CASE UNCHANGED vars
    BY <2>3, Unmoved
  <2> QED BY <2>1, <2>2, <2>3
<1> QED BY <1>1, Invariance, PTL DEF TwiceAsked, Spec

(* A message written after a request withdraws it: nothing is cleared or   *)
(* forgotten by a request that is older than the user's last message.      *)
THEOREM WritingWithdraws == Spec => MessageWithdraws
<1>1. Inv /\ [Next]_vars =>
        [\A c \in Chat : Cleared(c) \/ Forgot(c) => \A t \in Used : ~asked[t].wrote]_vars
  <2> SUFFICES ASSUME Inv, [Next]_vars, NEW c \in Chat, Cleared(c) \/ Forgot(c)
               PROVE  \A t \in Used : ~asked[t].wrote
    OBVIOUS
  <2>1. Next
    BY Unmoved
  <2>2. PICK cmd \in Twice : Carries(cmd)
    BY <2>1, Destruction
  <2> QED BY <2>2, CarriesUses
<1> QED BY <1>1, Invariance, PTL DEF MessageWithdraws, Spec
=============================================================================
