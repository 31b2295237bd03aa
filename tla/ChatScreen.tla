----------------------------- MODULE ChatScreen -----------------------------
(***************************************************************************)
(* The full-screen chat window of the client (client/src/tui.rs, run) over *)
(* the local store: the list of chats, the open one, the loaded history,   *)
(* reply selection, the modal prompts and the commands that must be typed  *)
(* twice.  One action is one event of the window's select! loop, handled   *)
(* to its end: while a handler awaits the network no other event is taken. *)
(*                                                                         *)
(* A message is its identity and the message it quotes; texts, ticks and   *)
(* scrolling are left out (ticks are in Relay).  The window is closed      *)
(* while the user is on the home screen, whose commands run to completion. *)
(***************************************************************************)
EXTENDS Integers, Sequences, FiniteSets

CONSTANTS
  Direct,       \* 1:1 chats, named by the contact
  Group,        \* group chats
  Order,        \* the chats as load_chats lists them: contacts, then groups
  Window,       \* messages loaded at once (200 in the code)
  MaxMsgs,      \* bound: messages ever stored
  MaxAsks,      \* bound: first entries of commands that are confirmed
  None          \* no message, no chat, no request

Chat == Direct \cup Group
Twice == {"clear", "delete", "leave", "remove"}

ASSUME OrderAssumption ==
  /\ Direct \cap Group = {}
  /\ Order \in Seq(Chat)
  /\ \A c \in Chat : \E i \in DOMAIN Order : Order[i] = c
  /\ \A i, j \in DOMAIN Order : Order[i] = Order[j] => i = j
ASSUME BoundAssumption ==
  /\ Window \in Nat \ {0}
  /\ MaxMsgs \in Nat /\ MaxAsks \in Nat
ASSUME NoneAssumption ==
  /\ None \notin Nat /\ None \notin {"verify", "images"}
  /\ None \notin [chat : Chat, wrote : BOOLEAN]

VARIABLES
  known,      \* the contacts and groups of the local store
  log,        \* its messages, per chat, oldest first
  unread,     \* the chats with a message not marked read
  next,       \* the identity of the next message
  up,         \* whether the window is open; the variables below are its state
  chats,      \* App.chats: entries [id, unread]
  active,     \* App.active
  messages,   \* App.messages: what is on the screen
  pick,       \* App.sel_msg while App.mode is Selecting, 0 while it is Normal
  reply,      \* App.reply_to
  modal,      \* the open prompt: None, "verify" or "images"
  armed,      \* the commands entered once: clear_armed and its siblings
  asked,      \* history: where each was last asked for, and whether the user wrote since
  asks,       \* bound: first entries so far
  unacked     \* history: unread chats with a message whose Ack could not be sent

store == <<known, log, unread, next>>
screen == <<up, chats, active, messages, pick, reply, modal, armed>>
ghost == <<asked, asks, unacked>>
vars == <<store, screen, ghost>>

Open == chats[active].id

TypeOK ==
  /\ known \subseteq Chat /\ unread \subseteq Chat /\ unacked \subseteq Chat
  /\ next \in 1..(MaxMsgs + 1)
  /\ \A c \in Chat : \A i \in DOMAIN log[c] :
       /\ log[c][i].id \in 1..MaxMsgs
       /\ log[c][i].quote \in 1..MaxMsgs \cup {None}
  /\ up \in BOOLEAN
  /\ \A i \in DOMAIN chats : chats[i].id \in Chat /\ chats[i].unread \in BOOLEAN
  /\ up => active \in DOMAIN chats
  /\ pick \in Nat
  /\ reply \in 1..MaxMsgs \cup {None}
  /\ modal \in {None, "verify", "images"}
  /\ armed \subseteq Twice

Init ==
  /\ known = {} /\ log = [c \in Chat |-> <<>>] /\ unread = {} /\ next = 1
  /\ up = FALSE /\ chats = <<>> /\ active = 1 /\ messages = <<>>
  /\ pick = 0 /\ reply = None /\ modal = None /\ armed = {}
  /\ asked = [t \in Twice |-> None] /\ asks = 0 /\ unacked = {}

-----------------------------------------------------------------------------
(* The store as the window reads it.                                       *)

(* Store::history: the newest messages of a chat.                          *)
History(chat, l) ==
  SubSeq(l[chat], Len(l[chat]) - (IF Len(l[chat]) < Window THEN Len(l[chat]) ELSE Window) + 1,
         Len(l[chat]))

(* The contacts and groups k in the order of the lists: how many of them   *)
(* come no later than c, and the one with i of them.                       *)
Place(c) == CHOOSE i \in DOMAIN Order : Order[i] = c
Rank(c, k) == Cardinality({d \in k : Place(d) <= Place(c)})
Nth(k, i) == CHOOSE c \in k : Rank(c, k) = i

(* Mutant: the list is loaded without the counts.                          *)
LoadChatsUncounted(k, u) ==
  [i \in 1..Cardinality(k) |-> [id |-> Nth(k, i), unread |-> FALSE]]

(* load_chats: an entry for every contact and group, with its badge.       *)
LoadChats(k, u) ==
  [i \in 1..Cardinality(k) |-> [id |-> Nth(k, i), unread |-> Nth(k, i) \in u]]

PositionOf(chat, list) == CHOOSE i \in DOMAIN list : list[i].id = chat

Badge(list, chat, on) ==
  [i \in DOMAIN list |-> IF list[i].id = chat THEN [list[i] EXCEPT !.unread = on] ELSE list[i]]

(* insert_message: a new row at the end of the chat's history.             *)
Insert(chat, quote) ==
  /\ next <= MaxMsgs
  /\ log' = [log EXCEPT ![chat] = Append(@, [id |-> next, quote |-> quote])]
  /\ next' = next + 1

-----------------------------------------------------------------------------
(* The home screen: commands run while the window is closed.               *)

(* add, group, or the sync of a message that pins its sender.              *)
Learn(c) ==
  /\ ~up /\ c \notin known
  /\ known' = known \cup {c}
  /\ UNCHANGED <<log, unread, next, screen, ghost>>

(* sync stores a message; nothing marks it read.                           *)
SyncMessage(c) ==
  /\ ~up /\ c \in known
  /\ Insert(c, None)
  /\ unread' = unread \cup {c}
  /\ UNCHANGED <<known, screen, ghost>>

(* run: the list is loaded before the chat is marked read, and before      *)
(* sync_all_groups pins the members of the known groups.                   *)
OpenChat(c, pinned) ==
  /\ ~up /\ c \in known
  /\ pinned # {} => known \cap Group # {}
  /\ known' = known \cup pinned
  /\ up' = TRUE
  /\ chats' = LoadChats(known, unread)
  /\ active' = PositionOf(c, chats')
  /\ messages' = History(c, log)
  /\ unread' = unread \ {c}
  /\ pick' = 0 /\ reply' = None /\ modal' = None /\ armed' = {}
  /\ asked' = [t \in Twice |-> None]
  /\ unacked' = unacked \cap unread'
  /\ UNCHANGED <<log, next, asks>>

(* Leaving the loop drops the window's state.                              *)
CloseWith(a) ==
  /\ up' = FALSE
  /\ chats' = <<>> /\ active' = 1 /\ messages' = <<>>
  /\ pick' = 0 /\ reply' = None /\ modal' = None /\ armed' = {}
  /\ asked' = a

-----------------------------------------------------------------------------
(* Frames of the relay, handled between key presses.                       *)

(* A sender who is no contact is pinned first; a group whose keys were     *)
(* dropped cannot be read.  The entry of a chat that is not listed is not  *)
(* created.  acked = FALSE: the message was stored and its Ack could not   *)
(* be sent, so handle_server_frame returns an error and neither            *)
(* mark_chat_read nor the badge is reached.                                *)
Deliver(c, sender, acked) ==
  /\ up
  /\ c \in Direct => sender = c
  /\ c \in Group => c \in known
  /\ Insert(c, None)
  /\ known' = known \cup {sender}
  /\ IF acked /\ c = Open
     THEN unread' = unread \ {c} /\ UNCHANGED chats
     ELSE /\ unread' = unread \cup {c}
          /\ chats' = IF acked THEN Badge(chats, c, TRUE) ELSE chats
  /\ unacked' = IF acked THEN unacked \ {c} ELSE unacked \cup {c}
  /\ messages' = History(Open, log')
  /\ UNCHANGED <<up, active, pick, reply, modal, armed, asked, asks>>

(* A frame that stores no message: a group's key creates the group's row   *)
(* and pins its members, and even an unreadable message pins its sender.   *)
NoMessage(group, pinned) ==
  /\ up
  /\ known' = known \cup group \cup pinned
  /\ messages' = History(Open, log)
  /\ UNCHANGED <<log, unread, next, up, chats, active, pick, reply, modal, armed, ghost>>

-----------------------------------------------------------------------------
(* Keys.  A modal takes every key; then Esc, then selecting, then input.   *)

Free == up /\ modal = None
Typing == Free /\ pick = 0

CloseModal ==
  /\ up /\ modal # None
  /\ modal' = None
  /\ UNCHANGED <<store, up, chats, active, messages, pick, reply, armed, ghost>>

Esc ==
  /\ Free
  /\ \/ /\ pick # 0
        /\ pick' = 0 /\ UNCHANGED reply
     \/ /\ pick = 0 /\ reply # None
        /\ reply' = None /\ UNCHANGED pick
  /\ UNCHANGED <<store, up, chats, active, messages, modal, armed, ghost>>

(* Ctrl+C, or Esc with nothing to back out of.                             *)
Quit ==
  /\ up
  /\ CloseWith([t \in Twice |-> None])
  /\ UNCHANGED <<store, asks, unacked>>

CtrlR ==
  /\ Free /\ messages # <<>>
  /\ pick' = Len(messages)
  /\ UNCHANGED <<store, up, chats, active, messages, reply, modal, armed, ghost>>

MoveSelection ==
  /\ Free /\ pick # 0
  /\ pick' \in { IF pick > 1 THEN pick - 1 ELSE 1,
                 IF pick < Len(messages) THEN pick + 1 ELSE Len(messages) }
  /\ UNCHANGED <<store, up, chats, active, messages, reply, modal, armed, ghost>>

PickReply ==
  /\ Free /\ pick # 0
  /\ reply' = IF pick \in DOMAIN messages THEN messages[pick].id ELSE None
  /\ pick' = 0
  /\ UNCHANGED <<store, up, chats, active, messages, modal, armed, ghost>>

(* Mutant: the reply target is taken along to the next chat.               *)
SwitchChatWithReply ==
  /\ Typing
  /\ \E step \in {1, Len(chats) - 1} :
       active' = ((active - 1 + step) % Len(chats)) + 1
  /\ LET c == chats[active'].id IN
       /\ messages' = History(c, log)
       /\ unread' = unread \ {c}
       /\ chats' = Badge(chats, c, FALSE)
  /\ unacked' = unacked \cap unread'
  /\ UNCHANGED <<known, log, next, up, pick, reply, modal, armed, asked, asks>>

(* Tab and BackTab.  What was armed stays armed.                           *)
SwitchChat ==
  /\ Typing
  /\ \E step \in {1, Len(chats) - 1} :
       active' = ((active - 1 + step) % Len(chats)) + 1
  /\ LET c == chats[active'].id IN
       /\ messages' = History(c, log)
       /\ unread' = unread \ {c}
       /\ chats' = Badge(chats, c, FALSE)
  /\ reply' = None /\ pick' = 0
  /\ unacked' = unacked \cap unread'
  /\ UNCHANGED <<known, log, next, up, modal, armed, asked, asks>>

-----------------------------------------------------------------------------
(* Enter.  The commands are recognised in the order of the code; each      *)
(* test that fails disarms its own command before the next one is tried.   *)

(* Mutant: nothing disarms /remove but /remove.                            *)
PassedButRemove(cmd) ==
  CASE cmd = "clear" -> {}
    [] cmd \in {"img", "members", "delete"} -> {"clear"}
    [] cmd = "leave" -> {"clear", "delete"}
    [] OTHER -> {"clear", "delete", "leave"}

Passed(cmd) ==
  CASE cmd = "clear" -> {}
    [] cmd \in {"img", "members", "delete"} -> {"clear"}
    [] cmd = "leave" -> {"clear", "delete"}
    [] cmd \in {"verify", "images", "remove"} -> {"clear", "delete", "leave"}
    [] cmd \in {"add", "kick", "text"} -> Twice

Allowed(cmd) ==
  CASE cmd \in {"delete", "leave"} -> Open \in Group
    [] cmd = "remove" -> Open \in Direct
    [] OTHER -> TRUE

(* A command that only answers with a notice: listings, a failed image,    *)
(* member changes (GroupAdmin; they and images pin the group's members),   *)
(* and the commands typed in the wrong kind of chat.                       *)
Notice(cmd, pinned) ==
  /\ Typing
  /\ \/ cmd \in {"members", "images", "img", "add", "kick"}
     \/ cmd = "verify" /\ Open \in Group
     \/ cmd \in {"delete", "leave", "remove"} /\ ~Allowed(cmd)
  /\ pinned # {} => cmd \in {"img", "add", "kick"} /\ Open \in Group
  /\ known' = known \cup pinned
  /\ messages' = IF cmd = "img" THEN History(Open, log) ELSE messages
  /\ armed' = armed \ Passed(cmd)
  /\ UNCHANGED <<log, unread, next, up, chats, active, pick, reply, modal, ghost>>

OpenModal(cmd) ==
  /\ Typing
  /\ \/ cmd = "verify" /\ Open \in Direct
     \/ cmd = "images" /\ messages # <<>>
  /\ modal' = cmd
  /\ armed' = armed \ Passed(cmd)
  /\ UNCHANGED <<store, up, chats, active, messages, pick, reply, ghost>>

(* The first entry arms the command.                                       *)
Ask(cmd) ==
  /\ Typing /\ cmd \in Twice /\ Allowed(cmd)
  /\ cmd \notin armed
  /\ asks < MaxAsks /\ asks' = asks + 1
  /\ armed' = (armed \ Passed(cmd)) \cup {cmd}
  /\ asked' = [asked EXCEPT ![cmd] = [chat |-> Open, wrote |-> FALSE]]
  /\ UNCHANGED <<store, up, chats, active, messages, pick, reply, modal, unacked>>

(* The second entry carries it out.                                        *)
Confirmed(cmd) == Typing /\ Allowed(cmd) /\ cmd \in armed

(* Mutant: a request that is carried out stays armed.                      *)
DisarmedOthers(cmd) == armed \ Passed(cmd)

Disarmed(cmd) == armed \ (Passed(cmd) \cup {cmd})

ClearChat ==
  /\ Confirmed("clear")
  /\ log' = [log EXCEPT ![Open] = <<>>]
  /\ unread' = unread \ {Open}
  /\ messages' = History(Open, log')
  /\ armed' = Disarmed("clear")
  /\ asked' = [asked EXCEPT !["clear"] = None]
  /\ unacked' = unacked \cap unread'
  /\ UNCHANGED <<known, next, up, chats, active, pick, reply, modal, asks>>

(* Mutants of the rebuild: taken before the chat is forgotten; the         *)
(* messages left as they were.                                             *)
RebuiltEarly == LoadChats(known, unread')
ShowFirstKeepsMessages(list) ==
  /\ chats' = list /\ active' = 1
  /\ messages' = messages
  /\ reply' = None /\ pick' = 0

Rebuilt == LoadChats(known', unread')

ShowFirst(list) ==
  /\ chats' = list /\ active' = 1
  /\ messages' = History(list[1].id, log')
  /\ reply' = None /\ pick' = 0

(* The tail of a confirmed delete, leave or remove: the chat is forgotten, *)
(* the list rebuilt and its first chat shown, or the window closed.        *)
Forgotten(cmd) ==
  /\ known' = known \ {Open}
  /\ LET list == Rebuilt
         a == [asked EXCEPT ![cmd] = None]
     IN  IF list = <<>>
         THEN CloseWith(a)
         ELSE /\ ShowFirst(list)
              /\ armed' = Disarmed(cmd)
              /\ asked' = a
              /\ UNCHANGED <<up, modal>>
  /\ unacked' = unacked \cap unread'
  /\ UNCHANGED <<next, asks>>

(* delete_group_in_chat and leave_group_in_chat: the group's row, keys and *)
(* member cache go, its messages stay.                                     *)
GiveUpGroup(cmd) ==
  /\ cmd \in {"delete", "leave"}
  /\ Confirmed(cmd)
  /\ UNCHANGED <<log, unread>>
  /\ Forgotten(cmd)

(* remove_contact_in_chat: whatever the relay answers, the chat is cleared *)
(* and the contact forgotten.                                              *)
RemoveContact ==
  /\ Confirmed("remove")
  /\ log' = [log EXCEPT ![Open] = <<>>]
  /\ unread' = unread \ {Open}
  /\ Forgotten("remove")

(* The relay refuses, or is not reached: only the request is used up.      *)
Refused(cmd) ==
  /\ cmd \in {"delete", "leave"}
  /\ Confirmed(cmd)
  /\ armed' = Disarmed(cmd)
  /\ asked' = [asked EXCEPT ![cmd] = None]
  /\ UNCHANGED <<store, up, chats, active, messages, pick, reply, modal, asks, unacked>>

Wrote == [t \in Twice |-> IF asked[t] = None THEN None ELSE [asked[t] EXCEPT !.wrote = TRUE]]

(* An image quotes nothing and keeps the reply target.                     *)
SendImage(pinned) ==
  /\ Typing
  /\ pinned # {} => Open \in Group
  /\ known' = known \cup pinned
  /\ Insert(Open, None)
  /\ messages' = History(Open, log')
  /\ armed' = armed \ Passed("img")
  /\ UNCHANGED <<unread, up, chats, active, pick, reply, modal, ghost>>

(* A text takes the reply target with it; compose may refuse it (no key,   *)
(* no other member), and the target is gone all the same.                  *)
SendText ==
  /\ Typing
  /\ \/ Insert(Open, reply)
     \/ UNCHANGED <<log, next>>
  /\ messages' = History(Open, log')
  /\ reply' = None
  /\ armed' = armed \ Passed("text")
  /\ asked' = Wrote
  /\ UNCHANGED <<known, unread, up, chats, active, pick, modal, asks, unacked>>

-----------------------------------------------------------------------------
Home == \E c \in Chat : Learn(c) \/ SyncMessage(c) \/ \E p \in SUBSET Direct : OpenChat(c, p)

Frame ==
  \/ \E c \in Chat, d \in Direct, acked \in BOOLEAN : Deliver(c, d, acked)
  \/ \E g \in Group, p \in SUBSET Direct : NoMessage({g}, p)
  \/ \E d \in Direct : NoMessage({}, {d})

Key == CloseModal \/ Esc \/ Quit \/ CtrlR \/ MoveSelection \/ PickReply \/ SwitchChat

Enter ==
  \/ \E cmd \in {"members", "images", "img", "add", "kick", "verify"} \cup Twice,
       p \in SUBSET Direct : Notice(cmd, p)
  \/ \E cmd \in {"verify", "images"} : OpenModal(cmd)
  \/ \E cmd \in Twice : Ask(cmd)
  \/ ClearChat \/ RemoveContact
  \/ \E cmd \in {"delete", "leave"} : GiveUpGroup(cmd) \/ Refused(cmd)
  \/ \E p \in SUBSET Direct : SendImage(p)
  \/ SendText

Next == Home \/ Frame \/ Key \/ Enter

Spec == Init /\ [][Next]_vars

-----------------------------------------------------------------------------
(* Properties.                                                             *)

Listed == {chats[i].id : i \in DOMAIN chats}

(* What is on the screen, and what Ctrl+R picks from, is the newest part   *)
(* of the open chat's history, whatever list rebuilt, switch, clear or     *)
(* frame came last.                                                        *)
ScreenShowsOpenChat == up => messages = History(Open, log)

(* Every chat of the list is a contact or group of the store, so the chat  *)
(* just left, deleted or removed cannot be written to or destroyed again.  *)
ListedAreKnown == Listed \subseteq known

(* A reply target, and the quote of a message written here, is never a     *)
(* message of another chat than the one it is sent to.                     *)
QuoteStaysInChat ==
  /\ up /\ reply # None => \A c \in Chat \ {Open} : \A i \in DOMAIN log[c] : log[c][i].id # reply
  /\ \A c, d \in Chat : \A i \in DOMAIN log[c], j \in DOMAIN log[d] :
       log[c][i].quote = log[d][j].id => c = d

Cleared(c) == log[c] # <<>> /\ log'[c] = <<>> /\ c \in known'
Forgot(c) == c \in known \ known'
Used == {t \in Twice : asked[t] # None /\ asked'[t] = None}

(* Nothing is cleared, left, deleted or removed on a single entry: each    *)
(* destruction uses up a request made for it.                              *)
TwiceAsked ==
  [][\A c \in Chat :
       /\ Cleared(c) => "clear" \in Used
       /\ Forgot(c) => Used \cap (IF c \in Direct THEN {"remove"} ELSE {"delete", "leave"}) # {}]_vars

(* A message written after the request withdraws it: what it asked for is  *)
(* not carried out by the command's next entry.                            *)
MessageWithdraws ==
  [][\A c \in Chat : Cleared(c) \/ Forgot(c) => \A t \in Used : ~asked[t].wrote]_vars

(* A listed chat with unread messages has its badge, except where the      *)
(* connection broke before the message could be acknowledged.              *)
UnreadIsMarked ==
  \A i \in DOMAIN chats :
    chats[i].id \in unread \ unacked => chats[i].unread

(* README.md:125-131 says of each command "confirm twice", of the chat it  *)
(* is typed in: what is destroyed is the chat the request was made in.     *)
ConfirmedHere ==
  [][\A c \in Chat : Cleared(c) \/ Forgot(c) => \A t \in Used : asked[t].chat = c]_vars

=============================================================================
