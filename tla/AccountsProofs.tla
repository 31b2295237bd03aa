--------------------------- MODULE AccountsProofs ---------------------------
(* What Accounts promises, proved for any users and processes and any      *)
(* number of key pairs, sessions and cuts.                                 *)
EXTENDS Accounts, TLAPS

(***************************************************************************)
(* The parts of the inductive invariant.                                   *)
(***************************************************************************)

Registering(p) == cmd[p] \in {"register", "signup"}
AtWork(p) == pc[p] \notin Resting

(* Where a process is, what it runs and what it holds go together.         *)
Shape ==
  \A p \in Proc :
    /\ pc[p] = "idle" <=> cmd[p] = None
    /\ pc[p] = "idle" => api[p] = None
    /\ pc[p] # "idle" => mem[p] \in Content
    /\ pc[p] \in {"register", "session"} => Registering(p)
    /\ pc[p] = "login" => cmd[p] \in {"login", "start"}
    /\ pc[p] = "logout" => cmd[p] = "logout"
    /\ pc[p] = "answer" => cmd[p] # "logout" /\ answer[p] \in Token
    /\ pc[p] = "running" => cmd[p] \in {"start", "signup"}
    /\ pc[p] = "shown" => cmd[p] = "signup"
    /\ fd[p] # None <=> pc[p] \in {"write", "rename"}
    /\ fd[p] = "tmp" => tmp # None

EndedWasIssued == \A t \in ended : issued[t] # None

Types == TypeOK /\ Shape /\ EndedWasIssued

(* The files and what is in memory that the relay has been told of.        *)
InFile(k) == k \in {json, tmp} /\ k \in Content
Known(k) == InFile(k) \/ \E p \in Proc : pc[p] \notin {"idle", "register"} /\ k = mem[p]

(* A keystore is of an account registered with its keys.                   *)
KnownMatch == \A k \in Content : Known(k) => accounts[k.user] = k.id

(* A token is one that the relay issued to the keystore's user.            *)
Ours(k) == k.token # None => issued[k.token] = k.user

TokensOurs ==
  /\ \A k \in Content : InFile(k) => Ours(k)
  /\ \A p \in Proc : pc[p] # "idle" =>
       /\ Ours(mem[p])
       /\ api[p] # None => issued[api[p]] = mem[p].user
       /\ pc[p] = "answer" => issued[answer[p]] = mem[p].user

(* The token that a process is about to write.                             *)
NewToken(p) ==
  CASE pc[p] = "answer" -> answer[p]
    [] pc[p] \in {"open", "write"} -> mem[p].token
    [] OTHER -> None

(* Nobody is ending the session of t, nor is it in the file k.             *)
Spared(t) ==
  /\ t \notin ended
  /\ \A p \in Proc : pc[p] = "logout" => mem[p].token # t
  /\ Readable => json.token # t

(* A token on its way to keystore.json is not ended, is in no file before  *)
(* it is written, and only one process writes it.                          *)
NewTokensSpared ==
  \A p \in Proc : NewToken(p) # None =>
    /\ Spared(NewToken(p))
    /\ tmp \in Content => tmp.token # NewToken(p)
    /\ \A q \in Proc \ {p} : NewToken(q) # NewToken(p)

TmpSpared == tmp \in Content /\ tmp.token # None => Spared(tmp.token)

(* While the keystore still has the token of an ended session, the logout  *)
(* that ended it is on its way to replacing it.                            *)
EndedGoes ==
  cuts = 0 /\ Readable /\ json.token \in ended
    => \E p \in Proc : cmd[p] = "logout" /\ (pc[p] = "open" \/ fd[p] = "tmp")

Sessions == NewTokensSpared /\ TmpSpared /\ EndedGoes

(* While processes take turns.                                             *)
OneAtWork == \A p, q \in Proc : AtWork(p) /\ AtWork(q) => p = q

WorkKeeps ==
  \A p \in Proc : AtWork(p) =>
    /\ Registering(p) => json = None
    /\ ~Registering(p) => Readable /\ mem[p].user = json.user /\ mem[p].id = json.id
    /\ pc[p] \in {"write", "rename"} => fd[p] = "tmp"
    /\ pc[p] = "rename" => tmp = mem[p]

Turns == lone => OneAtWork /\ WorkKeeps

(* The account's keys are in the file or with the process that registers.  *)
HasKeys(u) ==
  \/ Readable /\ json.user = u /\ json.id = accounts[u]
  \/ \E p \in Proc : /\ AtWork(p) /\ Registering(p) /\ pc[p] # "register"
                     /\ mem[p].user = u /\ mem[p].id = accounts[u]

KeysHad == cuts = 0 /\ lone => \A u \in User : accounts[u] \in Id => HasKeys(u)

Inv == Types /\ KnownMatch /\ TokensOurs /\ Sessions /\ Turns /\ KeysHad

-----------------------------------------------------------------------------
(* Contents and values.                                                    *)

LEMMA Values ==
  /\ None \notin User /\ None \notin Id /\ None \notin Token /\ Stranger \notin Id
  /\ None \notin Command /\ None \notin FileName
  /\ Torn \notin Content /\ None \notin Content /\ Torn # None
BY ValueAssumption DEF Id, Token

LEMMA Fields ==
  ASSUME NEW k \in Content
  PROVE  k.user \in User /\ k.id \in Id /\ k.token \in Token \cup {None}
BY DEF Content

LEMMA Retoken ==
  ASSUME NEW k \in Content, NEW t \in Token \cup {None}
  PROVE  LET n == [k EXCEPT !.token = t]
         IN  n \in Content /\ n.user = k.user /\ n.id = k.id /\ n.token = t
BY DEF Content

LEMMA InitInv == Init => Inv
<1> SUFFICES ASSUME Init PROVE Inv
  OBVIOUS
<1> USE Values, BoundAssumption DEF Init
<1>1. Types
  BY DEF Types, TypeOK, Shape, EndedWasIssued, Registering, FileName, Resting
<1>2. KnownMatch /\ TokensOurs
  BY DEF KnownMatch, TokensOurs, Known, InFile
<1>3. Sessions
  BY DEF Sessions, NewTokensSpared, TmpSpared, EndedGoes, NewToken, Readable
<1>4. Turns /\ KeysHad
  BY DEF Turns, OneAtWork, Resting, WorkKeeps, KeysHad, AtWork
<1> QED
  BY <1>1, <1>2, <1>3, <1>4 DEF Inv

-----------------------------------------------------------------------------
(* What a step does, kind by kind: the steps of Next in terms of what the  *)
(* invariant speaks of.                                                    *)

(* A process that a step of another leaves as it is.                       *)
Same(p) ==
  /\ pc'[p] = pc[p] /\ cmd'[p] = cmd[p] /\ mem'[p] = mem[p]
  /\ answer'[p] = answer[p] /\ api'[p] = api[p]

(* Only process p changes, and stays what a process can be.                *)
Only(p) ==
  /\ \A q \in Proc \ {p} : Same(q)
  /\ cmd' \in [Proc -> Command \cup {None}]
  /\ pc' \in [Proc -> Saving \cup Calls \cup {"answer"} \cup Resting]
  /\ mem' \in [Proc -> Content \cup {None}]
  /\ answer' \in [Proc -> Token \cup {None}]
  /\ api' \in [Proc -> Token \cup {None}]

Goes(p, from, to) ==
  /\ pc[p] = from /\ pc'[p] = to
  /\ cmd'[p] = cmd[p] /\ api'[p] = api[p]

(* A process whose command is over.                                        *)
Over(p) == pc'[p] = "idle" /\ cmd'[p] = None /\ api'[p] = None

(* A process whose window shows the keystore k and uses the token t.       *)
Shows(p, k, t) ==
  /\ cmd[p] \in {"start", "signup"}
  /\ pc'[p] = "running" /\ cmd'[p] = cmd[p] /\ mem'[p] = k /\ api'[p] = t

Begins(p) ==
  /\ pc[p] = "idle" /\ Only(p) /\ cmd'[p] \in Command
  /\ mem'[p] \in Content /\ api'[p] = mem'[p].token
  /\ \/ /\ json = None /\ mem'[p].token = None
        /\ pc'[p] = "register" /\ cmd'[p] \in {"register", "signup"}
     \/ /\ Readable /\ mem'[p] = json
        /\ \/ pc'[p] = "login" /\ cmd'[p] \in {"login", "start"}
           \/ pc'[p] = "logout" /\ cmd'[p] = "logout"
  /\ ids' \in Nat
  /\ lone' = (lone /\ \A q \in Proc : pc[q] \in Resting)
  /\ UNCHANGED <<relay, disk, cuts>>

Creates(p) ==
  /\ Goes(p, "register", "session") /\ Only(p) /\ mem' = mem
  /\ accounts[mem[p].user] = None
  /\ accounts' = [accounts EXCEPT ![mem[p].user] = mem[p].id]
  /\ UNCHANGED <<issued, live, ended, disk, ids, cuts, lone>>

Asks(p, t) ==
  /\ Goes(p, pc[p], "answer") /\ pc[p] \in {"session", "login"} /\ Only(p) /\ mem' = mem
  /\ issued[t] = None /\ issued' = [issued EXCEPT ![t] = mem[p].user]
  /\ live' = live \cup {t} /\ answer'[p] = t
  /\ UNCHANGED <<accounts, ended, disk, ids, cuts, lone>>

Takes(p) ==
  /\ Goes(p, "answer", "open") /\ Only(p)
  /\ mem'[p] = [mem[p] EXCEPT !.token = answer[p]]
  /\ UNCHANGED <<relay, disk, ids, cuts, lone>>

Clears(p) ==
  /\ Goes(p, "logout", "open") /\ Only(p)
  /\ mem'[p] = [mem[p] EXCEPT !.token = None]
  /\ \/ /\ live' = live \ {mem[p].token} /\ ended' = ended \cup (live \cap {mem[p].token})
        /\ UNCHANGED cuts
     \/ live' = live /\ ended' = ended /\ Cut
  /\ UNCHANGED <<accounts, issued, disk, ids, lone>>

(* The command ends or the window goes on, with the files as they are.     *)
Leaves(p) ==
  /\ pc[p] # "idle" /\ Only(p) /\ (Over(p) \/ (cmd[p] = "start" /\ Shows(p, mem[p], api[p])))
  /\ fd' \in [Proc -> FileName \cup {None}] /\ fd'[p] = None
  /\ \A q \in Proc \ {p} : fd'[q] = fd[q]
  /\ \/ Cut
     \/ /\ UNCHANGED cuts
        /\ pc[p] \in {"register", "running"} \/ (pc[p] = "rename" /\ tmp = None)
  /\ UNCHANGED <<relay, json, tmp, ids, lone>>

Opens(p) ==
  /\ Goes(p, "open", "write") /\ Only(p) /\ mem' = mem
  /\ tmp' = Torn /\ fd' = [fd EXCEPT ![p] = "tmp"]
  /\ UNCHANGED <<relay, json, ids, cuts, lone>>

Writes(p) ==
  /\ Goes(p, "write", "rename") /\ Only(p) /\ mem' = mem
  /\ \E k \in IF \E q \in Proc \ {p} : fd[q] = fd[p] THEN {mem[p], Torn} ELSE {mem[p]} :
       \/ fd[p] = "tmp" /\ tmp' = k /\ json' = json
       \/ fd[p] = "json" /\ json' = k /\ tmp' = tmp
       \/ fd[p] = "gone" /\ json' = json /\ tmp' = tmp
  /\ UNCHANGED <<relay, fd, ids, cuts, lone>>

Renames(p) ==
  /\ pc[p] = "rename" /\ Only(p) /\ tmp # None
  /\ json' = tmp /\ tmp' = None
  /\ \/ Over(p)
     \/ Shows(p, mem[p], mem[p].token)
     \/ /\ cmd[p] = "signup" /\ pc'[p] = "shown"
        /\ cmd'[p] = cmd[p] /\ mem'[p] = mem[p] /\ api'[p] = api[p]
  /\ fd' \in [Proc -> FileName \cup {None}] /\ fd'[p] = None
  /\ \A q \in Proc \ {p} : fd'[q] # "tmp" /\ (fd'[q] = None <=> fd[q] = None)
  /\ UNCHANGED <<relay, ids, cuts, lone>>

Unlocks(p) ==
  /\ pc[p] = "shown" /\ Only(p)
  /\ Over(p) \/ (json \in Content /\ Shows(p, json, json.token))
  /\ UNCHANGED <<relay, disk, ids, cuts, lone>>

Expires(t) == live' = live \ {t} /\ UNCHANGED <<accounts, issued, ended, disk, client, ids, cuts, lone>>

LEMMA EndedOnly ==
  ASSUME TypeOK, NEW p \in Proc, Ended(p)
  PROVE  Only(p) /\ Over(p)
BY Values DEF TypeOK, Ended, Go, Only, Same, Over, Resting

LEMMA RunningOnly ==
  ASSUME TypeOK, NEW p \in Proc, NEW k \in Content, NEW t \in Token \cup {None}, Running(p, k, t)
  PROVE  /\ Only(p)
         /\ cmd[p] \in {"start", "signup"} => Shows(p, k, t)
BY DEF TypeOK, Running, Go, Only, Same, Shows, Resting

LEMMA NoLoginOnly ==
  ASSUME TypeOK, NEW p \in Proc, mem[p] \in Content, NoLogin(p)
  PROVE  Only(p) /\ (Over(p) \/ (cmd[p] = "start" /\ Shows(p, mem[p], api[p])))
<1>1. api[p] \in Token \cup {None}
  BY DEF TypeOK
<1> QED
  BY <1>1, EndedOnly, RunningOnly DEF NoLogin

LEMMA BeginBegins ==
  ASSUME TypeOK, NEW p \in Proc, NEW c \in Command, NEW l \in Calls, NEW k \in Content, Begin(p, c, l, k)
  PROVE  /\ pc[p] = "idle" /\ Only(p) /\ pc'[p] = l /\ cmd'[p] = c
         /\ mem'[p] = k /\ api'[p] = k.token
         /\ lone' = (lone /\ \A q \in Proc : pc[q] \in Resting)
         /\ UNCHANGED <<relay, disk, cuts>>
BY Fields DEF TypeOK, Begin, Go, Only, Same

LEMMA CommandsBegin ==
  ASSUME Types, NEW p \in Proc, Commands(p)
  PROVE  Begins(p)
<1>1. TypeOK
  BY DEF Types
<1>2. ASSUME NEW u \in User, Register(p, u) PROVE Begins(p)
  <2> DEFINE k == [user |-> u, id |-> ids + 1, token |-> None]
  <2>1. k \in Content
    BY <1>1, <1>2, BoundAssumption DEF Register, Content, Id, TypeOK
  <2>2. k.token = None
    OBVIOUS
  <2>3. PICK c \in {"register", "signup"} : Begin(p, c, "register", k)
    BY <1>2 DEF Register
  <2>4. json = None /\ ids' \in Nat /\ c \in Command
    BY <1>1, <1>2 DEF Register, TypeOK, Command
  <2> HIDE DEF k
  <2> QED
    BY <1>1, <2>1, <2>2, <2>3, <2>4, BeginBegins DEF Begins, Calls
<1>3. ASSUME Readable, UNCHANGED ids, NEW c \in Command, NEW l \in Calls, Begin(p, c, l, json),
             \/ l = "login" /\ c \in {"login", "start"}
             \/ l = "logout" /\ c = "logout"
      PROVE  Begins(p)
  <2>1. json \in Content
    BY <1>1, <1>3 DEF TypeOK, Readable
  <2>2. ids' \in Nat
    BY <1>1, <1>3 DEF TypeOK
  <2> QED
    BY <1>1, <1>3, <2>1, <2>2, BeginBegins DEF Begins
<1>4. (\E n \in User \cup {None} : Login(p, n)) \/ Logout(p) \/ Start(p) => Begins(p)
  BY <1>3 DEF Login, Logout, Start, Command, Calls
<1> QED
  BY <1>2, <1>4 DEF Commands

(* A step of a process, with lone as it was.                               *)
StepKinds(p) ==
  \/ Creates(p) \/ (\E t \in Token : Asks(p, t)) \/ Takes(p) \/ Clears(p)
  \/ Leaves(p) \/ Opens(p) \/ Writes(p) \/ Renames(p) \/ Unlocks(p)

LEMMA CreateKind ==
  ASSUME Types, NEW p \in Proc, CreateUser(p), UNCHANGED lone
  PROVE  Creates(p) \/ Leaves(p)
<1>1. TypeOK /\ pc[p] = "register" /\ fd[p] = None
  BY DEF Types, Shape, CreateUser
<1>2. CASE accounts[mem[p].user] = None
  <2>1. /\ pc' = [pc EXCEPT ![p] = "session"] /\ UNCHANGED <<cmd, mem, answer, api>>
        /\ accounts' = [accounts EXCEPT ![mem[p].user] = mem[p].id]
        /\ UNCHANGED <<issued, live, ended, disk, ids, cuts>>
    BY <1>2 DEF CreateUser, Go
  <2>2. Goes(p, "register", "session") /\ Only(p)
    BY <1>1, <2>1 DEF Goes, Only, Same, TypeOK, Calls
  <2> QED
    BY <1>2, <2>1, <2>2 DEF Creates
<1>3. CASE accounts[mem[p].user] # None
  <2>1. Ended(p) /\ UNCHANGED <<relay, disk, ids, cuts>>
    BY <1>3 DEF CreateUser, relay
  <2> QED
    BY <1>1, <2>1, EndedOnly DEF Leaves, TypeOK, disk
<1> QED
  BY <1>2, <1>3

LEMMA AskKind ==
  ASSUME Types, NEW p \in Proc, RegisterSession(p) \/ LoginSession(p), UNCHANGED lone
  PROVE  \E t \in Token : Asks(p, t)
<1>1. TypeOK
  BY DEF Types
<1>2. PICK t \in Freshest : CreateSession(p, t, mem[p].user)
  BY DEF RegisterSession, LoginSession
<1>3. t \in Token /\ issued[t] = None
  BY DEF Freshest
<1>4. /\ pc' = [pc EXCEPT ![p] = "answer"] /\ answer' = [answer EXCEPT ![p] = t]
      /\ UNCHANGED <<cmd, mem, api>> /\ pc[p] \in {"session", "login"}
  BY <1>2 DEF CreateSession, RegisterSession, LoginSession, Go
<1>5. Goes(p, pc[p], "answer") /\ Only(p) /\ answer'[p] = t
  BY <1>1, <1>3, <1>4 DEF Goes, Only, Same, TypeOK
<1> QED
  BY <1>2, <1>3, <1>4, <1>5 DEF Asks, CreateSession, RegisterSession, LoginSession

LEMMA TakeKind ==
  ASSUME Types, NEW p \in Proc, TakeToken(p), UNCHANGED lone
  PROVE  Takes(p)
<1>1. /\ TypeOK /\ mem[p] \in Content /\ answer[p] \in Token /\ pc[p] = "answer"
  BY DEF Types, Shape, TakeToken
<1>2. [mem[p] EXCEPT !.token = answer[p]] \in Content
  BY <1>1, Retoken
<1>3. mem' = [mem EXCEPT ![p] = [mem[p] EXCEPT !.token = answer[p]]]
  BY DEF TakeToken
<1> QED
  BY <1>1, <1>2, <1>3 DEF TakeToken, Go, Takes, Goes, Only, Same, TypeOK, Saving

LEMMA ClearKind ==
  ASSUME Types, NEW p \in Proc, LogoutCall(p) \/ LogoutSkipped(p), UNCHANGED lone
  PROVE  Clears(p)
<1>1. /\ TypeOK /\ mem[p] \in Content /\ pc[p] = "logout" /\ ClearToken(p)
  BY DEF Types, Shape, LogoutCall, LogoutSkipped
<1>2. [mem[p] EXCEPT !.token = None] \in Content
  BY <1>1, Retoken
<1>3. mem' = [mem EXCEPT ![p] = [mem[p] EXCEPT !.token = None]]
  BY <1>1 DEF ClearToken
<1>4. Goes(p, "logout", "open") /\ Only(p)
  BY <1>1, <1>2, <1>3 DEF ClearToken, Go, Goes, Only, Same, TypeOK, Saving
<1>5. mem'[p] = [mem[p] EXCEPT !.token = None]
  BY <1>1, <1>3 DEF TypeOK
<1> QED
  BY <1>4, <1>5 DEF LogoutCall, LogoutSkipped, Clears, relay

LEMMA LeaveKind ==
  ASSUME Types, NEW p \in Proc, CallFails(p) \/ SaveFails(p) \/ Crash(p) \/ Quit(p), UNCHANGED lone
  PROVE  Leaves(p)
<1>1. TypeOK
  BY DEF Types
<1>2. pc[p] # "idle" /\ mem[p] \in Content
  BY DEF Types, Shape, CallFails, SaveFails, Crash, Quit, Saving
<1>3. Only(p) /\ (Over(p) \/ (cmd[p] = "start" /\ Shows(p, mem[p], api[p])))
  BY <1>1, <1>2, EndedOnly, NoLoginOnly DEF CallFails, SaveFails, SaveFailed, Crash, Quit
<1>4. /\ fd' \in [Proc -> FileName \cup {None}] /\ fd'[p] = None
      /\ \A q \in Proc \ {p} : fd'[q] = fd[q]
  <2>1. CASE CallFails(p) \/ Quit(p)
    BY <1>1, <2>1 DEF CallFails, Quit, disk, TypeOK, Types, Shape
  <2>2. CASE SaveFails(p) \/ Crash(p)
    BY <1>1, <2>2 DEF SaveFails, SaveFailed, Crash, TypeOK
  <2> QED
    BY <2>1, <2>2
<1>5. UNCHANGED <<relay, json, tmp, ids, lone>>
  BY DEF CallFails, SaveFails, SaveFailed, Crash, Quit, disk
<1>6. \/ Cut
      \/ /\ UNCHANGED cuts
         /\ pc[p] \in {"register", "running"} \/ (pc[p] = "rename" /\ tmp = None)
  BY DEF CallFails, SaveFails, SaveFailed, Crash, Quit
<1> QED
  BY <1>2, <1>3, <1>4, <1>5, <1>6 DEF Leaves

LEMMA OpenKind ==
  ASSUME Types, NEW p \in Proc, OpenTmp(p), UNCHANGED lone
  PROVE  Opens(p)
BY DEF Types, TypeOK, OpenTmp, Go, Opens, Goes, Only, Same, Saving

LEMMA WriteKind ==
  ASSUME Types, NEW p \in Proc, WriteTmp(p), UNCHANGED lone
  PROVE  Writes(p)
<1>1. /\ TypeOK /\ pc[p] = "write" /\ fd[p] \in FileName
      /\ pc' = [pc EXCEPT ![p] = "rename"] /\ UNCHANGED <<relay, fd, cmd, mem, answer, api, ids, cuts>>
  BY DEF Types, Shape, TypeOK, WriteTmp, Go
<1>2. Goes(p, "write", "rename") /\ Only(p)
  BY <1>1 DEF Goes, Only, Same, TypeOK, Saving
<1>3. \E k \in IF \E q \in Proc \ {p} : fd[q] = fd[p] THEN {mem[p], Torn} ELSE {mem[p]} :
         \/ fd[p] = "tmp" /\ tmp' = k /\ json' = json
         \/ fd[p] = "json" /\ json' = k /\ tmp' = tmp
         \/ fd[p] = "gone" /\ json' = json /\ tmp' = tmp
  BY <1>1 DEF WriteTmp, FileName
<1> QED
  BY <1>1, <1>2, <1>3 DEF Writes

LEMMA RenameKind ==
  ASSUME Types, NEW p \in Proc, Rename(p), UNCHANGED lone
  PROVE  Renames(p)
<1>1. /\ TypeOK /\ pc[p] = "rename" /\ tmp # None /\ mem[p] \in Content
      /\ json' = tmp /\ tmp' = None /\ Saved(p)
  BY DEF Types, Shape, Rename
<1>2. tmp # Torn => tmp \in Content
  BY <1>1 DEF TypeOK
<1>3. /\ Only(p)
      /\ \/ Over(p)
         \/ Shows(p, mem[p], mem[p].token)
         \/ /\ cmd[p] = "signup" /\ pc'[p] = "shown"
            /\ cmd'[p] = cmd[p] /\ mem'[p] = mem[p] /\ api'[p] = api[p]
  <2>1. CASE cmd[p] = "start"
    BY <1>1, <2>1, Fields, RunningOnly DEF Saved
  <2>2. CASE cmd[p] = "signup"
    <3>1. pc' = [pc EXCEPT ![p] = "shown"] /\ UNCHANGED <<cmd, mem, answer, api>>
      BY <1>1, <2>2 DEF Saved, Go
    <3> QED
      BY <1>1, <2>2, <3>1 DEF Only, Same, TypeOK, Resting
  <2>3. CASE cmd[p] \notin {"start", "signup"}
    BY <1>1, <2>3, EndedOnly DEF Saved
  <2> QED
    BY <2>1, <2>2, <2>3
<1>4. fd' = [q \in Proc |-> CASE q = p -> None
                             [] q # p /\ fd[q] = "tmp" -> "json"
                             [] q # p /\ fd[q] = "json" -> "gone"
                             [] OTHER -> fd[q]]
  BY DEF Rename
<1>5. fd'[p] = None
  BY <1>4
<1>6. ASSUME NEW q \in Proc \ {p}
      PROVE  /\ fd'[q] \in FileName \cup {None} /\ fd'[q] # "tmp"
             /\ fd'[q] = None <=> fd[q] = None
  <2>1. fd[q] \in FileName \cup {None}
    BY <1>1 DEF TypeOK
  <2>2. CASE fd[q] = "tmp"
    BY <1>4, <2>2, Values DEF FileName
  <2>3. CASE fd[q] = "json"
    BY <1>4, <2>3, Values DEF FileName
  <2>4. CASE fd[q] \notin {"tmp", "json"}
    BY <1>4, <2>1, <2>4, Values DEF FileName
  <2> QED
    BY <2>2, <2>3, <2>4
<1>7. fd' \in [Proc -> FileName \cup {None}]
  <2>1. \A q \in Proc : fd'[q] \in FileName \cup {None}
    BY <1>5, <1>6
  <2> QED
    BY <1>4, <2>1
<1> QED
  BY <1>1, <1>3, <1>5, <1>6, <1>7 DEF Rename, Renames

LEMMA UnlockKind ==
  ASSUME Types, NEW p \in Proc, Unlock(p), UNCHANGED lone
  PROVE  Unlocks(p)
<1>1. TypeOK /\ pc[p] = "shown" /\ cmd[p] = "signup"
  BY DEF Types, Shape, Unlock
<1>2. CASE Readable
  <2>1. json \in Content /\ Running(p, json, json.token)
    BY <1>1, <1>2 DEF Unlock, TypeOK, Readable
  <2>2. Only(p) /\ Shows(p, json, json.token)
    BY <1>1, <2>1, Fields, RunningOnly
  <2> QED
    BY <1>1, <2>1, <2>2 DEF Unlock, Unlocks
<1>3. CASE ~Readable
  BY <1>1, <1>3, EndedOnly DEF Unlock, Unlocks
<1> QED
  BY <1>2, <1>3

LEMMA NextKinds ==
  ASSUME Types, [Next]_vars
  PROVE  \/ \E p \in Proc : Begins(p) \/ StepKinds(p)
         \/ \E t \in Token : Expires(t)
         \/ UNCHANGED vars
<1>1. ASSUME NEW p \in Proc, Step(p), UNCHANGED lone PROVE StepKinds(p)
  BY <1>1, CreateKind, AskKind, TakeKind, ClearKind, LeaveKind, OpenKind, WriteKind, RenameKind,
     UnlockKind
     DEF Step, StepKinds
<1>2. ASSUME NEW t \in Token, Expire(t), UNCHANGED lone PROVE Expires(t)
  BY <1>2 DEF Expire, Expires
<1> QED
  BY <1>1, <1>2, CommandsBegin DEF Next

-----------------------------------------------------------------------------
(* Types: what a process is goes with what it holds.                       *)

(* The shape of one process.                                               *)
ShapeOf(p) ==
  /\ pc[p] = "idle" <=> cmd[p] = None
  /\ pc[p] = "idle" => api[p] = None
  /\ pc[p] # "idle" => mem[p] \in Content
  /\ pc[p] \in {"register", "session"} => Registering(p)
  /\ pc[p] = "login" => cmd[p] \in {"login", "start"}
  /\ pc[p] = "logout" => cmd[p] = "logout"
  /\ pc[p] = "answer" => cmd[p] # "logout" /\ answer[p] \in Token
  /\ pc[p] = "running" => cmd[p] \in {"start", "signup"}
  /\ pc[p] = "shown" => cmd[p] = "signup"
  /\ fd[p] # None <=> pc[p] \in {"write", "rename"}
  /\ fd[p] = "tmp" => tmp # None

LEMMA ShapeByProcess == Shape <=> \A p \in Proc : ShapeOf(p)
BY DEF Shape, ShapeOf

(* A process that a step leaves alone keeps its shape, unless the temporary*)
(* file it wrote to is gone.                                               *)
LEMMA SameShape ==
  ASSUME NEW p \in Proc, ShapeOf(p), Same(p),
         \/ fd'[p] = fd[p] /\ (tmp' # None \/ fd[p] # "tmp")
         \/ fd'[p] # "tmp" /\ (fd'[p] = None <=> fd[p] = None)
  PROVE  ShapeOf(p)'
BY DEF ShapeOf, Same, Registering

LEMMA ShapeStep ==
  ASSUME Types, NEW p \in Proc, Begins(p) \/ StepKinds(p)
  PROVE  Shape'
<1>0. TypeOK /\ ShapeOf(p) /\ \A q \in Proc : ShapeOf(q)
  BY ShapeByProcess DEF Types
<1> USE Values DEF Registering
<1>1. ASSUME ShapeOf(p)', \A q \in Proc \ {p} : Same(q),
             \A q \in Proc \ {p} : \/ fd'[q] = fd[q] /\ (tmp' # None \/ fd[q] # "tmp")
                                   \/ fd'[q] # "tmp" /\ (fd'[q] = None <=> fd[q] = None)
      PROVE  Shape'
  BY <1>0, <1>1, SameShape DEF Shape, ShapeOf
<1>2. CASE Begins(p)
  <2>1. fd' = fd /\ tmp' = tmp /\ Only(p)
    BY <1>2 DEF Begins, disk
  <2>2. ShapeOf(p)'
    BY <1>0, <1>2, <2>1 DEF Begins, ShapeOf
  <2> QED
    BY <1>0, <1>1, <2>1, <2>2 DEF Only, ShapeOf
<1>3. CASE Creates(p)
  <2>1. fd' = fd /\ tmp' = tmp /\ Only(p)
    BY <1>3 DEF Creates, disk
  <2>2. ShapeOf(p)'
    BY <1>0, <1>3, <2>1 DEF Creates, Goes, ShapeOf
  <2> QED
    BY <1>0, <1>1, <2>1, <2>2 DEF Only, ShapeOf
<1>4. ASSUME NEW t \in Token, Asks(p, t) PROVE Shape'
  <2>1. fd' = fd /\ tmp' = tmp /\ Only(p)
    BY <1>4 DEF Asks, disk
  <2>2. ShapeOf(p)'
    BY <1>0, <1>4, <2>1 DEF Asks, Goes, ShapeOf
  <2> QED
    BY <1>0, <1>1, <2>1, <2>2 DEF Only, ShapeOf
<1>5. CASE Takes(p)
  <2>1. fd' = fd /\ tmp' = tmp /\ Only(p)
    BY <1>5 DEF Takes, disk
  <2>2. ShapeOf(p)'
    BY <1>0, <1>5, <2>1, Retoken DEF Takes, Goes, ShapeOf
  <2> QED
    BY <1>0, <1>1, <2>1, <2>2 DEF Only, ShapeOf
<1>6. CASE Clears(p)
  <2>1. fd' = fd /\ tmp' = tmp /\ Only(p)
    BY <1>6 DEF Clears, disk
  <2>2. ShapeOf(p)'
    BY <1>0, <1>6, <2>1, Retoken DEF Clears, Goes, ShapeOf
  <2> QED
    BY <1>0, <1>1, <2>1, <2>2 DEF Only, ShapeOf
<1>7. CASE Leaves(p)
  <2>1. ShapeOf(p)'
    BY <1>0, <1>7 DEF Leaves, Over, Shows, ShapeOf, FileName, Command
  <2> QED
    BY <1>0, <1>1, <1>7, <2>1 DEF Leaves, Only, ShapeOf
<1>8. CASE Opens(p)
  <2>1. /\ fd'[p] = "tmp" /\ tmp' # None /\ tmp' = Torn /\ Only(p)
        /\ \A q \in Proc \ {p} : fd'[q] = fd[q]
    BY <1>0, <1>8 DEF Opens, TypeOK
  <2>2. ShapeOf(p)'
    BY <1>0, <1>8, <2>1 DEF Opens, Goes, ShapeOf, FileName
  <2> QED
    BY <1>1, <2>1, <2>2 DEF Only
<1>9. CASE Writes(p)
  <2>1. /\ fd' = fd /\ (tmp' # None \/ tmp' = tmp) /\ Only(p)
    BY <1>0, <1>9 DEF Writes, Goes, ShapeOf
  <2>2. ShapeOf(p)'
    BY <1>0, <1>9, <2>1 DEF Writes, Goes, ShapeOf
  <2> QED
    BY <1>0, <1>1, <2>1, <2>2 DEF Only, ShapeOf
<1>10. CASE Renames(p)
  <2>1. ShapeOf(p)'
    BY <1>0, <1>10 DEF Renames, Over, Shows, ShapeOf, FileName, Command
  <2> QED
    BY <1>1, <1>10, <2>1 DEF Renames, Only
<1>11. CASE Unlocks(p)
  <2>1. fd' = fd /\ tmp' = tmp /\ Only(p)
    BY <1>11 DEF Unlocks, disk
  <2>2. ShapeOf(p)'
    BY <1>0, <1>11, <2>1 DEF Unlocks, Over, Shows, ShapeOf, FileName, Command
  <2> QED
    BY <1>0, <1>1, <2>1, <2>2 DEF Only, ShapeOf
<1> QED
  BY <1>2, <1>3, <1>4, <1>5, <1>6, <1>7, <1>8, <1>9, <1>10, <1>11 DEF StepKinds

LEMMA TypeStep ==
  ASSUME Types, NEW p \in Proc, Begins(p) \/ StepKinds(p)
  PROVE  TypeOK' /\ EndedWasIssued'
<1>0. TypeOK /\ EndedWasIssued /\ ShapeOf(p)
  BY ShapeByProcess DEF Types
<1>1. /\ cmd' \in [Proc -> Command \cup {None}]
      /\ pc' \in [Proc -> Saving \cup Calls \cup {"answer"} \cup Resting]
      /\ mem' \in [Proc -> Content \cup {None}]
      /\ answer' \in [Proc -> Token \cup {None}]
      /\ api' \in [Proc -> Token \cup {None}]
  BY DEF StepKinds, Begins, Creates, Asks, Takes, Clears, Leaves, Opens, Writes, Renames, Unlocks, Only
<1>2. /\ json' \in Content \cup {Torn, None} /\ tmp' \in Content \cup {Torn, None}
      /\ fd' \in [Proc -> FileName \cup {None}]
  <2>1. CASE Begins(p) \/ Creates(p) \/ (\E t \in Token : Asks(p, t)) \/ Takes(p) \/ Clears(p)
    BY <1>0, <2>1 DEF Begins, Creates, Asks, Takes, Clears, disk, TypeOK
  <2>2. CASE Leaves(p) \/ Renames(p)
    BY <1>0, <2>2 DEF Leaves, Renames, TypeOK
  <2>3. CASE Opens(p)
    BY <1>0, <2>3 DEF Opens, TypeOK, FileName
  <2>4. CASE Writes(p)
    BY <1>0, <2>4 DEF Writes, Goes, TypeOK, ShapeOf
  <2>5. CASE Unlocks(p)
    BY <1>0, <2>5 DEF Unlocks, disk, TypeOK
  <2> QED
    BY <2>1, <2>2, <2>3, <2>4, <2>5 DEF StepKinds
<1>3. cuts' \in 0..MaxCuts /\ ids' \in Nat /\ lone' \in BOOLEAN
  <2>1. CASE Begins(p)
    BY <1>0, <2>1 DEF Begins, TypeOK
  <2>2. CASE Leaves(p) \/ Clears(p)
    BY <1>0, <2>2, BoundAssumption DEF Leaves, Clears, Cut, TypeOK
  <2>3. CASE \/ Creates(p) \/ (\E t \in Token : Asks(p, t)) \/ Takes(p)
             \/ Opens(p) \/ Writes(p) \/ Renames(p) \/ Unlocks(p)
    BY <1>0, <2>3 DEF Creates, Asks, Takes, Opens, Writes, Renames, Unlocks, TypeOK
  <2> QED
    BY <2>1, <2>2, <2>3 DEF StepKinds
<1>4. /\ accounts' \in [User -> Id \cup {Stranger, None}]
      /\ issued' \in [Token -> User \cup {None}]
      /\ live' \subseteq {t \in Token : issued'[t] # None}
      /\ ended' \subseteq Token \ live' /\ EndedWasIssued'
  <2>1. CASE Creates(p)
    BY <1>0, <2>1, Fields DEF Creates, Goes, ShapeOf, TypeOK, EndedWasIssued
  <2>2. ASSUME NEW t \in Token, Asks(p, t)
        PROVE  /\ accounts' \in [User -> Id \cup {Stranger, None}]
               /\ issued' \in [Token -> User \cup {None}]
               /\ live' \subseteq {s \in Token : issued'[s] # None}
               /\ ended' \subseteq Token \ live' /\ EndedWasIssued'
    <3>1. mem[p].user \in User /\ mem[p].user # None
      BY <1>0, <2>2, Fields, Values DEF Asks, Goes, ShapeOf
    <3>2. t \notin ended
      BY <1>0, <2>2 DEF Asks, EndedWasIssued
    <3> QED
      BY <1>0, <2>2, <3>1, <3>2 DEF Asks, TypeOK, EndedWasIssued
  <2>3. CASE Clears(p)
    BY <1>0, <2>3 DEF Clears, TypeOK, EndedWasIssued
  <2>4. CASE Begins(p) \/ Takes(p) \/ Leaves(p) \/ Opens(p) \/ Writes(p) \/ Renames(p) \/ Unlocks(p)
    BY <1>0, <2>4 DEF Begins, Takes, Leaves, Opens, Writes, Renames, Unlocks, relay, TypeOK, EndedWasIssued
  <2> QED
    BY <2>1, <2>2, <2>3, <2>4 DEF StepKinds
<1> QED
  BY <1>1, <1>2, <1>3, <1>4 DEF TypeOK

LEMMA TypesStep == Types /\ [Next]_vars => Types'
<1> SUFFICES ASSUME Types, [Next]_vars PROVE Types'
  OBVIOUS
<1>1. ASSUME NEW p \in Proc, Begins(p) \/ StepKinds(p) PROVE Types'
  BY <1>1, ShapeStep, TypeStep DEF Types
<1>2. ASSUME NEW t \in Token, Expires(t) PROVE Types'
  <2>1. TypeOK' /\ EndedWasIssued'
    BY <1>2 DEF Expires, disk, client, Types, TypeOK, EndedWasIssued
  <2>2. Shape'
    BY <1>2 DEF Expires, disk, client, Types, Shape, Registering
  <2> QED
    BY <2>1, <2>2 DEF Types
<1>3. CASE UNCHANGED vars
  <2>1. TypeOK' /\ EndedWasIssued'
    BY <1>3 DEF vars, relay, disk, client, Types, TypeOK, EndedWasIssued
  <2>2. Shape'
    BY <1>3 DEF vars, relay, disk, client, Types, Shape, Registering
  <2> QED
    BY <2>1, <2>2 DEF Types
<1> QED
  BY <1>1, <1>2, <1>3, NextKinds

-----------------------------------------------------------------------------
(* Keystores and accounts.                                                 *)

(* A step makes known only what was known, what is in memory with another  *)
(* token, and what it registers.                                           *)
LEMMA KnownBefore ==
  ASSUME Types, NEW p \in Proc, Begins(p) \/ StepKinds(p), NEW k \in Content, Known(k)'
  PROVE  \/ Creates(p) /\ k = mem[p]
         \/ \E j \in Content : Known(j) /\ j.user = k.user /\ j.id = k.id
<1>0. /\ TypeOK /\ ShapeOf(p) /\ \A q \in Proc : ShapeOf(q)
      /\ k # None /\ k # Torn
  BY ShapeByProcess, Values DEF Types
<1>1. CASE Begins(p)
  BY <1>0, <1>1 DEF Begins, Known, InFile, Only, Same, disk, Readable
<1>2. CASE Creates(p)
  BY <1>0, <1>2 DEF Creates, Goes, Known, InFile, Only, Same, disk
<1>3. ASSUME NEW t \in Token, Asks(p, t) PROVE Known(k)
  BY <1>0, <1>3 DEF Asks, Goes, Known, InFile, Only, Same, disk
<1>4. CASE Takes(p) \/ Clears(p)
  <2>1. mem[p] \in Content /\ Known(mem[p])
    BY <1>0, <1>4 DEF Takes, Clears, Goes, ShapeOf, Known
  <2>2. \E t \in Token \cup {None} : mem'[p] = [mem[p] EXCEPT !.token = t]
    BY <1>0, <1>4 DEF Takes, Clears, Goes, ShapeOf
  <2>3. k = mem'[p] \/ Known(k)
    BY <1>4 DEF Takes, Clears, Known, InFile, Only, Same, disk
  <2>4. mem'[p].user = mem[p].user /\ mem'[p].id = mem[p].id
    BY <2>1, <2>2, Retoken
  <2> QED
    BY <2>1, <2>3, <2>4
<1>5. CASE Leaves(p)
  <2>1. pc[p] # "register" \/ pc'[p] # "running"
    BY <1>0, <1>5 DEF ShapeOf, Shows, Registering, Leaves, Over
  <2> QED
    BY <1>0, <1>5, <2>1 DEF Leaves, Known, InFile, Only, Same, Over, Shows
<1>6. CASE Opens(p)
  BY <1>0, <1>6 DEF Opens, Goes, Known, InFile, Only, Same
<1>7. CASE Writes(p)
  <2>1. Known(mem[p])
    BY <1>7 DEF Writes, Goes, Known
  <2> QED
    BY <1>0, <1>7, <2>1 DEF Writes, Goes, Known, InFile, Only, Same
<1>8. CASE Renames(p)
  BY <1>0, <1>8 DEF Renames, Known, InFile, Only, Same, Over, Shows
<1>9. CASE Unlocks(p)
  BY <1>0, <1>9 DEF Unlocks, Known, InFile, Only, Same, Over, Shows, disk
<1> QED
  BY <1>1, <1>2, <1>3, <1>4, <1>5, <1>6, <1>7, <1>8, <1>9 DEF StepKinds

LEMMA KnownMatchStep == Types /\ KnownMatch /\ [Next]_vars => KnownMatch'
<1> SUFFICES ASSUME Types, KnownMatch, [Next]_vars PROVE KnownMatch'
  OBVIOUS
<1>1. ASSUME NEW p \in Proc, Begins(p) \/ StepKinds(p) PROVE KnownMatch'
  <2> SUFFICES ASSUME NEW k \in Content, Known(k)' PROVE accounts'[k.user] = k.id
    BY DEF KnownMatch
  <2>1. ASSUME NEW j \in Content, Known(j) PROVE accounts'[j.user] = j.id
    <3>1. accounts[j.user] = j.id /\ j.id # None /\ j.user \in User
      BY <2>1, Fields, Values DEF KnownMatch
    <3>2. /\ accounts \in [User -> Id \cup {Stranger, None}]
          /\ \/ accounts' = accounts
             \/ \E u \in User, i \in Id : accounts[u] = None /\ accounts' = [accounts EXCEPT ![u] = i]
      <4>1. CASE Creates(p)
        <5>1. mem[p].user \in User /\ mem[p].id \in Id
          BY <4>1, Fields, ShapeByProcess DEF Types, Creates, Goes, ShapeOf
        <5> QED
          BY <4>1, <5>1 DEF Types, TypeOK, Creates
      <4>2. CASE ~Creates(p)
        BY <1>1, <4>2 DEF Types, TypeOK, StepKinds, Begins, Asks, Takes, Clears, Leaves, Opens, Writes,
           Renames, Unlocks, relay
      <4> QED
        BY <4>1, <4>2
    <3> QED
      BY <3>1, <3>2
  <2>2. CASE Creates(p) /\ k = mem[p]
    BY <2>2, Fields DEF Types, TypeOK, Creates
  <2> QED
    BY <1>1, <2>1, <2>2, KnownBefore
<1>2. ASSUME NEW t \in Token, Expires(t) PROVE KnownMatch'
  BY <1>2 DEF Expires, disk, client, KnownMatch, Known, InFile
<1>3. CASE UNCHANGED vars
  BY <1>3 DEF vars, relay, disk, client, KnownMatch, Known, InFile
<1> QED
  BY <1>1, <1>2, <1>3, NextKinds

-----------------------------------------------------------------------------
(* Tokens and their users.                                                 *)

(* A session keeps its user.                                               *)
LEMMA IssuedKept ==
  ASSUME Types, NEW p \in Proc, Begins(p) \/ StepKinds(p)
  PROVE  \A t \in Token : issued[t] # None => issued'[t] = issued[t]
<1>1. ASSUME NEW t \in Token, Asks(p, t) PROVE \A s \in Token : issued[s] # None => issued'[s] = issued[s]
  BY <1>1 DEF Asks, Types, TypeOK
<1> QED
  BY <1>1 DEF StepKinds, Begins, Creates, Takes, Clears, Leaves, Opens, Writes, Renames, Unlocks, relay

LEMMA OursKept ==
  ASSUME Types, NEW p \in Proc, Begins(p) \/ StepKinds(p), NEW k \in Content, Ours(k)
  PROVE  Ours(k)'
BY IssuedKept, Fields, Values DEF Ours

(* The tokens of one process.                                              *)
TokensOf(p) ==
  pc[p] # "idle" =>
    /\ Ours(mem[p])
    /\ api[p] # None => issued[api[p]] = mem[p].user
    /\ pc[p] = "answer" => issued[answer[p]] = mem[p].user

LEMMA TokensByPlace ==
  TokensOurs <=> (\A k \in Content : InFile(k) => Ours(k)) /\ (\A p \in Proc : TokensOf(p))
BY DEF TokensOurs, TokensOf

LEMMA TokensSame ==
  ASSUME Types, NEW p \in Proc, Begins(p) \/ StepKinds(p), NEW q \in Proc, Same(q), TokensOf(q)
  PROVE  TokensOf(q)'
<1> SUFFICES ASSUME pc[q] # "idle" PROVE TokensOf(q)'
  BY DEF TokensOf, Same
<1>1. /\ mem[q] \in Content /\ mem[q].user # None /\ api[q] \in Token \cup {None}
      /\ pc[q] = "answer" => answer[q] \in Token
  BY Fields, Values, ShapeByProcess DEF Types, TypeOK, ShapeOf
<1>2. Ours(mem[q])'
  BY <1>1, OursKept DEF TokensOf, Ours, Same
<1> QED
  BY <1>1, <1>2, IssuedKept DEF TokensOf, Same

(* What a file holds was in a file before or in the memory of the process. *)
LEMMA FilesBefore ==
  ASSUME Types, NEW p \in Proc, Begins(p) \/ StepKinds(p), NEW k \in Content, InFile(k)'
  PROVE  InFile(k) \/ (pc[p] = "write" /\ k = mem[p])
<1>1. k # None /\ k # Torn
  BY Values
<1>2. CASE Begins(p) \/ Creates(p) \/ (\E t \in Token : Asks(p, t)) \/ Takes(p) \/ Clears(p)
  BY <1>2 DEF Begins, Creates, Asks, Takes, Clears, disk, InFile
<1>3. CASE Leaves(p) \/ Opens(p) \/ Writes(p) \/ Renames(p) \/ Unlocks(p)
  BY <1>1, <1>3 DEF Leaves, Opens, Writes, Renames, Unlocks, Goes, disk, InFile
<1> QED
  BY <1>2, <1>3 DEF StepKinds

LEMMA TokensOwn ==
  ASSUME Types, TokensOurs, NEW p \in Proc, Begins(p) \/ StepKinds(p)
  PROVE  TokensOf(p)'
<1>0. /\ ShapeOf(p) /\ TypeOK /\ TokensOf(p) /\ \A k \in Content : InFile(k) => Ours(k)
      /\ api[p] \in Token \cup {None}
  BY ShapeByProcess, TokensByPlace DEF Types, TypeOK
<1>1. \A t \in Token, u \in User : issued[t] = u => issued'[t] = u
  BY Values, IssuedKept
<1>2. CASE Begins(p)
  <2>1. issued' = issued /\ mem'[p] \in Content /\ (mem'[p].token = None \/ InFile(mem'[p]))
    BY <1>2 DEF Begins, relay, InFile
  <2>2. mem'[p].token # None => issued[mem'[p].token] = mem'[p].user
    BY <1>0, <2>1 DEF Ours
  <2> QED
    BY <1>2, <2>1, <2>2 DEF Begins, TokensOf, Ours
<1>3. ASSUME pc[p] # "idle", mem'[p] = mem[p], pc'[p] # "answer", api'[p] = api[p] PROVE TokensOf(p)'
  <2>1. mem[p] \in Content /\ mem[p].user \in User /\ mem[p].token \in Token \cup {None}
    BY <1>0, <1>3, Fields DEF ShapeOf
  <2> QED
    BY <1>0, <1>1, <1>3, <2>1 DEF TokensOf, Ours
<1>4. CASE Creates(p) \/ Opens(p) \/ Writes(p)
  BY <1>3, <1>4 DEF Creates, Opens, Writes, Goes
<1>5. ASSUME NEW t \in Token, Asks(p, t) PROVE TokensOf(p)'
  <2>1. mem[p] \in Content /\ mem[p].user \in User /\ mem[p].token \in Token \cup {None} /\ mem'[p] = mem[p]
    BY <1>0, <1>5, Fields DEF ShapeOf, Asks
  <2>2. issued'[t] = mem[p].user
    BY <1>0, <1>5 DEF Asks, TypeOK
  <2> QED
    BY <1>0, <1>1, <1>5, <2>1, <2>2 DEF Asks, Goes, TokensOf, Ours
<1>6. ASSUME Takes(p) \/ Clears(p) PROVE TokensOf(p)'
  <2>1. /\ mem[p] \in Content /\ mem[p].user \in User
        /\ pc[p] = "answer" => answer[p] \in Token
    BY <1>0, <1>6, Fields DEF ShapeOf, Takes, Clears, Goes
  <2>2. PICK t \in Token \cup {None} : mem'[p] = [mem[p] EXCEPT !.token = t] /\ ((Takes(p) /\ t = answer[p]) \/ t = None)
    BY <1>6, <2>1 DEF Takes, Clears, Goes
  <2>3. mem'[p].user = mem[p].user /\ mem'[p].token = t
    BY <2>1, <2>2, Retoken
  <2>4. t # None => issued'[t] = mem[p].user
    BY <1>0, <1>1, <2>1, <2>2 DEF TokensOf, Takes, Goes
  <2>5. api'[p] # None => issued'[api'[p]] = mem[p].user
    BY <1>0, <1>1, <1>6, <2>1 DEF TokensOf, Takes, Clears, Goes
  <2> QED
    BY <1>6, <2>3, <2>4, <2>5 DEF TokensOf, Ours, Takes, Clears, Goes
<1>7. CASE Leaves(p)
  BY <1>3, <1>7 DEF Leaves, Over, Shows, TokensOf
<1>8. CASE Renames(p)
  <2>1. CASE Over(p)
    BY <2>1 DEF Over, TokensOf
  <2>2. ASSUME NEW k \in Content, Shows(p, k, k.token), Ours(k) PROVE TokensOf(p)'
    <3>1. k.user \in User /\ k.token \in Token \cup {None}
      BY Fields
    <3> QED
      BY <1>1, <2>2, <3>1 DEF Shows, TokensOf, Ours
  <2>3. mem[p] \in Content /\ Ours(mem[p])
    BY <1>0, <1>8 DEF Renames, ShapeOf, TokensOf
  <2>4. CASE pc'[p] = "shown" /\ mem'[p] = mem[p] /\ api'[p] = api[p]
    BY <1>3, <1>8, <2>4 DEF Renames
  <2> QED
    BY <1>8, <2>1, <2>2, <2>3, <2>4 DEF Renames
<1>9. CASE Unlocks(p)
  <2>1. CASE Over(p)
    BY <2>1 DEF Over, TokensOf
  <2>2. CASE json \in Content /\ Shows(p, json, json.token)
    <3>1. Ours(json) /\ json.user \in User /\ json.token \in Token \cup {None}
      BY <1>0, <2>2, Fields DEF InFile
    <3> QED
      BY <1>1, <2>2, <3>1 DEF Shows, TokensOf, Ours
  <2> QED
    BY <1>9, <2>1, <2>2 DEF Unlocks
<1> QED
  BY <1>2, <1>4, <1>5, <1>6, <1>7, <1>8, <1>9 DEF StepKinds

LEMMA TokensOursStep == Types /\ TokensOurs /\ [Next]_vars => TokensOurs'
<1> SUFFICES ASSUME Types, TokensOurs, [Next]_vars PROVE TokensOurs'
  OBVIOUS
<1>1. ASSUME NEW p \in Proc, Begins(p) \/ StepKinds(p) PROVE TokensOurs'
  <2>1. ASSUME NEW k \in Content, InFile(k)' PROVE Ours(k)'
    <3>1. InFile(k) \/ (pc[p] = "write" /\ k = mem[p])
      BY <1>1, <2>1, FilesBefore
    <3>2. Ours(k)
      BY <3>1 DEF TokensOurs
    <3> QED
      BY <1>1, <3>2, OursKept
  <2>2. ASSUME NEW q \in Proc PROVE TokensOf(q)'
    <3>1. q # p => Same(q)
      BY <1>1 DEF StepKinds, Begins, Creates, Asks, Takes, Clears, Leaves, Opens, Writes, Renames, Unlocks, Only
    <3>2. TokensOf(q)
      BY DEF TokensOurs, TokensOf
    <3> QED
      BY <1>1, <3>1, <3>2, TokensSame, TokensOwn
  <2> QED
    BY <2>1, <2>2 DEF TokensOurs, TokensOf
<1>2. ASSUME NEW t \in Token, Expires(t) PROVE TokensOurs'
  BY <1>2 DEF Expires, disk, client, TokensOurs, Ours, InFile
<1>3. CASE UNCHANGED vars
  BY <1>3 DEF vars, relay, disk, client, TokensOurs, Ours, InFile
<1> QED
  BY <1>1, <1>2, <1>3, NextKinds

-----------------------------------------------------------------------------
(* Sessions and their ends.                                                *)

LEMMA NewTokenType ==
  ASSUME Types, NEW p \in Proc
  PROVE  NewToken(p) \in Token \cup {None}
<1>1. ShapeOf(p)
  BY ShapeByProcess DEF Types
<1> QED
  BY <1>1, Fields DEF ShapeOf, NewToken

LEMMA OthersSame ==
  ASSUME NEW p \in Proc, Begins(p) \/ StepKinds(p), NEW q \in Proc \ {p}
  PROVE  Same(q)
BY DEF StepKinds, Begins, Creates, Asks, Takes, Clears, Leaves, Opens, Writes, Renames, Unlocks, Only

(* A new token is asked for, kept until it is written, or given up.        *)
LEMMA NewTokenStep ==
  ASSUME Types, NEW p \in Proc, Begins(p) \/ StepKinds(p)
  PROVE  /\ \A q \in Proc \ {p} : NewToken(q)' = NewToken(q)
         /\ \/ NewToken(p)' = None
            \/ NewToken(p)' = NewToken(p) /\ (Takes(p) \/ Opens(p))
            \/ \E t \in Token : Asks(p, t) /\ NewToken(p)' = t
<1>1. \A q \in Proc \ {p} : NewToken(q)' = NewToken(q)
  BY OthersSame DEF Same, NewToken
<1>2. ShapeOf(p)
  BY ShapeByProcess DEF Types
<1>3. CASE Begins(p) \/ Creates(p) \/ Leaves(p) \/ Writes(p) \/ Renames(p) \/ Unlocks(p)
  <2>1. pc'[p] \in {"register", "login", "logout", "session", "idle", "shown", "running", "rename"}
    BY <1>3 DEF Begins, Creates, Leaves, Writes, Renames, Unlocks, Goes, Over, Shows
  <2> QED
    BY <1>1, <2>1 DEF NewToken
<1>4. ASSUME NEW t \in Token, Asks(p, t) PROVE NewToken(p)' = t
  BY <1>4 DEF Asks, Goes, NewToken
<1>5. CASE Takes(p)
  <2>1. mem'[p].token = answer[p]
    BY <1>2, <1>5, Retoken DEF Takes, Goes, ShapeOf
  <2> QED
    BY <1>1, <1>5, <2>1 DEF Takes, Goes, NewToken
<1>6. CASE Clears(p)
  <2>1. mem'[p].token = None
    BY <1>2, <1>6, Retoken DEF Clears, Goes, ShapeOf
  <2> QED
    BY <1>1, <1>6, <2>1 DEF Clears, Goes, NewToken
<1>7. CASE Opens(p)
  BY <1>1, <1>7 DEF Opens, Goes, NewToken
<1> QED
  BY <1>1, <1>3, <1>4, <1>5, <1>6, <1>7 DEF StepKinds

(* A token stays spared while no file is made of it.                       *)
LEMMA SparedStep ==
  ASSUME Types, NEW p \in Proc, Begins(p) \/ StepKinds(p),
         NEW t \in Token, Spared(t),
         Renames(p) /\ tmp \in Content => tmp.token # t,
         Writes(p) /\ fd[p] = "json" => mem[p].token # t
  PROVE  Spared(t)'
<1>1. t \notin ended'
  <2>1. ended' = ended \/ (Clears(p) /\ ended' \subseteq ended \cup {mem[p].token})
    BY DEF StepKinds, Begins, Creates, Asks, Takes, Clears, Leaves, Opens, Writes, Renames, Unlocks, relay
  <2> QED
    BY <2>1 DEF Clears, Goes, Spared
<1>2. ASSUME NEW q \in Proc, pc'[q] = "logout" PROVE mem'[q].token # t
  <2>1. CASE q # p
    BY <1>2, <2>1, OthersSame DEF Same, Spared
  <2>2. CASE q = p
    <3>1. Begins(p)
      BY <1>2, <2>2 DEF StepKinds, Creates, Asks, Takes, Clears, Leaves, Opens, Writes, Renames, Unlocks, Goes,
         Over, Shows
    <3> QED
      BY <1>2, <2>2, <3>1 DEF Begins, Spared
  <2> QED
    BY <2>1, <2>2
<1>3. Readable' => json'.token # t
  <2>1. CASE Writes(p)
    BY <2>1 DEF Writes, Spared, Readable
  <2>2. CASE Renames(p)
    BY <2>2 DEF Renames, Readable, Types, TypeOK
  <2>3. CASE ~Writes(p) /\ ~Renames(p)
    BY <2>3 DEF StepKinds, Begins, Creates, Asks, Takes, Clears, Leaves, Opens, Unlocks, disk, Spared,
       Readable
  <2> QED
    BY <2>1, <2>2, <2>3
<1> QED
  BY <1>1, <1>2, <1>3 DEF Spared

(* A token never issued before is spared, and nobody holds it.             *)
LEMMA FreshSpared ==
  ASSUME Types, TokensOurs, NEW t \in Token, issued[t] = None
  PROVE  /\ Spared(t)
         /\ tmp \in Content => tmp.token # t
         /\ \A q \in Proc : NewToken(q) # t
<1>0. /\ \A q \in Proc : ShapeOf(q)
      /\ \A k \in Content : Ours(k) => k.token # t
  BY Fields, Values, ShapeByProcess DEF Types, Ours
<1>1. /\ Readable => json.token # t
      /\ tmp \in Content => tmp.token # t
  BY <1>0 DEF Types, TypeOK, Readable, TokensOurs, InFile
<1>2. ASSUME NEW q \in Proc, pc[q] # "idle" PROVE mem[q].token # t
  BY <1>0, <1>2 DEF TokensOurs, ShapeOf
<1>3. ASSUME NEW q \in Proc, pc[q] = "answer" PROVE answer[q] # t
  BY <1>0, <1>3, Fields, Values DEF TokensOurs, ShapeOf
<1>4. t \notin ended
  BY DEF Types, EndedWasIssued
<1> QED
  BY <1>1, <1>2, <1>3, <1>4, Values DEF Spared, NewToken

LEMMA NewTokensSparedStep ==
  ASSUME Types, TokensOurs, NewTokensSpared, NEW p \in Proc, Begins(p) \/ StepKinds(p)
  PROVE  NewTokensSpared'
<1>0. \A q \in Proc : NewToken(q) \in Token \cup {None}
  BY NewTokenType
<1>1. ASSUME NEW q \in Proc, NewToken(q)' # None PROVE Spared(NewToken(q))'
  <2>1. PICK t : t = NewToken(q)'
    OBVIOUS
  <2>2. CASE t = NewToken(q) /\ (q # p \/ Takes(p) \/ Opens(p))
    <3>1. t \in Token /\ Spared(t) /\ (tmp \in Content => tmp.token # t)
      BY <1>0, <1>1, <2>1, <2>2 DEF NewTokensSpared
    <3>2. Writes(p) => q # p /\ NewToken(p) = mem[p].token
      BY <2>2 DEF Writes, Takes, Opens, Goes, NewToken
    <3>3. Writes(p) => mem[p].token # t
      BY <1>1, <2>1, <2>2, <3>2 DEF NewTokensSpared
    <3>4. Spared(t)'
      BY <3>1, <3>3, SparedStep
    <3> QED
      BY <2>1, <3>4 DEF Spared
  <2>3. ASSUME Asks(p, t), t \in Token PROVE Spared(NewToken(q))'
    <3>1. Spared(t)
      BY <2>3, FreshSpared DEF Asks
    <3>2. ~Renames(p) /\ ~Writes(p)
      BY <2>3 DEF Renames, Writes, Asks, Goes
    <3>3. Spared(t)'
      BY <2>3, <3>1, <3>2, SparedStep
    <3> QED
      BY <2>1, <3>3 DEF Spared
  <2> QED
    BY <1>1, <2>1, <2>2, <2>3, NewTokenStep
<1>2. ASSUME NEW q \in Proc, NewToken(q)' # None, tmp' \in Content PROVE tmp'.token # NewToken(q)'
  <2>1. \/ tmp' = tmp
        \/ Writes(p) /\ tmp' = mem[p] /\ NewToken(p) = mem[p].token
    <3>1. tmp' # Torn /\ tmp' # None
      BY <1>2, Values
    <3> QED
      BY <3>1 DEF StepKinds, Begins, Creates, Asks, Takes, Clears, Leaves, Opens, Writes, Renames, Unlocks, disk,
         Goes, NewToken
  <2>2. ASSUME NewToken(q)' = NewToken(q) PROVE tmp'.token # NewToken(q)'
    <3>1. Writes(p) => q # p
      BY <1>2 DEF Writes, Goes, NewToken
    <3> QED
      BY <1>2, <2>1, <2>2, <3>1 DEF NewTokensSpared
  <2>3. ASSUME NEW t \in Token, Asks(p, t), NewToken(q)' = t PROVE tmp'.token # NewToken(q)'
    <3>1. tmp' = tmp /\ issued[t] = None
      BY <2>3 DEF Asks, disk
    <3> QED
      BY <1>2, <2>3, <3>1, FreshSpared
  <2> QED
    BY <1>2, <2>2, <2>3, NewTokenStep
<1>3. ASSUME NEW q \in Proc, NEW r \in Proc \ {q}, NewToken(q)' # None
      PROVE  NewToken(r)' # NewToken(q)'
  <2>1. CASE NewToken(p)' \in {None, NewToken(p)}
    BY <1>3, <2>1, NewTokenStep DEF NewTokensSpared
  <2>2. ASSUME NEW t \in Token, Asks(p, t), NewToken(p)' = t PROVE NewToken(r)' # NewToken(q)'
    <3>1. issued[t] = None
      BY <2>2 DEF Asks
    <3>2. \A s \in Proc : NewToken(s) # t
      BY <3>1, FreshSpared
    <3> QED
      BY <1>3, <2>2, <3>2, NewTokenStep DEF NewTokensSpared
  <2> QED
    BY <2>1, <2>2, NewTokenStep
<1> QED
  BY <1>1, <1>2, <1>3 DEF NewTokensSpared

LEMMA TmpSparedStep ==
  ASSUME Types, NewTokensSpared, TmpSpared, NEW p \in Proc, Begins(p) \/ StepKinds(p)
  PROVE  TmpSpared'
<1> SUFFICES ASSUME tmp' \in Content, tmp'.token # None PROVE Spared(tmp.token)'
  BY DEF TmpSpared
<1>1. PICK t : t = tmp'.token
  OBVIOUS
<1>2. t \in Token /\ tmp' # Torn /\ tmp' # None
  BY <1>1, Fields, Values
<1>3. ~Renames(p)
  BY <1>2 DEF Renames
<1>4. CASE tmp' = tmp
  <2>1. Writes(p) => NewToken(p) = mem[p].token
    BY DEF Writes, Goes, NewToken
  <2>2. Writes(p) => mem[p].token # t
    BY <1>1, <1>2, <1>4, <2>1, Values DEF NewTokensSpared
  <2>3. Spared(t)'
    BY <1>1, <1>2, <1>3, <1>4, <2>2, SparedStep DEF TmpSpared
  <2> QED
    BY <1>1, <2>3 DEF Spared
<1>5. CASE tmp' # tmp
  <2>1. Writes(p) /\ fd[p] = "tmp" /\ tmp' = mem[p] /\ NewToken(p) = t
    BY <1>1, <1>2, <1>3, <1>5 DEF StepKinds, Begins, Creates, Asks, Takes, Clears, Leaves, Opens, Writes,
       Unlocks, disk, Goes, NewToken
  <2>2. Spared(t)'
    BY <1>2, <1>3, <2>1, SparedStep, Values DEF NewTokensSpared
  <2> QED
    BY <1>1, <2>2 DEF Spared
<1> QED
  BY <1>4, <1>5

(* Nothing was cut in a step after which nothing ever was.                 *)
LEMMA NoCut ==
  ASSUME Types, NEW p \in Proc, Begins(p) \/ StepKinds(p), cuts' = 0
  PROVE  cuts = 0 /\ ~Cut
<1>1. cuts \in Nat
  BY BoundAssumption DEF Types, TypeOK
<1>2. ~Cut
  BY <1>1 DEF Cut
<1>3. cuts' = cuts
  BY <1>2 DEF StepKinds, Begins, Creates, Asks, Takes, Clears, Leaves, Opens, Writes, Renames, Unlocks
<1> QED
  BY <1>2, <1>3

LEMMA EndedGoesStep ==
  ASSUME Types, NewTokensSpared, TmpSpared, EndedGoes, NEW p \in Proc, Begins(p) \/ StepKinds(p)
  PROVE  EndedGoes'
<1> SUFFICES ASSUME cuts' = 0, Readable', json'.token \in ended'
             PROVE  \E q \in Proc : cmd'[q] = "logout" /\ (pc'[q] = "open" \/ fd'[q] = "tmp")
  BY DEF EndedGoes
<1>0. /\ TypeOK /\ ShapeOf(p) /\ cuts \in Nat
      /\ ended \subseteq Token /\ None \notin Token
  BY ShapeByProcess, Values, BoundAssumption DEF Types, TypeOK
<1>1. cuts = 0 /\ ~Cut
  BY NoCut
<1>2. ~Renames(p)
  <2> SUFFICES ASSUME Renames(p) PROVE FALSE
    OBVIOUS
  <2>1. /\ tmp \in Content /\ tmp.token \in ended /\ tmp.token # None
    BY <1>0 DEF Renames, relay, Readable, TypeOK
  <2> QED
    BY <2>1 DEF TmpSpared, Spared
<1>3. ~(Writes(p) /\ fd[p] = "json")
  <2> SUFFICES ASSUME Writes(p), fd[p] = "json" PROVE FALSE
    OBVIOUS
  <2>1. json' = mem[p] /\ mem[p].token \in ended /\ mem[p].token # None
    BY <1>0 DEF Writes, relay, Readable
  <2>2. NewToken(p) = mem[p].token
    BY DEF Writes, Goes, NewToken
  <2> QED
    BY <2>1, <2>2 DEF NewTokensSpared, Spared
<1>4. json' = json /\ Readable
  BY <1>2, <1>3 DEF StepKinds, Begins, Creates, Asks, Takes, Clears, Leaves, Opens, Writes, Unlocks, Readable,
     disk
<1>5. CASE Clears(p)
  BY <1>0, <1>5 DEF Clears, Goes, ShapeOf
<1>6. CASE ~Clears(p)
  <2>1. ended' = ended
    BY <1>6 DEF StepKinds, Begins, Creates, Asks, Takes, Leaves, Opens, Writes, Renames, Unlocks, relay
  <2>2. PICK q \in Proc : cmd[q] = "logout" /\ (pc[q] = "open" \/ fd[q] = "tmp")
    BY <1>1, <1>4, <2>1 DEF EndedGoes
  <2>3. ShapeOf(q)
    BY ShapeByProcess DEF Types
  <2>4. CASE q # p
    <3>1. cmd'[q] = cmd[q] /\ pc'[q] = pc[q]
      BY <2>4, OthersSame DEF Same
    <3>2. fd'[q] = fd[q]
      BY <1>0, <1>2, <2>4 DEF StepKinds, Begins, Creates, Asks, Takes, Clears, Leaves, Opens, Writes,
         Unlocks, disk, TypeOK
    <3> QED
      BY <2>2, <3>1, <3>2
  <2>5. CASE q = p
    <3>1. pc[p] \in {"open", "write", "rename"} /\ (pc[p] # "open" => fd[p] = "tmp" /\ tmp # None)
      BY <2>2, <2>3, <2>5, Values DEF ShapeOf, FileName
    <3>2. Opens(p) \/ Writes(p)
      BY <1>1, <1>2, <1>6, <3>1 DEF StepKinds, Begins, Creates, Asks, Takes, Leaves, Unlocks, Goes
    <3>3. cmd'[p] = cmd[p] /\ fd'[p] = "tmp"
      BY <1>0, <3>1, <3>2 DEF Opens, Writes, Goes, TypeOK
    <3> QED
      BY <2>2, <2>5, <3>3
  <2> QED
    BY <2>4, <2>5
<1> QED
  BY <1>5, <1>6

LEMMA SessionsStep == Types /\ TokensOurs /\ Sessions /\ [Next]_vars => Sessions'
<1> SUFFICES ASSUME Types, TokensOurs, Sessions, [Next]_vars PROVE Sessions'
  OBVIOUS
<1>1. ASSUME NEW p \in Proc, Begins(p) \/ StepKinds(p) PROVE Sessions'
  BY <1>1, NewTokensSparedStep, TmpSparedStep, EndedGoesStep DEF Sessions
<1>2. ASSUME NEW t \in Token, Expires(t) PROVE Sessions'
  BY <1>2 DEF Expires, disk, client, Sessions, NewTokensSpared, TmpSpared, EndedGoes, NewToken, Spared,
     Readable
<1>3. CASE UNCHANGED vars
  BY <1>3 DEF vars, relay, disk, client, Sessions, NewTokensSpared, TmpSpared, EndedGoes, NewToken, Spared,
     Readable
<1> QED
  BY <1>1, <1>2, <1>3, NextKinds

-----------------------------------------------------------------------------
(* While processes take turns.                                             *)

LEMMA LoneStep ==
  ASSUME NEW p \in Proc, Begins(p) \/ StepKinds(p), lone'
  PROVE  /\ lone
         /\ Begins(p) => \A q \in Proc : ~AtWork(q)
         /\ StepKinds(p) => AtWork(p) \/ pc[p] \in {"shown", "running"}
BY DEF StepKinds, Begins, Creates, Asks, Takes, Clears, Leaves, Opens, Writes, Renames, Unlocks, Goes, AtWork, Resting,
   Resting

LEMMA OneAtWorkStep ==
  ASSUME Types, Turns, NEW p \in Proc, Begins(p) \/ StepKinds(p), lone'
  PROVE  OneAtWork'
<1>1. OneAtWork /\ lone
  BY LoneStep DEF Turns
<1>2. AtWork(p)' => (AtWork(p) \/ Begins(p))
  BY DEF StepKinds, Begins, Creates, Asks, Takes, Clears, Leaves, Opens, Writes, Renames, Unlocks, Goes, AtWork, Resting,
     Over, Shows, Resting
<1>3. \A q \in Proc \ {p} : AtWork(q)' = AtWork(q)
  BY OthersSame DEF Same, AtWork, Resting
<1> QED
  BY <1>1, <1>2, <1>3, LoneStep DEF OneAtWork

(* Another process at work while this one steps would be a second one.     *)
LEMMA OthersRest ==
  ASSUME Turns, lone, NEW p \in Proc, AtWork(p), NEW q \in Proc \ {p}
  PROVE  ~AtWork(q)
BY DEF Turns, OneAtWork

WorkKept(p) ==
  AtWork(p) =>
    /\ Registering(p) => json = None
    /\ ~Registering(p) => Readable /\ mem[p].user = json.user /\ mem[p].id = json.id
    /\ pc[p] \in {"write", "rename"} => fd[p] = "tmp"
    /\ pc[p] = "rename" => tmp = mem[p]

LEMMA WorkKeepsStep ==
  ASSUME Types, Turns, NEW p \in Proc, Begins(p) \/ StepKinds(p), lone'
  PROVE  WorkKeeps'
<1>0. /\ TypeOK /\ ShapeOf(p) /\ lone /\ WorkKept(p)
      /\ \A q \in Proc : ShapeOf(q)
  BY ShapeByProcess, LoneStep DEF Types, Turns, WorkKeeps, WorkKept
<1>1. ASSUME NEW q \in Proc \ {p}, AtWork(q)' PROVE WorkKept(q)'
  <2>1. AtWork(q) /\ Same(q)
    BY <1>1, OthersSame DEF Same, AtWork, Resting
  <2>2. ~Begins(p) /\ ~AtWork(p)
    BY <1>1, <2>1, LoneStep, OthersRest
  <2>3. (Leaves(p) /\ pc[p] \in {"shown", "running"}) \/ Unlocks(p)
    BY <2>2, LoneStep DEF StepKinds, Creates, Asks, Takes, Clears, Opens, Writes, Renames, Goes
  <2>4. WorkKept(q)
    BY <1>0 DEF Turns, WorkKeeps, WorkKept
  <2> QED
    BY <2>1, <2>3, <2>4 DEF WorkKept, Leaves, Unlocks, Same, Registering, AtWork, Resting, Readable, disk
<1>2. WorkKept(p)'
  <2>1. CASE Begins(p)
    BY <1>0, <2>1 DEF Begins, WorkKept, AtWork, Resting, Registering, Readable, disk
  <2>2. CASE Creates(p) \/ (\E t \in Token : Asks(p, t))
    BY <1>0, <2>2 DEF Creates, Asks, Goes, WorkKept, AtWork, Resting, Registering, Readable, disk
  <2>3. CASE Takes(p) \/ Clears(p)
    <3>1. /\ mem[p] \in Content /\ UNCHANGED disk /\ AtWork(p)
          /\ pc'[p] = "open" /\ cmd'[p] = cmd[p]
          /\ \E t \in Token \cup {None} : mem'[p] = [mem[p] EXCEPT !.token = t]
      BY <1>0, <2>3 DEF Takes, Clears, Goes, ShapeOf, AtWork, Resting
    <3>2. mem'[p].user = mem[p].user /\ mem'[p].id = mem[p].id
      BY <3>1, Retoken
    <3> QED
      BY <1>0, <3>1, <3>2 DEF WorkKept, AtWork, Resting, Registering, Readable, disk
  <2>4. CASE Leaves(p) \/ Renames(p) \/ Unlocks(p)
    BY <2>4 DEF Leaves, Renames, Unlocks, Over, Shows, WorkKept, AtWork, Resting
  <2>5. CASE Opens(p)
    BY <1>0, <2>5 DEF Opens, Goes, TypeOK, WorkKept, AtWork, Resting, Registering, Readable
  <2>6. CASE Writes(p)
    <3>1. AtWork(p) /\ pc[p] = "write" /\ fd[p] = "tmp"
      BY <1>0, <2>6 DEF Writes, Goes, AtWork, Resting, WorkKept
    <3>2. \A q \in Proc \ {p} : fd[q] = None
      BY <1>0, <3>1, OthersRest DEF AtWork, Resting, ShapeOf
    <3>3. tmp' = mem[p] /\ json' = json /\ fd' = fd /\ mem' = mem
      BY <2>6, <3>1, <3>2, Values DEF Writes, FileName
    <3> QED
      BY <1>0, <2>6, <3>1, <3>3 DEF Writes, Goes, WorkKept, AtWork, Resting, Registering, Readable
  <2> QED
    BY <2>1, <2>2, <2>3, <2>4, <2>5, <2>6 DEF StepKinds
<1> QED
  BY <1>1, <1>2 DEF WorkKeeps, WorkKept

LEMMA TurnsStep == Types /\ Turns /\ [Next]_vars => Turns'
<1> SUFFICES ASSUME Types, Turns, [Next]_vars PROVE Turns'
  OBVIOUS
<1>1. ASSUME NEW p \in Proc, Begins(p) \/ StepKinds(p) PROVE Turns'
  BY <1>1, OneAtWorkStep, WorkKeepsStep DEF Turns
<1>2. ASSUME NEW t \in Token, Expires(t) PROVE Turns'
  BY <1>2 DEF Expires, disk, client, Turns, OneAtWork, Resting, WorkKeeps, AtWork, Registering, Readable
<1>3. CASE UNCHANGED vars
  BY <1>3 DEF vars, disk, client, Turns, OneAtWork, Resting, WorkKeeps, AtWork, Registering, Readable
<1> QED
  BY <1>1, <1>2, <1>3, NextKinds

(* The keys of an account are in the file or with the process that         *)
(* registers it, and the file is only written by processes with its keys.  *)
LEMMA KeysHadStep ==
  ASSUME Types, Turns, KeysHad, NEW p \in Proc, Begins(p) \/ StepKinds(p)
  PROVE  KeysHad'
<1> SUFFICES ASSUME cuts' = 0, lone', NEW u \in User, accounts'[u] \in Id
             PROVE  HasKeys(u)'
  BY DEF KeysHad
<1>0. /\ TypeOK /\ ShapeOf(p) /\ lone /\ cuts \in Nat /\ WorkKept(p) /\ WorkKept(p)'
      /\ OneAtWork
  <2>1. WorkKeeps'
    BY WorkKeepsStep
  <2> QED
    BY <2>1, ShapeByProcess, LoneStep DEF Types, TypeOK, Turns, WorkKeeps, WorkKept
<1>1. cuts = 0 /\ ~Cut
  BY NoCut
<1>2. CASE Creates(p)
  <2>1. mem[p] \in Content /\ Registering(p) /\ mem[p].user \in User
    BY <1>0, <1>2, Fields DEF Creates, Goes, ShapeOf
  <2>2. CASE u = mem[p].user
    BY <1>0, <1>2, <2>1, <2>2 DEF Creates, Goes, HasKeys, AtWork, Resting, Registering, TypeOK
  (* The keystore of any other account is the one file there is: none.     *)
  <2>3. CASE u # mem[p].user
    <3>1. accounts'[u] = accounts[u] /\ json = None
      BY <1>0, <1>2, <2>1, <2>3 DEF Creates, Goes, TypeOK, WorkKept, AtWork, Resting
    <3>2. HasKeys(u)
      BY <1>0, <1>1, <3>1 DEF KeysHad
    <3>3. \A q \in Proc : AtWork(q) => q = p
      BY <1>0, <1>2 DEF OneAtWork, Resting, Creates, Goes, AtWork
    <3> QED
      BY <1>2, <2>3, <3>1, <3>2, <3>3 DEF HasKeys, Readable, Creates, Goes
  <2> QED
    BY <2>2, <2>3
<1>3. CASE ~Creates(p)
  <2>1. accounts' = accounts /\ HasKeys(u)
    BY <1>0, <1>1, <1>3 DEF StepKinds, Begins, Asks, Takes, Clears, Leaves, Opens, Writes, Renames, Unlocks, relay,
       KeysHad
  <2>2. CASE Readable /\ json.user = u /\ json.id = accounts[u]
    <3>1. Readable' /\ json'.user = json.user /\ json'.id = json.id
      <4>1. CASE Renames(p)
        <5>1. tmp = mem[p] /\ mem[p] \in Content /\ ~Registering(p)
          BY <1>0, <2>2, <4>1 DEF Renames, WorkKept, AtWork, Resting, ShapeOf, Readable
        <5> QED
          BY <1>0, <4>1, <5>1, Values DEF Renames, WorkKept, AtWork, Resting, Readable
      <4>2. CASE Writes(p)
        <5>1. fd[p] = "tmp"
          BY <1>0, <4>2 DEF Writes, Goes, WorkKept, AtWork, Resting
        <5> QED
          BY <2>2, <4>2, <5>1 DEF Writes, Readable
      <4>3. CASE ~Renames(p) /\ ~Writes(p)
        BY <2>2, <4>3 DEF StepKinds, Begins, Creates, Asks, Takes, Clears, Leaves, Opens, Unlocks, disk,
           Readable
      <4> QED
        BY <4>1, <4>2, <4>3
    <3> QED
      BY <2>1, <2>2, <3>1 DEF HasKeys
  <2>3. ASSUME NEW q \in Proc, AtWork(q), Registering(q), pc[q] # "register",
               mem[q].user = u, mem[q].id = accounts[u]
        PROVE  HasKeys(u)'
    <3>1. CASE q # p
      <4>1. Same(q)
        BY <3>1, OthersSame
      <4> QED
        BY <2>1, <2>3, <4>1 DEF Same, HasKeys, AtWork, Resting, Registering
    <3>2. CASE q = p
      <4>1. /\ ~Unlocks(p)
            /\ (~Begins(p) /\ ~Leaves(p)) \/ (Leaves(p) /\ pc[p] = "rename" /\ tmp = None)
        BY <1>1, <2>3, <3>2 DEF Begins, Leaves, Unlocks, AtWork, Resting
      <4>2. ~Leaves(p)
        BY <1>0, <2>3, <3>2, <4>1, Values DEF WorkKept, ShapeOf, AtWork, Resting
      <4>3. CASE Renames(p)
        <5>1. json' = mem[p] /\ mem[p] \in Content
          BY <1>0, <4>3 DEF Renames, WorkKept, AtWork, Resting, ShapeOf
        <5> QED
          BY <2>1, <2>3, <3>2, <5>1, Values DEF HasKeys, Readable
      <4>4. CASE Takes(p) \/ Clears(p)
        <5>1. /\ mem[p] \in Content /\ pc'[p] = "open" /\ cmd'[p] = cmd[p]
              /\ \E t \in Token \cup {None} : mem'[p] = [mem[p] EXCEPT !.token = t]
          BY <1>0, <4>4 DEF Takes, Clears, Goes, ShapeOf
        <5>2. mem'[p].user = mem[p].user /\ mem'[p].id = mem[p].id
          BY <5>1, Retoken
        <5> QED
          BY <2>1, <2>3, <3>2, <5>1, <5>2 DEF HasKeys, AtWork, Resting, Registering
      <4>5. CASE (\E t \in Token : Asks(p, t)) \/ Opens(p) \/ Writes(p)
        BY <2>1, <2>3, <3>2, <4>5 DEF Asks, Opens, Writes, Goes, HasKeys, AtWork, Resting, Registering
      <4> QED
        BY <1>3, <4>1, <4>2, <4>3, <4>4, <4>5 DEF StepKinds
    <3> QED
      BY <3>1, <3>2
  <2> QED
    BY <2>1, <2>2, <2>3 DEF HasKeys
<1> QED
  BY <1>2, <1>3

LEMMA KeysHadNext == Types /\ Turns /\ KeysHad /\ [Next]_vars => KeysHad'
<1> SUFFICES ASSUME Types, Turns, KeysHad, [Next]_vars PROVE KeysHad'
  OBVIOUS
<1>1. ASSUME NEW t \in Token, Expires(t) PROVE KeysHad'
  BY <1>1 DEF Expires, disk, client, KeysHad, HasKeys, AtWork, Resting, Registering, Readable
<1>2. CASE UNCHANGED vars
  BY <1>2 DEF vars, relay, disk, client, KeysHad, HasKeys, AtWork, Resting, Registering, Readable
<1> QED
  BY <1>1, <1>2, KeysHadStep, NextKinds

-----------------------------------------------------------------------------
(* The results.                                                            *)

LEMMA AlwaysInv == Spec => []Inv
<1>1. Inv /\ [Next]_vars => Inv'
  BY TypesStep, KnownMatchStep, TokensOursStep, SessionsStep, TurnsStep, KeysHadNext DEF Inv
<1> QED
  BY InitInv, <1>1, PTL DEF Spec

(* Every variable keeps its declared shape.                                *)
THEOREM TypesCorrect == Spec => []TypeOK
<1>1. Inv => TypeOK
  BY DEF Inv, Types
<1> QED
  BY <1>1, AlwaysInv, PTL

(* A keystore that can be read holds the keys the relay publishes for its  *)
(* user (register_account, Keystore::save), whatever dies or fails and     *)
(* however many processes save at once.                                    *)
THEOREM KeystoreMatchesAccount == Spec => []KeysMatchAccount
<1>1. Inv => KeysMatchAccount
  BY DEF Inv, Types, TypeOK, KnownMatch, Known, InFile, KeysMatchAccount, Readable
<1> QED
  BY <1>1, AlwaysInv, PTL

(* The tokens kept and sent were issued to their user (create_session,     *)
(* set_token).                                                             *)
THEOREM TokensAreOurs == Spec => []TokenIsOurs
<1>1. Inv => TokenIsOurs
  <2> SUFFICES ASSUME Inv PROVE TokenIsOurs
    OBVIOUS
  <2>1. Readable /\ json.token # None => issued[json.token] = json.user
    BY DEF Inv, Types, TypeOK, TokensOurs, InFile, Ours, Readable
  <2>2. ASSUME NEW p \in Proc, api[p] # None PROVE issued[api[p]] = mem[p].user
    BY <2>2 DEF Inv, Types, Shape, TokensOurs
  <2> QED
    BY <2>1, <2>2 DEF TokenIsOurs
<1> QED
  BY <1>1, AlwaysInv, PTL

(* No keystore keeps the token of a session that a logout ended, unless    *)
(* that logout is still at work or something was cut short (logout).       *)
THEOREM EndedSessionsAreCleared == Spec => []EndedIsCleared
<1>1. Inv => EndedIsCleared
  BY DEF Inv, Sessions, EndedGoes, EndedIsCleared
<1> QED
  BY <1>1, AlwaysInv, PTL

(* While one process at a time is at work and nothing is cut short, every  *)
(* account registered from the directory has its keys there, or with the   *)
(* process about to write them (register_account).                         *)
THEOREM AccountsHaveKeys == Spec => []AccountHasKeys
<1>1. Inv => AccountHasKeys
  BY DEF Inv, KeysHad, HasKeys, Registering, AccountHasKeys
<1> QED
  BY <1>1, AlwaysInv, PTL

(* While one process at a time is at work, a keystore stays readable and   *)
(* of the same account, at every step (Keystore::save).                    *)
THEOREM KeystoreIsKept == Spec => KeystoreKept
<1>1. Inv /\ [Next]_vars =>
        [Readable /\ lone => /\ json' \notin {Torn, None}
                             /\ json'.user = json.user /\ json'.id = json.id]_vars
  <2> SUFFICES ASSUME Inv, Next, Readable, lone
               PROVE  Readable' /\ json'.user = json.user /\ json'.id = json.id
    BY DEF Readable
  <2>1. ASSUME NEW p \in Proc, Begins(p) \/ StepKinds(p)
        PROVE  Readable' /\ json'.user = json.user /\ json'.id = json.id
    <3>0. ShapeOf(p) /\ WorkKept(p)
      BY ShapeByProcess DEF Inv, Types, Turns, WorkKeeps, WorkKept
    <3>1. CASE Renames(p)
      <4>1. tmp = mem[p] /\ mem[p] \in Content /\ ~Registering(p)
        BY <3>0, <3>1 DEF Renames, WorkKept, AtWork, Resting, ShapeOf, Readable
      <4> QED
        BY <3>0, <3>1, <4>1, Values DEF Renames, WorkKept, AtWork, Resting, Readable
    <3>2. CASE Writes(p)
      <4>1. fd[p] = "tmp"
        BY <3>0, <3>2 DEF Writes, Goes, WorkKept, AtWork, Resting
      <4> QED
        BY <3>2, <4>1 DEF Writes, Readable
    <3>3. CASE ~Renames(p) /\ ~Writes(p)
      BY <2>1, <3>3 DEF StepKinds, Begins, Creates, Asks, Takes, Clears, Leaves, Opens, Unlocks, disk, Readable
    <3> QED
      BY <3>1, <3>2, <3>3
  <2>2. ASSUME NEW t \in Token, Expires(t) PROVE json' = json
    BY <2>2 DEF Expires, disk
  <2>3. CASE UNCHANGED vars
    BY <2>3 DEF vars, disk, Readable
  <2> QED
    BY <2>1, <2>2, <2>3, NextKinds DEF Inv, Readable
<1> QED
  BY <1>1, AlwaysInv, PTL DEF Spec, KeystoreKept
=============================================================================
