------------------------------ MODULE Accounts ------------------------------
(***************************************************************************)
(* Accounts, sessions and the keystore: the relay's register, login and    *)
(* logout handlers (backend/src/http.rs, auth.rs) and the client commands  *)
(* that call them and rewrite the keystore file of one data directory      *)
(* (client/src/commands.rs, auth.rs, keystore.rs).                         *)
(*                                                                         *)
(* A process is one run of the client on that directory: a command, or the *)
(* window, which stays and runs commands as child processes (home.rs).     *)
(* Every call to the relay and every file operation is a step; a process   *)
(* may die, an answer may be lost and a file operation may fail between    *)
(* any two.  An identity is the number of the key pair generated for it, a *)
(* token the number of its session; the password is right (a wrong one     *)
(* ends the command at unlock).                                            *)
(***************************************************************************)
EXTENDS Integers, FiniteSets

CONSTANTS
  User,         \* usernames
  Proc,         \* client processes on the data directory
  MaxIds,       \* bound: key pairs generated
  MaxTokens,    \* bound: sessions created
  MaxCuts,      \* bound: crashes, lost answers, failed operations
  Stranger,     \* the identity of an account of someone else
  Torn,         \* the content of a file that is empty or half written
  None

ASSUME BoundAssumption == MaxIds \in Nat /\ MaxTokens \in Nat /\ MaxCuts \in Nat

Command == {"register", "signup", "login", "logout", "start"}
FileName == {"tmp", "json", "gone"}
Id == 1..MaxIds
Token == 1..MaxTokens
Content == [user : User, id : Id, token : Token \cup {None}]

ASSUME ValueAssumption ==
  /\ None \notin User /\ None \notin Nat /\ Stranger \notin Nat
  /\ None \notin Command /\ None \notin FileName
  /\ Torn \notin Content /\ None \notin Content /\ Torn # None

VARIABLES
  accounts,   \* the relay's users: the identity each name is registered with
  issued,     \* the user of every session the relay ever created
  live,       \* the rows of its sessions table that have not expired
  json, tmp,  \* keystore.json and keystore.json.tmp: a Content, Torn, or None
  fd,         \* the name each process's open temporary file now has
  cmd,        \* the command each process runs
  pc,         \* where it is
  mem,        \* its unlocked keystore
  answer,     \* the token the relay answered with
  api,        \* the token its requests carry
  ids, cuts,  \* bounds
  ended,      \* history: sessions ended by logout
  lone        \* history: no two processes were ever at work at once

relay == <<accounts, issued, live, ended>>
disk == <<json, tmp, fd>>
client == <<cmd, pc, mem, answer, api>>
vars == <<relay, disk, client, ids, cuts, lone>>

Saving == {"open", "write", "rename"}
Calls == {"register", "session", "login", "logout"}
Resting == {"idle", "shown", "running"}   \* nothing under way

TypeOK ==
  /\ accounts \in [User -> Id \cup {Stranger, None}]
  /\ issued \in [Token -> User \cup {None}]
  /\ live \subseteq {t \in Token : issued[t] # None}
  /\ ended \subseteq Token \ live
  /\ json \in Content \cup {Torn, None} /\ tmp \in Content \cup {Torn, None}
  /\ fd \in [Proc -> FileName \cup {None}]
  /\ cmd \in [Proc -> Command \cup {None}]
  /\ pc \in [Proc -> Saving \cup Calls \cup {"answer"} \cup Resting]
  /\ mem \in [Proc -> Content \cup {None}]
  /\ answer \in [Proc -> Token \cup {None}]
  /\ api \in [Proc -> Token \cup {None}]
  /\ ids \in Nat /\ cuts \in 0..MaxCuts /\ lone \in BOOLEAN

Init ==
  /\ accounts \in [User -> {None, Stranger}]
  /\ issued = [t \in Token |-> None] /\ live = {} /\ ended = {}
  /\ json = None /\ tmp = None /\ fd = [p \in Proc |-> None]
  /\ cmd = [p \in Proc |-> None] /\ pc = [p \in Proc |-> "idle"]
  /\ mem = [p \in Proc |-> None] /\ answer = [p \in Proc |-> None]
  /\ api = [p \in Proc |-> None]
  /\ ids = 0 /\ cuts = 0 /\ lone = TRUE

Readable == json \notin {Torn, None}
Go(p, l) == pc' = [pc EXCEPT ![p] = l]
Cut == cuts < MaxCuts /\ cuts' = cuts + 1

(* The end of a command.                                                   *)
Ended(p) ==
  /\ Go(p, "idle")
  /\ cmd' = [cmd EXCEPT ![p] = None]
  /\ mem' = [mem EXCEPT ![p] = None]
  /\ answer' = [answer EXCEPT ![p] = None]
  /\ api' = [api EXCEPT ![p] = None]

(* The window opens on an unlocked keystore.                               *)
Running(p, k, token) ==
  /\ Go(p, "running")
  /\ mem' = [mem EXCEPT ![p] = k]
  /\ api' = [api EXCEPT ![p] = token]
  /\ answer' = [answer EXCEPT ![p] = None]
  /\ UNCHANGED cmd

(* A login that failed ends the command; the window goes on with the token *)
(* it unlocked.                                                            *)
NoLogin(p) == IF cmd[p] = "start" THEN Running(p, mem[p], api[p]) ELSE Ended(p)

-----------------------------------------------------------------------------
(* Starting a command.                                                     *)

Begin(p, c, l, k) ==
  /\ pc[p] = "idle"
  /\ lone' = (lone /\ \A q \in Proc : pc[q] \in Resting)
  /\ cmd' = [cmd EXCEPT ![p] = c]
  /\ Go(p, l)
  /\ mem' = [mem EXCEPT ![p] = k]
  /\ api' = [api EXCEPT ![p] = k.token]
  /\ UNCHANGED <<relay, disk, answer, cuts>>

(* Mutant: the check for an existing keystore is missing.                  *)
RegisterAnyway(p, u) ==
  /\ ids < MaxIds /\ ids' = ids + 1
  /\ \E c \in {"register", "signup"} :
       Begin(p, c, "register", [user |-> u, id |-> ids + 1, token |-> None])

(* register_account: refused if the directory has a keystore, else a fresh *)
(* identity is generated.                                                  *)
Register(p, u) ==
  /\ json = None
  /\ ids < MaxIds /\ ids' = ids + 1
  /\ \E c \in {"register", "signup"} :
       Begin(p, c, "register", [user |-> u, id |-> ids + 1, token |-> None])

(* login: the name typed, if any, must be the keystore's.                  *)
Login(p, name) ==
  /\ Readable
  /\ name # None => name = json.user
  /\ Begin(p, "login", "login", json)
  /\ UNCHANGED ids

Logout(p) == Readable /\ Begin(p, "logout", "logout", json) /\ UNCHANGED ids

(* establish_session: unlock, then refresh_token.                          *)
Start(p) == Readable /\ Begin(p, "start", "login", json) /\ UNCHANGED ids

-----------------------------------------------------------------------------
(* The relay's handlers, and what the client makes of their answers.       *)

Freshest == {t \in Token : issued[t] = None /\ \A s \in 1..(t - 1) : issued[s] # None}

(* Mutant: the session is stored under a user of its own choosing.         *)
CreateSessionFor(p, t, u) ==
  /\ \E other \in User : issued' = [issued EXCEPT ![t] = other]
  /\ live' = live \cup {t}
  /\ answer' = [answer EXCEPT ![p] = t]
  /\ Go(p, "answer")

(* create_session: a new token, stored by its hash.                        *)
CreateSession(p, t, u) ==
  /\ issued' = [issued EXCEPT ![t] = u]
  /\ live' = live \cup {t}
  /\ answer' = [answer EXCEPT ![p] = t]
  /\ Go(p, "answer")

(* Mutant: an existing name is logged in instead of refused.               *)
CreateUserOrNot(p) ==
  /\ pc[p] = "register"
  /\ accounts' = IF accounts[mem[p].user] = None
                 THEN [accounts EXCEPT ![mem[p].user] = mem[p].id] ELSE accounts
  /\ Go(p, "session")
  /\ UNCHANGED <<issued, live, ended, disk, cmd, mem, answer, api, ids, cuts>>

(* register, first store call: create_user, or a conflict.                 *)
CreateUser(p) ==
  /\ pc[p] = "register"
  /\ LET u == mem[p].user IN
       IF accounts[u] = None
       THEN /\ accounts' = [accounts EXCEPT ![u] = mem[p].id]
            /\ Go(p, "session")
            /\ UNCHANGED <<cmd, mem, answer, api>>
       ELSE UNCHANGED accounts /\ Ended(p)
  /\ UNCHANGED <<issued, live, ended, disk, ids, cuts>>

(* register, second store call.                                            *)
RegisterSession(p) ==
  /\ pc[p] = "session"
  /\ \E t \in Freshest : CreateSession(p, t, mem[p].user)
  /\ UNCHANGED <<accounts, ended, disk, cmd, mem, api, ids, cuts>>

LoginSession(p) ==
  /\ pc[p] = "login"
  /\ \E t \in Freshest : CreateSession(p, t, mem[p].user)
  /\ UNCHANGED <<accounts, ended, disk, cmd, mem, api, ids, cuts>>

(* The handler or its connection fails: registration is abandoned, a login *)
(* did not happen.  Between create_user and create_session the account is  *)
(* there all the same; in "answer" so is the session.                      *)
CallFails(p) ==
  /\ pc[p] \in {"register", "session", "login", "answer"} /\ Cut
  /\ NoLogin(p)
  /\ UNCHANGED <<relay, disk, ids>>

(* Keystore::create or set_token: the token goes into the copy in memory,  *)
(* then the file is rewritten.                                             *)
TakeToken(p) ==
  /\ pc[p] = "answer"
  /\ mem' = [mem EXCEPT ![p].token = answer[p]]
  /\ Go(p, "open")
  /\ UNCHANGED <<relay, disk, cmd, answer, api, ids, cuts>>

(* Mutant: logout trusts the relay to forget.                              *)
ClearNothing(p) ==
  /\ Go(p, "open")
  /\ UNCHANGED <<cmd, mem, answer, api>>

ClearToken(p) ==
  /\ mem' = [mem EXCEPT ![p].token = None]
  /\ Go(p, "open")
  /\ UNCHANGED <<cmd, answer, api>>

(* logout: the session of the keystore's token is deleted, or the relay    *)
(* refuses a dead token; either way the token is cleared.                  *)
LogoutCall(p) ==
  /\ pc[p] = "logout"
  /\ live' = live \ {mem[p].token}
  /\ ended' = ended \cup (live \cap {mem[p].token})
  /\ ClearToken(p)
  /\ UNCHANGED <<accounts, issued, disk, ids, cuts>>

LogoutSkipped(p) ==
  /\ pc[p] = "logout" /\ Cut
  /\ ClearToken(p)
  /\ UNCHANGED <<relay, disk, ids>>

(* session_user: a session older than SESSION_DAYS is not found.           *)
Expire(t) ==
  /\ t \in live
  /\ live' = live \ {t}
  /\ UNCHANGED <<accounts, issued, ended, disk, client, ids, cuts>>

-----------------------------------------------------------------------------
(* Keystore::save.                                                         *)

(* Mutant: the file is rewritten in place.                                 *)
OpenInPlace(p) ==
  /\ pc[p] = "open"
  /\ json' = Torn /\ tmp' = Torn
  /\ fd' = [fd EXCEPT ![p] = "tmp"]
  /\ Go(p, "write")
  /\ UNCHANGED <<relay, cmd, mem, answer, api, ids, cuts>>

(* fs::write opens the fixed temporary name and truncates what is there.   *)
OpenTmp(p) ==
  /\ pc[p] = "open"
  /\ tmp' = Torn
  /\ fd' = [fd EXCEPT ![p] = "tmp"]
  /\ Go(p, "write")
  /\ UNCHANGED <<relay, json, cmd, mem, answer, api, ids, cuts>>

(* The bytes go to the file, whatever its name is by now; over another     *)
(* writer's bytes they may leave a tail of them.                           *)
WriteTmp(p) ==
  /\ pc[p] = "write"
  /\ \E c \in IF \E q \in Proc \ {p} : fd[q] = fd[p] THEN {mem[p], Torn} ELSE {mem[p]} :
       CASE fd[p] = "tmp"  -> tmp' = c /\ UNCHANGED json
         [] fd[p] = "json" -> json' = c /\ UNCHANGED tmp
         [] fd[p] = "gone" -> UNCHANGED <<json, tmp>>
  /\ Go(p, "rename")
  /\ UNCHANGED <<relay, fd, cmd, mem, answer, api, ids, cuts>>

(* After a save the commands end; the window opens on its own keystore and *)
(* token, at a signup after key_loss_screen.                               *)
Saved(p) ==
  CASE cmd[p] = "start" -> Running(p, mem[p], mem[p].token)
    [] cmd[p] = "signup" -> Go(p, "shown") /\ UNCHANGED <<cmd, mem, answer, api>>
    [] OTHER -> Ended(p)

(* set_permissions and rename by name; a file open under the old name      *)
(* keeps its bytes.                                                        *)
Rename(p) ==
  /\ pc[p] = "rename" /\ tmp # None
  /\ json' = tmp /\ tmp' = None
  /\ fd' = [q \in Proc |-> CASE q = p -> None
                             [] q # p /\ fd[q] = "tmp" -> "json"
                             [] q # p /\ fd[q] = "json" -> "gone"
                             [] OTHER -> fd[q]]
  /\ Saved(p)
  /\ UNCHANGED <<relay, ids, cuts>>

(* A file operation fails, the rename also because another process has     *)
(* renamed the file away.  refresh_token then keeps the old Api; the new   *)
(* token stays in the keystore in memory.                                  *)
SaveFailed(p) ==
  /\ fd' = [fd EXCEPT ![p] = None]
  /\ NoLogin(p)
  /\ UNCHANGED <<relay, json, tmp, ids>>

SaveFails(p) ==
  \/ pc[p] \in Saving /\ Cut /\ SaveFailed(p)
  \/ pc[p] = "rename" /\ tmp = None /\ SaveFailed(p) /\ UNCHANGED cuts

(* A key press on key_loss_screen: the window unlocks the file, whatever    *)
(* it holds by now.                                                        *)
Unlock(p) ==
  /\ pc[p] = "shown"
  /\ IF Readable THEN Running(p, json, json.token) ELSE Ended(p)
  /\ UNCHANGED <<relay, disk, ids, cuts>>

-----------------------------------------------------------------------------
(* The process dies, or the user closes the window.                        *)
Crash(p) ==
  /\ pc[p] \notin {"idle", "running"} /\ Cut
  /\ Ended(p)
  /\ fd' = [fd EXCEPT ![p] = None]
  /\ UNCHANGED <<relay, json, tmp, ids>>

Quit(p) ==
  /\ pc[p] = "running"
  /\ Ended(p)
  /\ UNCHANGED <<relay, disk, ids, cuts>>

Commands(p) ==
  \/ \E u \in User : Register(p, u)
  \/ \E n \in User \cup {None} : Login(p, n)
  \/ Logout(p) \/ Start(p)

Step(p) ==
  \/ CreateUser(p) \/ RegisterSession(p) \/ LoginSession(p)
  \/ CallFails(p) \/ TakeToken(p) \/ LogoutCall(p) \/ LogoutSkipped(p)
  \/ OpenTmp(p) \/ WriteTmp(p) \/ Rename(p) \/ SaveFails(p)
  \/ Unlock(p) \/ Crash(p) \/ Quit(p)

Next ==
  \/ \E p \in Proc : Commands(p)
  \/ \E p \in Proc : Step(p) /\ UNCHANGED lone
  \/ \E t \in Token : Expire(t) /\ UNCHANGED lone

Spec == Init /\ [][Next]_vars

-----------------------------------------------------------------------------
(* Properties.                                                             *)

(* The keystore holds the private half of the identity the relay publishes *)
(* for its user: a keystore is only written for an account just created    *)
(* with its keys.                                                          *)
KeysMatchAccount == Readable => accounts[json.user] = json.id

(* "Re-encrypt and atomically rewrite the keystore": once it is there, it  *)
(* is readable and belongs to the same account, whatever dies or fails, as *)
(* long as one process at a time is at work.                               *)
KeystoreKept ==
  [][Readable /\ lone => /\ json' \notin {Torn, None}
                         /\ json'.user = json.user /\ json'.id = json.id]_vars

(* The token in the keystore, and the one a process sends, is one the      *)
(* relay issued to its user.                                               *)
TokenIsOurs ==
  /\ Readable /\ json.token # None => issued[json.token] = json.user
  /\ \A p \in Proc : api[p] # None => issued[api[p]] = mem[p].user

(* A session ended by logout is not kept: unless the logout was cut short, *)
(* the keystore does not hold its token once the command has ended.        *)
EndedIsCleared ==
  cuts = 0 /\ Readable /\ json.token \in ended
    => \E p \in Proc : cmd[p] = "logout"

(* An account registered from this directory has its keys in it, unless a  *)
(* registration was cut short between the relay and the file.              *)
AccountHasKeys ==
  cuts = 0 /\ lone => \A u \in User :
    accounts[u] \in Id =>
      \/ Readable /\ json.user = u /\ json.id = accounts[u]
      \/ \E p \in Proc : cmd[p] \in {"register", "signup"} /\ mem[p].id = accounts[u]
=============================================================================
