------------------------------ MODULE Contacts ------------------------------
(***************************************************************************)
(* One contact of a user: the pinned identity and the verified mark in the *)
(* local database (client/src/store.rs), the entry on the relay's contact  *)
(* list (backend/src/http.rs), and the client processes that pin, re-pin,  *)
(* verify and remove the contact (client/src/commands.rs, messaging.rs,    *)
(* groups.rs, tui.rs).                                                     *)
(*                                                                         *)
(* The processes share the database.  A statement is a step, and so is a   *)
(* call to the relay; between two of them other processes run, a prompt    *)
(* may stay open, and the process may end.  A key stands for the whole     *)
(* public identity; an identity whose prekey signature fails is dropped    *)
(* before it reaches the store and is left out.                            *)
(***************************************************************************)
EXTENDS Integers

CONSTANTS
  Proc,      \* client processes on the data directory
  Window,    \* those that are chat windows; the others are commands
  Key,       \* public identities
  MaxNews,   \* bound: how often the relay comes to answer with another key
  None

ASSUME WindowAssumption == Window \subseteq Proc
Row == [key : Key, verified : BOOLEAN]

ASSUME NoneAssumption == None \notin Key \cup Row

VARIABLES
  published,  \* the identity the relay answers with
  onRelay,    \* the contact is on the relay's contact list
  row,        \* its row of the local contacts table, or None
  at,         \* the statement each process is at
  for,        \* the command it runs
  key,        \* the identity it fetched
  existing,   \* the key of the row upsert_contact read, or None
  shown,      \* the identity whose fingerprint its prompt shows, or None
  news,       \* bound
  compared,   \* history: identities the user said to match at some time
  refused,    \* history: those whose latest answer was that they do not
  crossed,    \* history: a prompt was open while the contact changed
  owed        \* history: the relay may list a contact this store dropped

store == <<row, onRelay>>
process == <<at, for, key, existing, shown>>
history == <<compared, refused, crossed, owed>>
vars == <<published, news, store, process, history>>

Stages == {"idle", "look", "check", "write", "read", "tell", "forget"}
Commands == {"add", "re-add", "verify", "chat", "receive", "pin", "list", "remove"}

TypeOK ==
  /\ published \in Key /\ onRelay \in BOOLEAN
  /\ row \in Row \cup {None}
  /\ at \in [Proc -> Stages]
  /\ for \in [Proc -> Commands \cup {None}]
  /\ key \in [Proc -> Key \cup {None}]
  /\ existing \in [Proc -> Key \cup {None}]
  /\ shown \in [Proc -> Key \cup {None}]
  /\ news \in Nat
  /\ compared \subseteq Key /\ refused \subseteq Key
  /\ crossed \in BOOLEAN /\ owed \in BOOLEAN

Init ==
  /\ published \in Key /\ news = 0
  /\ onRelay = FALSE /\ row = None
  /\ at = [p \in Proc |-> "idle"] /\ for = [p \in Proc |-> None]
  /\ key = [p \in Proc |-> None] /\ existing = [p \in Proc |-> None]
  /\ shown = [p \in Proc |-> None]
  /\ compared = {} /\ refused = {} /\ crossed = FALSE /\ owed = FALSE

Go(p, stage) == at' = [at EXCEPT ![p] = stage]
Done(p) == Go(p, "idle") /\ for' = [for EXCEPT ![p] = None]
                         /\ key' = [key EXCEPT ![p] = None]
                         /\ existing' = [existing EXCEPT ![p] = None]

(* A window that shows a prompt takes no other command, but frames from    *)
(* the relay still come in.                                                *)
Begin(p, c, stage, k) ==
  /\ at[p] = "idle"
  /\ shown[p] = None \/ (p \in Window /\ c \in {"receive", "pin"})
  /\ Go(p, stage)
  /\ for' = [for EXCEPT ![p] = c]
  /\ key' = [key EXCEPT ![p] = k]
  /\ UNCHANGED <<existing, shown, compared, refused, crossed>>

(* A change of the contact under an open prompt.                           *)
Crossing == crossed' = (crossed \/ \E q \in Proc : shown[q] # None)

(* Some process is at this statement.                                      *)
Under(stage) == \E q \in Proc : at[q] = stage

-----------------------------------------------------------------------------
(* The relay's contact list, and what happens outside the client.          *)

AddContact == onRelay' = TRUE
RemoveContact == onRelay' = FALSE

(* The relay comes to answer with another identity: a new install of the   *)
(* contact's, or not the contact at all.                                   *)
Republish ==
  /\ news < MaxNews /\ news' = news + 1
  /\ published' \in Key \ {published}
  /\ UNCHANGED <<store, process, history>>

(* Another session of the user adds the contact on the relay.              *)
AddElsewhere ==
  /\ ~onRelay
  /\ AddContact /\ owed' = TRUE
  /\ UNCHANGED <<published, news, row, process, compared, refused, crossed>>

-----------------------------------------------------------------------------
(* Commands begin with what the relay answers, or with the row.            *)

(* contacts add: looked up, whether or not the contact is known.           *)
Add(p) ==
  /\ p \notin Window
  /\ \E c \in {"add", "re-add"} : Begin(p, c, "check", published)
  /\ UNCHANGED <<published, news, store, owed>>

(* resolve_contact and handle_incoming look up only a contact that is not  *)
(* in the store; of those that are, verify shows the fingerprint.          *)
Resolve(p) ==
  /\ row = None
  /\ \/ p \notin Window /\ Begin(p, "verify", "check", published)
     \/ \E c \in {"chat", "receive"} : Begin(p, c, "check", published)
  /\ UNCHANGED <<published, news, store, owed>>

Verify(p) ==
  /\ row # None
  /\ at[p] = "idle" /\ shown[p] = None
  /\ shown' = [shown EXCEPT ![p] = row.key]
  /\ UNCHANGED <<published, news, store, at, for, key, existing, history>>

(* cache_group pins every member of the relay's answer.                    *)
PinMember(p) ==
  /\ Begin(p, "pin", "check", published)
  /\ UNCHANGED <<published, news, store, owed>>

(* contacts list: the relay's list is pulled.                              *)
List(p) ==
  /\ p \notin Window
  /\ onRelay
  /\ Begin(p, "list", "look", published)
  /\ UNCHANGED <<published, news, store, owed>>

(* Mutant: the relay is not told.                                          *)
RemoveHere(p) ==
  /\ p \in Window
  /\ row # None
  /\ Begin(p, "remove", "forget", None)
  /\ UNCHANGED <<published, news, store, owed>>

(* /remove: the relay is told first; whether or not that succeeds, and     *)
(* whether or not the answer arrives, the contact is then dropped here.    *)
Remove(p) ==
  /\ p \in Window
  /\ row # None
  /\ Begin(p, "remove", "forget", None)
  /\ \/ RemoveContact /\ owed' = FALSE
     \/ UNCHANGED onRelay /\ owed' = (owed \/ onRelay)
  /\ UNCHANGED <<published, news, row>>

-----------------------------------------------------------------------------
(* upsert_contact: a read, a check and a statement of its own.             *)

(* contacts list upserts only what it does not find.                       *)
Look(p) ==
  /\ at[p] = "look"
  /\ IF row = None THEN Go(p, "check") /\ UNCHANGED <<for, key, existing>> ELSE Done(p)
  /\ UNCHANGED <<published, news, store, shown, history>>

KeyOf(r) == IF r = None THEN None ELSE r.key

(* Mutant: a changed key is let through.                                   *)
CheckNothing(p) ==
  /\ at[p] = "check"
  /\ Go(p, "write")
  /\ existing' = [existing EXCEPT ![p] = KeyOf(row)]
  /\ UNCHANGED <<published, news, store, for, key, shown, history>>

Check(p) ==
  /\ at[p] = "check"
  /\ IF KeyOf(row) \in {None, key[p]} \/ for[p] = "re-add"
       THEN /\ Go(p, "write")
            /\ existing' = [existing EXCEPT ![p] = KeyOf(row)]
            /\ UNCHANGED <<for, key>>
       ELSE Done(p)
  /\ UNCHANGED <<published, news, store, shown, history>>

(* Mutant: the mark survives the change of the key.                        *)
UpsertKeeping(k) ==
  row' = [key |-> k, verified |-> (row # None /\ row.verified)]

(* INSERT ... ON CONFLICT DO UPDATE.                                       *)
Upsert(k) ==
  row' = [key |-> k, verified |-> (row # None /\ row.key = k /\ row.verified)]

Write(p) ==
  /\ at[p] = "write"
  /\ Upsert(key[p])
  /\ IF KeyOf(row) = key[p] THEN UNCHANGED crossed ELSE Crossing
  /\ CASE for[p] \in {"add", "re-add"} -> Go(p, "tell") /\ UNCHANGED <<for, key, existing>>
       [] for[p] \in {"verify", "chat", "receive"} -> Go(p, "read") /\ UNCHANGED <<for, key, existing>>
       [] OTHER -> Done(p)
  /\ UNCHANGED <<published, news, onRelay, shown, compared, refused, owed>>

(* The contact is read back: verify asks about the row, not about what was *)
(* fetched; the others go on with it.                                      *)
ReadBack(p) ==
  /\ at[p] = "read"
  /\ shown' = IF row # None /\ for[p] = "verify" THEN [shown EXCEPT ![p] = row.key] ELSE shown
  /\ Done(p)
  /\ UNCHANGED <<published, news, store, history>>

(* contacts add tells the relay last; the call may fail.                   *)
Tell(p) ==
  /\ at[p] = "tell"
  /\ \/ AddContact /\ owed' = (owed \/ Under("forget"))
     \/ UNCHANGED <<onRelay, owed>>
  /\ Done(p)
  /\ UNCHANGED <<published, news, row, shown, compared, refused, crossed>>

-----------------------------------------------------------------------------
(* The answer to a prompt, and the end of a removal.                       *)

SetVerified(v) == row' = IF row = None THEN None ELSE [row EXCEPT !.verified = v]

Closed(p) ==
  /\ at[p] = "idle" /\ shown[p] # None
  /\ shown' = [shown EXCEPT ![p] = None]
  /\ UNCHANGED <<published, news, onRelay, at, for, key, existing, crossed, owed>>

(* A yes marks the row of the contact, by its id.                          *)
Match(p) ==
  /\ Closed(p)
  /\ compared' = compared \cup {shown[p]} /\ refused' = refused \ {shown[p]}
  /\ SetVerified(TRUE)

(* A no clears the mark in the command; in the window it only closes the   *)
(* prompt.                                                                 *)
Reject(p) ==
  /\ Closed(p)
  /\ IF p \in Window THEN UNCHANGED row ELSE SetVerified(FALSE)
  /\ refused' = refused \cup {shown[p]} /\ UNCHANGED compared

Forget(p) ==
  /\ at[p] = "forget"
  /\ row' = None
  /\ Crossing /\ owed' = (owed \/ Under("tell"))
  /\ Done(p)
  /\ UNCHANGED <<published, news, onRelay, shown, compared, refused>>

(* A process ends wherever it is, or a call it needs fails.                *)
Quit(p) ==
  /\ at[p] # "idle" \/ shown[p] # None
  /\ Done(p)
  /\ shown' = [shown EXCEPT ![p] = None]
  /\ UNCHANGED <<published, news, store, history>>

Next ==
  \/ Republish
  \/ AddElsewhere
  \/ \E p \in Proc :
       \/ Add(p) \/ Resolve(p) \/ Verify(p) \/ PinMember(p) \/ List(p) \/ Remove(p)
       \/ Look(p) \/ Check(p) \/ Write(p) \/ ReadBack(p) \/ Tell(p)
       \/ Match(p) \/ Reject(p) \/ Forget(p) \/ Quit(p)

Spec == Init /\ [][Next]_vars

-----------------------------------------------------------------------------
(* A contact marked verified has a key that the user compared and found to *)
(* match, unless the contact was re-pinned or removed while a prompt that  *)
(* showed another key was open (store.rs, upsert_contact and set_verified; *)
(* commands.rs, verify; tui.rs, the /verify prompt).                       *)
MarkWasCompared ==
  row # None => (row.verified /\ ~crossed => row.key \in compared)

(* A pinned key gives way to another only when the user asked for it with  *)
(* --accept-new-key, or when the row was written between the two           *)
(* statements of upsert_contact (store.rs).                                *)
KeyKeptOrAsked ==
  [][\A p \in Proc :
       /\ at[p] = "write" /\ at'[p] # "write"
       /\ row # None /\ row' # None /\ row.key # row'.key
       => for[p] = "re-add" \/ existing[p] # row.key]_vars

(* A removal that the relay confirmed is not undone by the next list: the  *)
(* relay lists a contact that the store lacks only if another session has  *)
(* added it since, if the relay did not confirm the removal, or if an add  *)
(* of the contact was between its row and its entry when the contact was   *)
(* removed (tui.rs, remove_contact_in_chat; commands.rs, contacts_add and  *)
(* contacts_list).                                                         *)
ListedIsPinned == onRelay /\ ~owed => row # None

(* A fingerprint that the user last said does not match is not that of a   *)
(* contact marked verified, as the answers of the window and of the        *)
(* command both say (tui.rs, the /verify prompt; commands.rs, verify).     *)
RejectedNotVerified ==
  row # None => (row.verified /\ ~crossed => row.key \notin refused)
=============================================================================
