--------------------------- MODULE ContactsProofs ---------------------------
(* What Contacts promises, proved for any processes, windows and keys and  *)
(* any number of new answers of the relay.                                 *)
EXTENDS Contacts, TLAPS

(***************************************************************************)
(* The parts of the inductive invariant.                                   *)
(***************************************************************************)

(* What is looked for, checked or written has been fetched.                *)
Fetched == \A p \in Proc : at[p] \in {"look", "check", "write"} => key[p] \in Key

(* A write that nobody asked for replaces no key that its check saw.       *)
WriteIsChecked ==
  \A p \in Proc : at[p] = "write" => for[p] = "re-add" \/ existing[p] \in {None, key[p]}

(* A prompt that nothing crossed shows the key of the row.                 *)
PromptShowsRow ==
  \A p \in Proc : shown[p] # None /\ ~crossed => row # None /\ row.key = shown[p]

(* contacts add tells the relay of a row that is there, and the row is     *)
(* dropped after the entry.                                                *)
RowFirst == Under("tell") => row # None \/ owed
EntryFirst == Under("forget") => ~onRelay \/ owed

Order == RowFirst /\ EntryFirst /\ ListedIsPinned

Inv == TypeOK /\ Fetched /\ WriteIsChecked /\ PromptShowsRow /\ MarkWasCompared /\ Order

USE DEF Row, Stages, Commands

LEMMA InitInv == Init => Inv
<1> SUFFICES ASSUME Init PROVE Inv
  OBVIOUS
<1> USE NoneAssumption DEF Init
<1>1. TypeOK BY DEF TypeOK
<1>2. Fetched /\ WriteIsChecked /\ PromptShowsRow /\ MarkWasCompared
  BY DEF Fetched, WriteIsChecked, PromptShowsRow, MarkWasCompared
<1>3. Order BY DEF Order, RowFirst, EntryFirst, ListedIsPinned, Under
<1> QED BY <1>1, <1>2, <1>3 DEF Inv

(***************************************************************************)
(* Types.                                                                  *)
(***************************************************************************)

LEMMA TypeStep == TypeOK /\ Fetched /\ [Next]_vars => TypeOK'
<1> SUFFICES ASSUME TypeOK, Fetched, [Next]_vars PROVE TypeOK'
  OBVIOUS
<1> USE NoneAssumption DEF TypeOK, Go, Done, store, process, history
<1>1. CASE Republish BY <1>1 DEF Republish
<1>2. CASE AddElsewhere BY <1>2 DEF AddElsewhere, AddContact
<1>3. ASSUME NEW p \in Proc,
             Add(p) \/ Resolve(p) \/ Verify(p) \/ PinMember(p) \/ List(p) \/ Remove(p)
      PROVE  TypeOK'
  <2>1. ASSUME NEW c \in Commands, NEW s \in Stages, NEW k \in Key \cup {None},
               Begin(p, c, s, k), UNCHANGED <<published, news, row>>,
               onRelay' \in BOOLEAN, owed' \in BOOLEAN
        PROVE  TypeOK'
    BY <2>1 DEF Begin
  <2>2. CASE Add(p) BY <2>1, <2>2 DEF Add
  <2>3. CASE Resolve(p) BY <2>1, <2>3 DEF Resolve
  <2>4. CASE Verify(p) BY <2>4 DEF Verify
  <2>5. CASE PinMember(p) BY <2>1, <2>5 DEF PinMember
  <2>6. CASE List(p) BY <2>1, <2>6 DEF List
  <2>7. CASE Remove(p) BY <2>1, <2>7 DEF Remove, RemoveContact
  <2> QED BY <1>3, <2>2, <2>3, <2>4, <2>5, <2>6, <2>7
<1>4. ASSUME NEW p \in Proc, Look(p) \/ Check(p) \/ ReadBack(p) \/ Tell(p)
      PROVE  TypeOK'
  BY <1>4 DEF Look, Check, ReadBack, Tell, KeyOf, AddContact
<1>5. ASSUME NEW p \in Proc, Write(p) PROVE TypeOK'
  <2>1. row' \in Row BY <1>5 DEF Write, Upsert, Fetched
  <2>2. crossed' \in BOOLEAN BY <1>5 DEF Write, Crossing
  <2>3. at' \in [Proc -> Stages] BY <1>5 DEF Write
  <2>4. /\ for' \in [Proc -> Commands \cup {None}]
        /\ key' \in [Proc -> Key \cup {None}]
        /\ existing' \in [Proc -> Key \cup {None}]
    BY <1>5 DEF Write
  <2> QED BY <1>5, <2>1, <2>2, <2>3, <2>4 DEF Write
<1>6. ASSUME NEW p \in Proc, Match(p) \/ Reject(p) PROVE TypeOK'
  BY <1>6 DEF Match, Reject, Closed, SetVerified
<1>7. ASSUME NEW p \in Proc, Forget(p) \/ Quit(p) PROVE TypeOK'
  BY <1>7 DEF Forget, Quit, Crossing
<1>8. CASE UNCHANGED vars BY <1>8 DEF vars
<1> QED BY <1>1, <1>2, <1>3, <1>4, <1>5, <1>6, <1>7, <1>8 DEF Next

LEMMA FetchedStep == TypeOK /\ Fetched /\ [Next]_vars => Fetched'
<1> SUFFICES ASSUME TypeOK, Fetched, [Next]_vars PROVE Fetched'
  OBVIOUS
<1> USE NoneAssumption DEF TypeOK, Fetched, Go, Done, store, process, history
<1>1. CASE Republish \/ AddElsewhere BY <1>1 DEF Republish, AddElsewhere
<1>2. ASSUME NEW p \in Proc, Add(p) \/ Resolve(p) \/ PinMember(p) \/ List(p)
      PROVE  Fetched'
  BY <1>2 DEF Add, Resolve, PinMember, List, Begin
<1>3. ASSUME NEW p \in Proc, Verify(p) \/ Remove(p) PROVE Fetched'
  BY <1>3 DEF Verify, Remove, Begin
<1>4. ASSUME NEW p \in Proc, Look(p) \/ Check(p) PROVE Fetched'
  BY <1>4 DEF Look, Check
<1>5. ASSUME NEW p \in Proc, Write(p) \/ ReadBack(p) \/ Tell(p) PROVE Fetched'
  BY <1>5 DEF Write, ReadBack, Tell
<1>6. ASSUME NEW p \in Proc, Match(p) \/ Reject(p) \/ Forget(p) \/ Quit(p) PROVE Fetched'
  BY <1>6 DEF Match, Reject, Closed, Forget, Quit
<1>7. CASE UNCHANGED vars BY <1>7 DEF vars
<1> QED BY <1>1, <1>2, <1>3, <1>4, <1>5, <1>6, <1>7 DEF Next

(***************************************************************************)
(* Checks and prompts.                                                     *)
(***************************************************************************)

LEMMA WriteIsCheckedStep ==
  TypeOK /\ WriteIsChecked /\ [Next]_vars => WriteIsChecked'
<1> SUFFICES ASSUME TypeOK, WriteIsChecked, [Next]_vars PROVE WriteIsChecked'
  OBVIOUS
<1> USE NoneAssumption DEF TypeOK, WriteIsChecked, Go, Done, store, process, history
<1>1. CASE Republish \/ AddElsewhere BY <1>1 DEF Republish, AddElsewhere
<1>2. ASSUME NEW p \in Proc,
             Add(p) \/ Resolve(p) \/ PinMember(p) \/ List(p) \/ Remove(p) \/ Verify(p)
      PROVE  WriteIsChecked'
  BY <1>2 DEF Add, Resolve, PinMember, List, Remove, Verify, Begin
<1>3. ASSUME NEW p \in Proc, Check(p) PROVE WriteIsChecked'
  BY <1>3 DEF Check
<1>4. ASSUME NEW p \in Proc, Look(p) \/ Write(p) \/ ReadBack(p) \/ Tell(p)
      PROVE  WriteIsChecked'
  BY <1>4 DEF Look, Write, ReadBack, Tell
<1>5. ASSUME NEW p \in Proc, Match(p) \/ Reject(p) \/ Forget(p) \/ Quit(p)
      PROVE  WriteIsChecked'
  BY <1>5 DEF Match, Reject, Closed, Forget, Quit
<1>6. CASE UNCHANGED vars BY <1>6 DEF vars
<1> QED BY <1>1, <1>2, <1>3, <1>4, <1>5, <1>6 DEF Next

LEMMA Mark ==
  ASSUME NEW r \in Row, NEW v \in BOOLEAN
  PROVE  LET s == [r EXCEPT !.verified = v] IN
         s \in Row /\ s # None /\ s.key = r.key /\ s.verified = v
BY NoneAssumption

LEMMA PromptStep ==
  TypeOK /\ PromptShowsRow /\ MarkWasCompared /\ [Next]_vars
    => PromptShowsRow' /\ MarkWasCompared'
<1> SUFFICES ASSUME TypeOK, PromptShowsRow, MarkWasCompared, [Next]_vars
             PROVE  PromptShowsRow' /\ MarkWasCompared'
  OBVIOUS
<1> USE NoneAssumption DEF TypeOK, PromptShowsRow, MarkWasCompared, Go, Done, store, process, history
<1>1. CASE Republish \/ AddElsewhere BY <1>1 DEF Republish, AddElsewhere
<1>2. ASSUME NEW p \in Proc,
             Add(p) \/ Resolve(p) \/ PinMember(p) \/ List(p) \/ Remove(p)
      PROVE  PromptShowsRow' /\ MarkWasCompared'
  <2>1. UNCHANGED <<row, shown, crossed, compared>>
    BY <1>2 DEF Add, Resolve, PinMember, List, Remove, Begin
  <2> QED BY <2>1
<1>3. ASSUME NEW p \in Proc, Verify(p)
      PROVE  PromptShowsRow' /\ MarkWasCompared'
  BY <1>3 DEF Verify
<1>4. ASSUME NEW p \in Proc, Look(p) \/ Check(p) \/ Tell(p) \/ Quit(p)
      PROVE  PromptShowsRow' /\ MarkWasCompared'
  BY <1>4 DEF Look, Check, Tell, Quit
(* Another key crosses every prompt that is open; the same key keeps what  *)
(* is shown.                                                               *)
<1>5. ASSUME NEW p \in Proc, Write(p)
      PROVE  PromptShowsRow' /\ MarkWasCompared'
  <2>1. /\ row' = [key |-> key[p], verified |-> (row # None /\ row.key = key[p] /\ row.verified)]
        /\ UNCHANGED <<shown, compared>>
    BY <1>5 DEF Write, Upsert
  <2>2. CASE KeyOf(row) = key[p]
    BY <1>5, <2>1, <2>2 DEF Write, KeyOf
  <2>3. CASE KeyOf(row) # key[p]
    <3>1. crossed' = (crossed \/ \E q \in Proc : shown[q] # None)
      BY <1>5, <2>3 DEF Write, Crossing
    <3>2. row'.verified => row # None /\ row.key = key[p]
      BY <2>1
    <3>3. ~row'.verified
      BY <2>3, <3>2 DEF KeyOf
    <3> QED BY <2>1, <3>1, <3>3
  <2> QED BY <2>2, <2>3
<1>6. ASSUME NEW p \in Proc, ReadBack(p)
      PROVE  PromptShowsRow' /\ MarkWasCompared'
  BY <1>6 DEF ReadBack
<1>7. ASSUME NEW p \in Proc, Match(p) \/ Reject(p)
      PROVE  PromptShowsRow' /\ MarkWasCompared'
  <2>1. /\ shown[p] # None /\ shown' = [shown EXCEPT ![p] = None]
        /\ UNCHANGED crossed
    BY <1>7 DEF Match, Reject, Closed
  <2>2. /\ row = None => row' = None
        /\ row # None => /\ row' # None /\ row'.key = row.key
                         /\ row'.verified => row.verified \/ shown[p] \in compared'
    <3>1. CASE Match(p) BY <1>7, <3>1, Mark DEF Match, SetVerified
    <3>2. CASE Reject(p) BY <1>7, <3>2, Mark DEF Reject, SetVerified
    <3> QED BY <1>7, <3>1, <3>2
  <2>3. compared \subseteq compared'
    BY <1>7 DEF Match, Reject
  <2>4. PromptShowsRow'
    BY <2>1, <2>2
  <2>5. MarkWasCompared'
    BY <2>1, <2>2, <2>3
  <2> QED BY <2>4, <2>5
<1>8. ASSUME NEW p \in Proc, Forget(p)
      PROVE  PromptShowsRow' /\ MarkWasCompared'
  BY <1>8 DEF Forget, Crossing
<1>9. CASE UNCHANGED vars BY <1>9 DEF vars
<1> QED BY <1>1, <1>2, <1>3, <1>4, <1>5, <1>6, <1>7, <1>8, <1>9 DEF Next

(***************************************************************************)
(* Rows and entries.                                                       *)
(***************************************************************************)

LEMMA RowWritten ==
  ASSUME TypeOK, Fetched, NEW p \in Proc, Write(p)
  PROVE  row' \in Row /\ row' # None
<1>1. key[p] \in Key BY DEF Fetched, Write
<1>2. row' \in Row BY <1>1 DEF Write, Upsert, TypeOK
<1> QED BY <1>2, NoneAssumption

LEMMA RowMarked ==
  ASSUME TypeOK, NEW p \in Proc, Match(p) \/ Reject(p)
  PROVE  row # None => row' \in Row
<1> SUFFICES ASSUME row # None PROVE row' \in Row
  OBVIOUS
<1>1. row \in Row BY DEF TypeOK
<1>2. row' = row \/ \E v \in BOOLEAN : row' = [row EXCEPT !.verified = v]
  BY DEF Match, Reject, SetVerified
<1> QED BY <1>1, <1>2, Mark

LEMMA OrderStep == TypeOK /\ Fetched /\ Order /\ [Next]_vars => Order'
<1> SUFFICES ASSUME TypeOK, Fetched, Order, [Next]_vars PROVE Order'
  OBVIOUS
<1> USE NoneAssumption
    DEF TypeOK, Order, RowFirst, EntryFirst, ListedIsPinned, Under, Go, Done,
        store, process, history
<1>1. CASE Republish BY <1>1 DEF Republish
<1>2. CASE AddElsewhere BY <1>2 DEF AddElsewhere, AddContact
<1>3. ASSUME NEW p \in Proc, Add(p) \/ Resolve(p) \/ PinMember(p) \/ List(p)
      PROVE  Order'
  <2>1. ASSUME NEW c, NEW s \in {"check", "look"}, NEW k, Begin(p, c, s, k),
               UNCHANGED <<row, onRelay, owed>>
        PROVE  Order'
    <3>1. at[p] = "idle" /\ at' = [at EXCEPT ![p] = s]
      BY <2>1 DEF Begin
    <3> QED BY <2>1, <3>1
  <2>2. CASE Add(p) BY <2>1, <2>2 DEF Add
  <2>3. CASE Resolve(p) BY <2>1, <2>3 DEF Resolve
  <2>4. CASE PinMember(p) BY <2>1, <2>4 DEF PinMember
  <2>5. CASE List(p) BY <2>1, <2>5 DEF List
  <2> QED BY <1>3, <2>2, <2>3, <2>4, <2>5
<1>4. ASSUME NEW p \in Proc, Remove(p) PROVE Order'
  <2>1. /\ at[p] = "idle"
        /\ at' = [at EXCEPT ![p] = "forget"]
        /\ row' = row /\ row # None
        /\ ~onRelay' \/ owed'
    BY <1>4 DEF Remove, Begin, RemoveContact
  <2> QED BY <2>1
<1>5. ASSUME NEW p \in Proc, Verify(p) PROVE Order'
  BY <1>5 DEF Verify
<1>6. ASSUME NEW p \in Proc, Look(p) \/ Check(p) \/ ReadBack(p) \/ Quit(p)
      PROVE  Order'
  BY <1>6 DEF Look, Check, ReadBack, Quit
<1>7. ASSUME NEW p \in Proc, Write(p) PROVE Order'
  <2>1. at[p] = "write" /\ UNCHANGED <<onRelay, owed>>
    BY <1>7 DEF Write
  <2>2. row' \in Row /\ row' # None
    BY <1>7, RowWritten
  <2>3. \/ at' = [at EXCEPT ![p] = "tell"]
        \/ at' = [at EXCEPT ![p] = "read"]
        \/ at' = [at EXCEPT ![p] = "idle"]
    <3>1. CASE for[p] \in {"add", "re-add"} BY <1>7, <3>1 DEF Write
    <3>2. CASE for[p] \in {"verify", "chat", "receive"} BY <1>7, <3>2 DEF Write
    <3>3. CASE for[p] \notin {"add", "re-add", "verify", "chat", "receive"}
      BY <1>7, <3>3 DEF Write
    <3> QED BY <3>1, <3>2, <3>3
  <2> QED BY <2>1, <2>2, <2>3
<1>8. ASSUME NEW p \in Proc, Tell(p) PROVE Order'
  <2>1. /\ at[p] = "tell" /\ at' = [at EXCEPT ![p] = "idle"] /\ row' = row
        /\ row # None \/ owed
    BY <1>8 DEF Tell
  <2>2. /\ \A q \in Proc : at'[q] = "tell" => at[q] = "tell"
        /\ \A q \in Proc : at'[q] = "forget" => at[q] = "forget"
    BY <2>1
  <2>3. CASE onRelay' = onRelay /\ owed' = owed
    BY <2>1, <2>2, <2>3
  <2>4. CASE owed' = (owed \/ Under("forget"))
    <3>1. owed => owed'
      BY <2>4
    <3>2. (\E q \in Proc : at[q] = "forget") => owed'
      BY <2>4
    <3> QED
      BY <2>1, <2>2, <3>1, <3>2
  <2> QED BY <1>8, <2>3, <2>4 DEF Tell
<1>9. ASSUME NEW p \in Proc, Match(p) \/ Reject(p) PROVE Order'
  <2>1. UNCHANGED <<at, onRelay, owed>>
    BY <1>9 DEF Match, Reject, Closed
  <2>2. row # None => row' \in Row
    BY <1>9, RowMarked
  <2> QED BY <2>1, <2>2
<1>10. ASSUME NEW p \in Proc, Forget(p) PROVE Order'
  BY <1>10 DEF Forget
<1>11. CASE UNCHANGED vars BY <1>11 DEF vars
<1> QED BY <1>1, <1>2, <1>3, <1>4, <1>5, <1>6, <1>7, <1>8, <1>9, <1>10, <1>11 DEF Next

(***************************************************************************)
(* The theorems.                                                           *)
(***************************************************************************)

(* The parts hold together in every reachable state.                       *)
THEOREM InvAlways == Spec => []Inv
<1>1. Inv /\ [Next]_vars => Inv'
  BY TypeStep, FetchedStep, WriteIsCheckedStep, PromptStep, OrderStep DEF Inv
<1> QED BY InitInv, <1>1, PTL DEF Spec

(* Every variable keeps its type.                                          *)
THEOREM TypesCorrect == Spec => []TypeOK
<1>1. Inv => TypeOK BY DEF Inv
<1> QED BY InvAlways, <1>1, PTL

(* A verified mark stands by a key the user compared (set_verified and     *)
(* upsert_contact).                                                        *)
THEOREM MarksWereCompared == Spec => []MarkWasCompared
<1>1. Inv => MarkWasCompared BY DEF Inv
<1> QED BY InvAlways, <1>1, PTL

(* A removal the relay confirmed stands, but for an entry that another     *)
(* session or an add under way makes (remove_contact_in_chat,              *)
(* contacts_add, contacts_list).                                           *)
THEOREM ConfirmedRemovalsStand == Spec => []ListedIsPinned
<1>1. Inv => ListedIsPinned BY DEF Inv, Order
<1> QED BY InvAlways, <1>1, PTL

(* upsert_contact replaces a key that it read only when asked to.          *)
THEOREM KeysAreKept == Spec => KeyKeptOrAsked
<1> DEFINE Kept(p) ==
      /\ at[p] = "write" /\ at'[p] # "write"
      /\ row # None /\ row' # None /\ row.key # row'.key
      => for[p] = "re-add" \/ existing[p] # row.key
<1>1. Inv /\ [Next]_vars => \A p \in Proc : Kept(p)
  <2> SUFFICES ASSUME Inv, [Next]_vars, NEW p \in Proc,
                      at[p] = "write", at'[p] # "write",
                      row # None, row' # None, row.key # row'.key
               PROVE  for[p] = "re-add" \/ existing[p] # row.key
    OBVIOUS
  <2> USE NoneAssumption DEF Inv, TypeOK
  <2>1. row' = [key |-> key[p], verified |-> (row.key = key[p] /\ row.verified)]
    <3> USE DEF Go, Done, store, process
    <3>1. Next BY DEF vars
    <3>2. ASSUME NEW q \in Proc, Write(q) PROVE q = p
      BY <3>2 DEF Write
    <3>3. ASSUME NEW q \in Proc, Look(q) \/ Check(q) \/ ReadBack(q) \/ Tell(q) \/ Quit(q) \/ Verify(q)
          PROVE  FALSE
      BY <3>3 DEF Look, Check, ReadBack, Tell, Quit, Verify
    <3>4. ASSUME NEW q \in Proc,
                 Add(q) \/ Resolve(q) \/ PinMember(q) \/ List(q) \/ Remove(q)
          PROVE  FALSE
      BY <3>4 DEF Add, Resolve, PinMember, List, Remove, Begin
    <3>5. ASSUME NEW q \in Proc, Match(q) \/ Reject(q) \/ Forget(q) PROVE FALSE
      BY <3>5 DEF Match, Reject, Closed, SetVerified, Forget
    <3>6. ~Republish /\ ~AddElsewhere BY DEF Republish, AddElsewhere
    <3>7. Write(p) BY <3>1, <3>2, <3>3, <3>4, <3>5, <3>6 DEF Next
    <3> QED BY <3>7 DEF Write, Upsert
  <2>2. for[p] = "re-add" \/ existing[p] \in {None, key[p]}
    BY DEF WriteIsChecked
  <2>3. row.key # None BY DEF TypeOK
  <2> QED BY <2>1, <2>2, <2>3
<1>2. Inv /\ [Next]_vars => [\A p \in Proc : Kept(p)]_vars
  BY <1>1
<1> QED BY InvAlways, <1>2, PTL DEF Spec, KeyKeptOrAsked
=============================================================================
