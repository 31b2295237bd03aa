------------------------------ MODULE Delivery ------------------------------
(***************************************************************************)
(* What the messaging layer promises, with no connections, frames, tables  *)
(* or handlers: who durably holds a message, and what tick its author is   *)
(* shown.  Custody moves from the sender through the relay to the          *)
(* recipient and no copy is given up before the next one exists; a tick    *)
(* never says more than custody does.                                      *)
(***************************************************************************)
EXTENDS Naturals

CONSTANT Msg

VARIABLES
    holders,    \* holders[m]: who holds m
    tick        \* tick[m]: the state its author sees

vars == <<holders, tick>>

Place == {"sender", "relay", "recipient"}

Order == [absent |-> 0, queued_local |-> 1, sent |-> 2, delivered |-> 3]

(* The ticks that custody h justifies.                                     *)
Justified(t, h) ==
    /\ t = "sent" => {"relay", "recipient"} \cap h # {}
    /\ t = "delivered" => "recipient" \in h /\ "relay" \notin h

Init ==
    /\ holders = [m \in Msg |-> {}]
    /\ tick = [m \in Msg |-> "absent"]

(* The author's row exists; the message never made it to the outbox.       *)
Draft(m) ==
    /\ holders[m] = {} /\ tick[m] = "absent"
    /\ tick' = [tick EXCEPT ![m] = "queued_local"]
    /\ UNCHANGED holders

Post(m) ==
    /\ holders[m] = {} /\ tick[m] = "absent"
    /\ holders' = [holders EXCEPT ![m] = {"sender"}]
    /\ tick' = [tick EXCEPT ![m] = "queued_local"]

(* Custody only moves forward: a message that was taken once is not taken  *)
(* again, whatever is re-sent.                                             *)
Take(m) ==
    /\ holders[m] = {"sender"}
    /\ holders' = [holders EXCEPT ![m] = @ \cup {"relay"}]
    /\ UNCHANGED tick

Store(m) ==
    /\ "relay" \in holders[m] /\ "recipient" \notin holders[m]
    /\ holders' = [holders EXCEPT ![m] = @ \cup {"recipient"}]
    /\ UNCHANGED tick

Drop(m) ==
    /\ {"relay", "recipient"} \subseteq holders[m]
    /\ holders' = [holders EXCEPT ![m] = @ \ {"relay"}]
    /\ UNCHANGED tick

(* The author's tick advances to t, and with "sent" the outbox may let go. *)
Tick(m, t) ==
    /\ Order[t] > Order[tick[m]] /\ tick[m] # "absent"
    /\ Justified(t, holders[m])
    /\ tick' = [tick EXCEPT ![m] = t]
    /\ \/ UNCHANGED holders
       \/ /\ t = "sent"
          /\ holders' = [holders EXCEPT ![m] = @ \ {"sender"}]

(* Two processes of the author write its tick at once: the second tick is  *)
(* lost again, custody is not.                                             *)
Slip(m) ==
    /\ tick[m] = "delivered"
    /\ tick' = [tick EXCEPT ![m] = "sent"]
    /\ UNCHANGED holders \/ holders' = [holders EXCEPT ![m] = @ \ {"sender"}]

(* The outbox lets go of a message whose tick does not change.             *)
Release(m) ==
    /\ "sender" \in holders[m] /\ holders[m] # {"sender"}
    /\ holders' = [holders EXCEPT ![m] = @ \ {"sender"}]
    /\ UNCHANGED tick

(* The author wipes some chats.                                            *)
Wipe(S) ==
    /\ tick' = [m \in Msg |-> IF m \in S THEN "absent" ELSE tick[m]]
    /\ UNCHANGED holders

Next ==
    \/ \E m \in Msg :
          \/ Draft(m) \/ Post(m) \/ Take(m) \/ Store(m) \/ Drop(m) \/ Slip(m) \/ Release(m)
          \/ \E t \in {"sent", "delivered"} : Tick(m, t)
    \/ \E S \in SUBSET Msg : Wipe(S)

Spec == Init /\ [][Next]_vars
=============================================================================
