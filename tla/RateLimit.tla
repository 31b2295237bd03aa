----------------------------- MODULE RateLimit ------------------------------
(***************************************************************************)
(* The relay's sliding-window limiter (backend/src/state.rs, rate_allow)   *)
(* for one key.  A request takes the time before it takes the lock, so one *)
(* that waits for the lock acts on a time that may have passed.            *)
(***************************************************************************)
EXTENDS Integers, FiniteSets, Sequences

CONSTANTS
  Req,      \* requests
  Max,      \* hits let through per window
  Window,   \* length of the window
  None

ASSUME LimitAssumption == Max \in Nat /\ Window \in Nat \ {0}
ASSUME NoneAssumption == None \notin Nat

VARIABLES
  now,      \* the clock
  stamp,    \* the time a request took before the lock, or None
  log,      \* history: the times of all hits let through, in order
  hits,     \* the hits the limiter remembers, as positions in log
  latest,   \* history: the latest time any request brought to the lock
  late      \* history: the hits whose request had been overtaken

limiter == <<now, stamp, log, hits, latest, late>>

LimiterTypeOK ==
  /\ now \in Nat /\ latest \in Nat
  /\ stamp \in [Req -> Nat \cup {None}]
  /\ log \in Seq(Nat)
  /\ hits \subseteq DOMAIN log /\ late \subseteq DOMAIN log

LimiterInit ==
  /\ now = 0 /\ latest = 0
  /\ stamp = [r \in Req |-> None]
  /\ log = <<>> /\ hits = {} /\ late = {}

Tick == now' = now + 1 /\ UNCHANGED <<stamp, log, hits, latest, late>>

Arrive(r) ==
  /\ stamp[r] = None
  /\ stamp' = [stamp EXCEPT ![r] = now]
  /\ UNCHANGED <<now, log, hits, latest, late>>

Later(t) == IF t > latest THEN t ELSE latest

(* retain: a hit stays as long as it is younger than the window.           *)
Recent(t) == {i \in hits : t - log[i] < Window}

(* What both outcomes of a request have in common.                         *)
Enter(r) ==
  /\ stamp[r] # None
  /\ stamp' = [stamp EXCEPT ![r] = None]
  /\ latest' = Later(stamp[r])
  /\ UNCHANGED now

(* Mutant: a refusal at one hit too many.                                  *)
AdmitOneMore(r) ==
  /\ Enter(r)
  /\ Cardinality(Recent(stamp[r])) <= Max
  /\ log' = Append(log, stamp[r])
  /\ hits' = Recent(stamp[r]) \cup {Len(log) + 1}
  /\ late' = IF stamp[r] < latest THEN late \cup {Len(log) + 1} ELSE late

Admit(r) ==
  /\ Enter(r)
  /\ Cardinality(Recent(stamp[r])) < Max
  /\ log' = Append(log, stamp[r])
  /\ hits' = Recent(stamp[r]) \cup {Len(log) + 1}
  /\ late' = IF stamp[r] < latest THEN late \cup {Len(log) + 1} ELSE late

Refuse(r) ==
  /\ Enter(r)
  /\ Cardinality(Recent(stamp[r])) >= Max
  /\ hits' = Recent(stamp[r])
  /\ UNCHANGED <<log, late>>

LimiterNext == Tick \/ \E r \in Req : Arrive(r) \/ Admit(r) \/ Refuse(r)

LimiterSpec == LimiterInit /\ [][LimiterNext]_limiter

-----------------------------------------------------------------------------
(* Within any window at most Max requests are let through, not counting    *)
(* those that another request overtook between taking the time and taking  *)
(* the lock: the limiter has by then forgotten hits that they should meet. *)
WindowBound ==
  \A S \in SUBSET (DOMAIN log \ late) :
    (\A i, j \in S : log[j] - log[i] < Window) => Cardinality(S) <= Max
=============================================================================
