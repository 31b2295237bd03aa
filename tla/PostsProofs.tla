---------------------------- MODULE PostsProofs -----------------------------
(* What Posts promises, proved for any group, any posts, any limit and     *)
(* any number of changes; first the bound of the limiter it runs, for any  *)
(* requests and any order in which they take the time and the lock.        *)
EXTENDS Posts, FiniteSetTheorems, TLAPS

-----------------------------------------------------------------------------
(* The limiter (RateLimit).                                                *)

OnTime == DOMAIN log \ late

(* What is not late is not from the future, and was forgotten only when    *)
(* the window had passed.                                                  *)
NotAhead == \A i \in OnTime : log[i] <= latest
ForgottenIsOld == \A i \in OnTime \ hits : log[i] + Window <= latest

LimiterInv == LimiterTypeOK /\ NotAhead /\ ForgottenIsOld /\ WindowBound

LEMMA LimiterTypeStep == LimiterTypeOK /\ [LimiterNext]_limiter => LimiterTypeOK'
<1> SUFFICES ASSUME LimiterTypeOK, [LimiterNext]_limiter PROVE LimiterTypeOK'
  OBVIOUS
<1> USE LimitAssumption, NoneAssumption DEF LimiterTypeOK
<1>1. CASE Tick BY <1>1 DEF Tick
<1>2. ASSUME NEW r \in Req, Arrive(r) PROVE LimiterTypeOK'
  BY <1>2 DEF Arrive
<1>3. ASSUME NEW r \in Req, Admit(r) PROVE LimiterTypeOK'
  <2>1. stamp[r] \in Nat BY <1>3 DEF Admit, Enter
  <2>2. log' = Append(log, stamp[r]) /\ log' \in Seq(Nat) /\ DOMAIN log' = DOMAIN log \cup {Len(log) + 1}
    BY <1>3, <2>1 DEF Admit
  <2>3. hits' \subseteq DOMAIN log' /\ late' \subseteq DOMAIN log'
    BY <1>3, <2>2 DEF Admit, Recent
  <2>4. latest' \in Nat /\ now' \in Nat /\ stamp' \in [Req -> Nat \cup {None}]
    BY <1>3, <2>1 DEF Admit, Enter, Later
  <2> QED BY <2>2, <2>3, <2>4
<1>4. ASSUME NEW r \in Req, Refuse(r) PROVE LimiterTypeOK'
  BY <1>4 DEF Refuse, Enter, Later, Recent
<1>5. CASE UNCHANGED limiter BY <1>5 DEF limiter
<1> QED BY <1>1, <1>2, <1>3, <1>4, <1>5 DEF LimiterNext

(* What a request at t forgets is a window older than t.                   *)
LEMMA Forgets ==
  ASSUME LimiterTypeOK, ForgottenIsOld, NEW t \in Nat, NEW i \in OnTime, i \notin Recent(t)
  PROVE  log[i] + Window <= Later(t)
<1>1. log[i] \in Nat /\ latest \in Nat /\ Window \in Nat
  BY LimitAssumption DEF LimiterTypeOK, OnTime
<1>2. CASE i \notin hits BY <1>1, <1>2 DEF ForgottenIsOld, Later
<1>3. CASE i \in hits BY <1>1, <1>3 DEF Recent, Later
<1> QED BY <1>2, <1>3

(* The memory is finite, whatever it holds.                                *)
LEMMA RecentIsFinite ==
  ASSUME LimiterTypeOK, NEW t \in Nat
  PROVE  IsFiniteSet(Recent(t)) /\ Cardinality(Recent(t)) \in Nat
<1>1. Recent(t) \subseteq 1 .. Len(log) /\ Len(log) \in Nat
  BY DEF LimiterTypeOK, Recent
<1>2. IsFiniteSet(1 .. Len(log)) BY <1>1, FS_Interval
<1>3. IsFiniteSet(Recent(t)) BY <1>1, <1>2, FS_Subset
<1> QED BY <1>3, FS_CardinalityType

LEMMA AdmitStep ==
  ASSUME LimiterInv, NEW r \in Req, Admit(r)
  PROVE  NotAhead' /\ ForgottenIsOld' /\ WindowBound'
<1> DEFINE t == stamp[r]  n == Len(log) + 1
<1> USE LimitAssumption, NoneAssumption
<1>1. /\ t \in Nat /\ latest \in Nat /\ n \notin DOMAIN log /\ n \in Nat
      /\ latest' = Later(t) /\ latest' \in Nat
  BY DEF LimiterInv, LimiterTypeOK, Admit, Enter, Later
<1>2. /\ DOMAIN log' = DOMAIN log \cup {n} /\ log'[n] = t
      /\ \A i \in DOMAIN log : log'[i] = log[i] /\ log[i] \in Nat
  BY <1>1 DEF LimiterInv, LimiterTypeOK, Admit
<1>3. /\ hits' = Recent(t) \cup {n}
      /\ late' = IF t < latest THEN late \cup {n} ELSE late
      /\ late \subseteq DOMAIN log
  BY DEF LimiterInv, LimiterTypeOK, Admit
<1>4. /\ OnTime' = IF t < latest THEN OnTime ELSE OnTime \cup {n}
      /\ OnTime \subseteq DOMAIN log
  BY <1>1, <1>2, <1>3 DEF OnTime
<1>5. NotAhead'
  BY <1>1, <1>2, <1>4 DEF NotAhead, LimiterInv, Later
<1>6. ForgottenIsOld'
  <2> SUFFICES ASSUME NEW i \in OnTime', i \notin hits'
               PROVE  log'[i] + Window <= latest'
    BY DEF ForgottenIsOld
  <2>1. i \in OnTime /\ i \notin Recent(t) BY <1>3, <1>4
  <2>2. log[i] + Window <= Later(t) BY <1>1, <2>1, Forgets DEF LimiterInv
  <2> QED BY <1>1, <1>2, <1>4, <2>1, <2>2
<1>7. WindowBound'
  <2> SUFFICES ASSUME NEW S \in SUBSET OnTime',
                      \A i, j \in S : log'[j] - log'[i] < Window
               PROVE  Cardinality(S) <= Max
    BY DEF WindowBound, OnTime
  <2>1. CASE n \notin S
    <3>1. S \in SUBSET (DOMAIN log \ late) BY <1>4, <2>1 DEF OnTime
    <3>2. \A i, j \in S : log[j] - log[i] < Window BY <1>2, <3>1
    <3> QED BY <3>1, <3>2 DEF LimiterInv, WindowBound
  (* The hits that share a window with the new one are remembered.         *)
  <2>2. CASE n \in S
    <3>1. t >= latest /\ latest' = t BY <1>1, <1>4, <2>2 DEF Later
    <3>2. S \subseteq Recent(t) \cup {n}
      <4> SUFFICES ASSUME NEW i \in S, i # n PROVE i \in Recent(t)
        OBVIOUS
      <4>1. i \in OnTime /\ log'[i] = log[i] /\ log[i] \in Nat BY <1>2, <1>4
      <4>2. t - log[i] < Window BY <1>2, <2>2, <4>1
      <4>3. i \notin Recent(t) => log[i] + Window <= t
        BY <1>1, <3>1, <4>1, Forgets DEF LimiterInv
      <4> QED BY <1>1, <4>1, <4>2, <4>3
    <3>3. IsFiniteSet(Recent(t)) /\ Cardinality(Recent(t)) \in Nat
      BY <1>1, RecentIsFinite DEF LimiterInv
    <3>4. n \notin Recent(t) BY <1>1 DEF Recent, LimiterInv, LimiterTypeOK
    <3>5. /\ IsFiniteSet(Recent(t) \cup {n})
          /\ Cardinality(Recent(t) \cup {n}) = Cardinality(Recent(t)) + 1
      BY <3>3, <3>4, FS_AddElement
    <3>6. Cardinality(S) <= Cardinality(Recent(t) \cup {n}) /\ Cardinality(S) \in Nat
      BY <3>2, <3>5, FS_Subset, FS_CardinalityType
    <3>7. Cardinality(Recent(t)) < Max BY DEF Admit
    <3> QED BY <3>3, <3>5, <3>6, <3>7
  <2> QED BY <2>1, <2>2
<1> QED BY <1>5, <1>6, <1>7

LEMMA LimiterStep == LimiterInv /\ [LimiterNext]_limiter => LimiterInv'
<1> SUFFICES ASSUME LimiterInv, [LimiterNext]_limiter PROVE LimiterInv'
  OBVIOUS
<1>1. LimiterTypeOK' BY LimiterTypeStep DEF LimiterInv
<1>2. CASE Tick \/ (\E r \in Req : Arrive(r)) \/ UNCHANGED limiter
  <2>1. UNCHANGED <<log, hits, latest, late>> BY <1>2 DEF Tick, Arrive, limiter
  <2> QED BY <1>1, <2>1 DEF LimiterInv, NotAhead, ForgottenIsOld, OnTime, WindowBound
<1>3. ASSUME NEW r \in Req, Admit(r) PROVE LimiterInv'
  BY <1>1, <1>3, AdmitStep DEF LimiterInv
<1>4. ASSUME NEW r \in Req, Refuse(r) PROVE LimiterInv'
  <2>1. /\ stamp[r] \in Nat /\ latest \in Nat /\ latest' = Later(stamp[r])
        /\ hits' = Recent(stamp[r]) /\ UNCHANGED <<log, late>>
    BY <1>4 DEF LimiterInv, LimiterTypeOK, Refuse, Enter
  <2>2. NotAhead'
    BY <2>1 DEF LimiterInv, LimiterTypeOK, NotAhead, OnTime, Later
  <2>3. ForgottenIsOld'
    BY <2>1, Forgets DEF LimiterInv, ForgottenIsOld, OnTime
  <2>4. WindowBound' BY <2>1 DEF LimiterInv, WindowBound
  <2> QED BY <1>1, <2>2, <2>3, <2>4 DEF LimiterInv
<1> QED BY <1>2, <1>3, <1>4 DEF LimiterNext

LEMMA LimiterInitInv == LimiterInit => LimiterInv
<1> SUFFICES ASSUME LimiterInit PROVE LimiterInv
  OBVIOUS
<1>1. LimiterTypeOK BY NoneAssumption DEF LimiterInit, LimiterTypeOK
<1>2. OnTime = {} BY DEF LimiterInit, OnTime
<1>3. WindowBound
  <2> SUFFICES ASSUME NEW S \in SUBSET (DOMAIN log \ late) PROVE Cardinality(S) <= Max
    BY DEF WindowBound
  <2>1. S = {} BY <1>2 DEF OnTime
  <2> QED BY <2>1, FS_EmptySet, LimitAssumption
<1> QED BY <1>1, <1>2, <1>3 DEF LimiterInv, NotAhead, ForgottenIsOld

(* What the limiter remembers and what it has let through agree, in every  *)
(* reachable state.                                                        *)
THEOREM LimiterInvAlways == LimiterSpec => []LimiterInv
<1> QED BY LimiterInitInv, LimiterStep, PTL DEF LimiterSpec

(* No window holds more than Max requests let through, overtaken ones      *)
(* apart (rate_allow).                                                     *)
THEOREM BoundHolds == LimiterSpec => []WindowBound
<1>1. LimiterInv => WindowBound BY DEF LimiterInv
<1> QED BY LimiterInvAlways, <1>1, PTL

-----------------------------------------------------------------------------
(* The post.                                                               *)

Sealed(p, m) == <<p, m>> \in outbox \cup sent

(* What the stage of the author's process says of its post, and of those   *)
(* it has not begun.                                                       *)
StageOK ==
  /\ at # "idle" => post \in Post /\ kind[post] # None
  /\ at = "upload" => kind[post] = "image"
  /\ at \in {"upload", "seal", "row"} => post \notin history
  /\ at = "seal" <=> todo # {}
  /\ \A p \in Post : stamp[p] # None => answer[p] = "asked"
  /\ \A p \in Post : kind[p] = None => /\ p \notin history /\ answer[p] = None
                                       /\ \A m \in Member : ~Sealed(p, m)

(* Everybody a post is meant for is still to do or sealed for.             *)
MeantOK ==
  /\ at \in {"seal", "row"} => \A m \in to[post] \ todo : Sealed(post, m)
  /\ HistoryMeansAll

(* The envelope that names the row waits, as the row says.                 *)
NamedOK ==
  /\ \A p \in Post \ early :
       first[p] # None /\ (p \in history => tick[p] = "queued") => <<p, first[p]>> \in outbox
  /\ \A p \in history : first[p] # None
  /\ at = "seal" => to[post] \ todo = {} \/ first[post] # None
  /\ at = "row" => first[post] # None

(* Grants cover the members from the upload to the last envelope, but for  *)
(* those that another process brought in.                                  *)
Covered(p, m) == m \in grants[p] \/ <<p, m>> \in crossed

GrantedOK ==
  /\ \A p \in Post : answer[p] = "ok" => p \in blob
  /\ at = "upload" => \A m \in cached : Covered(post, m)
  /\ at = "seal" /\ kind[post] = "image"
       => post \in blob /\ \A m \in todo : Covered(post, m)
  /\ \A p \in Post, m \in Member :
       Sealed(p, m) /\ kind[p] = "image" => p \in blob /\ Covered(p, m)

Inv == TypeOK /\ StageOK /\ MeantOK /\ NamedOK /\ GrantedOK

-----------------------------------------------------------------------------
(* The limiter's steps.                                                    *)

LEMMA LimiterSteps == [Next]_vars => [LimiterNext]_limiter
<1> SUFFICES ASSUME [Next]_vars PROVE [LimiterNext]_limiter
  OBVIOUS
<1>1. CASE Regroup \/ DropContact \/ Sync
  BY <1>1 DEF Regroup, DropContact, Sync
<1>2. ASSUME NEW p \in Post, PostText(p) \/ PostImage(p) PROVE UNCHANGED limiter
  BY <1>2 DEF PostText, PostImage
<1>3. ASSUME NEW p \in Post, Reach(p) \/ Upload(p) PROVE LimiterNext
  BY <1>3, PostAssumption DEF Reach, Upload, LimiterNext
<1>4. CASE Uploaded \/ NotUploaded \/ Seal \/ NotAContact
  BY <1>4 DEF Uploaded, NotUploaded, Seal, NotAContact
<1>5. CASE InsertRow \/ StoreMeta \/ Quit \/ Accepted
  BY <1>5 DEF InsertRow, StoreMeta, Quit, Accepted
<1>6. CASE now < MaxNow /\ Tick BY <1>6 DEF LimiterNext
<1>7. CASE UNCHANGED vars BY <1>7 DEF vars
<1> QED BY <1>1, <1>2, <1>3, <1>4, <1>5, <1>6, <1>7 DEF Next

(* Every behaviour of Posts is one of the limiter's, which therefore keeps *)
(* its bound for uploads.                                                  *)
THEOREM PostsAreLimited == Spec => LimiterSpec
<1>1. Init => LimiterInit BY DEF Init
<1> QED BY <1>1, LimiterSteps, PTL DEF Spec, LimiterSpec

(* The bound of the uploads of an author (upload_attachment, rate_allow).  *)
THEOREM UploadsBounded == Spec => []WindowBound
BY PostsAreLimited, BoundHolds, PTL

-----------------------------------------------------------------------------
(* Types.                                                                  *)

LEMMA TypeStep == TypeOK /\ StageOK /\ [Next]_vars => TypeOK'
<1> SUFFICES ASSUME TypeOK, StageOK, [Next]_vars PROVE TypeOK'
  OBVIOUS
<1>a. at # "idle" => post \in Post BY DEF StageOK
<1>0. LimiterTypeOK' BY LimiterSteps, LimiterTypeStep DEF TypeOK
<1> USE <1>0 DEF TypeOK, group_vars, author, envelopes, attachments, Idle, CacheGroup, Change
<1>1. CASE Regroup \/ DropContact BY <1>1 DEF Regroup, DropContact
<1>2. CASE Sync BY <1>2, <1>a DEF Sync
<1>3. ASSUME NEW p \in Post, PostText(p) PROVE TypeOK'
  BY <1>3 DEF PostText, FanOut
<1>4. ASSUME NEW p \in Post, PostImage(p) PROVE TypeOK'
  BY <1>4 DEF PostImage
<1>5. ASSUME NEW p \in Post, Reach(p) PROVE TypeOK'
  BY <1>5 DEF Reach
<1>6. ASSUME NEW p \in Post, Upload(p) PROVE TypeOK'
  BY <1>6 DEF Upload, InsertAttachment, Fail
<1>7. CASE Uploaded BY <1>7 DEF Uploaded, FanOut
<1>8. CASE NotUploaded \/ NotAContact \/ Quit BY <1>8 DEF NotUploaded, NotAContact, Quit
<1>9. CASE Seal BY <1>9, <1>a DEF Seal
<1>10. CASE InsertRow BY <1>10, <1>a DEF InsertRow
<1>11. CASE StoreMeta BY <1>11, <1>a DEF StoreMeta, StoreAttachment
<1>12. CASE Accepted BY <1>12 DEF Accepted, Raise
<1>13. CASE UNCHANGED <<group_vars, author, envelopes, attachments, to, crossed, early>>
  BY <1>13
<1> QED BY <1>1, <1>2, <1>3, <1>4, <1>5, <1>6, <1>7, <1>8, <1>9, <1>10, <1>11, <1>12, <1>13
   DEF Next, vars

-----------------------------------------------------------------------------
(* The stage of the process.                                               *)

LEMMA StageStep == TypeOK /\ StageOK /\ [Next]_vars => StageOK'
<1> SUFFICES ASSUME TypeOK, StageOK, [Next]_vars PROVE StageOK'
  OBVIOUS
<1> USE NothingAssumption, PostAssumption
    DEF TypeOK, LimiterTypeOK, StageOK, Sealed, limiter, group_vars, author, envelopes, attachments, Idle
<1>1. CASE Regroup \/ DropContact \/ Sync
  BY <1>1 DEF Regroup, DropContact, Sync
<1>2. ASSUME NEW p \in Post, PostText(p) PROVE StageOK'
  BY <1>2 DEF PostText, FanOut
<1>3. ASSUME NEW p \in Post, PostImage(p) PROVE StageOK'
  BY <1>3 DEF PostImage
<1>4. ASSUME NEW p \in Post, Reach(p) PROVE StageOK'
  BY <1>4 DEF Reach, Arrive
<1>5. ASSUME NEW p \in Post, Upload(p) PROVE StageOK'
  <2>1. stamp[p] # None /\ stamp' = [stamp EXCEPT ![p] = None]
    BY <1>5 DEF Upload, Admit, Refuse, Enter
  <2>2. answer[p] = "asked" /\ kind[p] # None
    BY <2>1
  <2>3. answer' = [answer EXCEPT ![p] = "ok"] \/ answer' = [answer EXCEPT ![p] = "error"]
    BY <1>5 DEF Upload, InsertAttachment, Fail
  <2>4. UNCHANGED <<author, outbox, sent>>
    BY <1>5 DEF Upload
  <2> QED BY <2>1, <2>2, <2>3, <2>4
<1>6. CASE Uploaded BY <1>6 DEF Uploaded, FanOut
<1>7. CASE NotUploaded \/ NotAContact \/ Quit BY <1>7 DEF NotUploaded, NotAContact, Quit
<1>8. CASE Seal BY <1>8 DEF Seal
<1>9. CASE InsertRow BY <1>9 DEF InsertRow
<1>10. CASE StoreMeta BY <1>10 DEF StoreMeta
<1>11. CASE Accepted BY <1>11 DEF Accepted
<1>12. CASE Tick /\ UNCHANGED <<group_vars, author, envelopes, attachments, to, crossed, early>>
  BY <1>12 DEF Tick
<1>13. CASE UNCHANGED vars BY <1>13 DEF vars
<1> QED BY <1>1, <1>2, <1>3, <1>4, <1>5, <1>6, <1>7, <1>8, <1>9, <1>10, <1>11, <1>12, <1>13 DEF Next

-----------------------------------------------------------------------------
(* What the history shows.                                                 *)

LEMMA MeantStep == TypeOK /\ StageOK /\ MeantOK /\ [Next]_vars => MeantOK'
<1> SUFFICES ASSUME TypeOK, StageOK, MeantOK, [Next]_vars PROVE MeantOK'
  OBVIOUS
<1> USE NothingAssumption
    DEF TypeOK, StageOK, MeantOK, HistoryMeansAll, Sealed, group_vars, author, envelopes, Idle
<1>1. CASE Regroup \/ DropContact \/ Sync
  BY <1>1 DEF Regroup, DropContact, Sync
<1>2. ASSUME NEW p \in Post, PostText(p) PROVE MeantOK'
  BY <1>2 DEF PostText, FanOut
<1>3. ASSUME NEW p \in Post, PostImage(p) \/ Reach(p) \/ Upload(p) PROVE MeantOK'
  BY <1>3 DEF PostImage, Reach, Upload
<1>4. CASE Uploaded BY <1>4 DEF Uploaded, FanOut
<1>5. CASE NotUploaded \/ NotAContact \/ Quit \/ StoreMeta
  BY <1>5 DEF NotUploaded, NotAContact, Quit, StoreMeta
<1>6. CASE Seal BY <1>6 DEF Seal
<1>7. CASE InsertRow BY <1>7 DEF InsertRow
<1>8. CASE Accepted
  <2>1. \A p, m : Sealed(p, m)' <=> Sealed(p, m)
    BY <1>8 DEF Accepted
  <2>2. UNCHANGED <<at, post, todo, history, to>>
    BY <1>8 DEF Accepted
  <2> QED BY <2>1, <2>2
<1>9. CASE UNCHANGED <<group_vars, author, envelopes, attachments, to, crossed, early>>
  BY <1>9
<1> QED BY <1>1, <1>2, <1>3, <1>4, <1>5, <1>6, <1>7, <1>8, <1>9 DEF Next, vars

LEMMA NamedStep == TypeOK /\ StageOK /\ NamedOK /\ [Next]_vars => NamedOK'
<1> SUFFICES ASSUME TypeOK, StageOK, NamedOK, [Next]_vars PROVE NamedOK'
  OBVIOUS
<1> USE NothingAssumption
    DEF TypeOK, StageOK, NamedOK, group_vars, author, envelopes, Idle
<1>1. CASE Regroup \/ DropContact \/ Sync
  BY <1>1 DEF Regroup, DropContact, Sync
<1>2. ASSUME NEW p \in Post, PostText(p) PROVE NamedOK'
  BY <1>2 DEF PostText, FanOut
<1>3. ASSUME NEW p \in Post, PostImage(p) \/ Reach(p) \/ Upload(p) PROVE NamedOK'
  BY <1>3 DEF PostImage, Reach, Upload
<1>4. CASE Uploaded BY <1>4 DEF Uploaded, FanOut
<1>5. CASE NotUploaded \/ NotAContact \/ Quit \/ StoreMeta
  BY <1>5 DEF NotUploaded, NotAContact, Quit, StoreMeta
<1>6. CASE Seal BY <1>6 DEF Seal
<1>7. CASE InsertRow BY <1>7 DEF InsertRow
<1>8. CASE Accepted BY <1>8 DEF Accepted, Raise
<1>9. CASE UNCHANGED <<group_vars, author, envelopes, attachments, to, crossed, early>>
  BY <1>9
<1> QED BY <1>1, <1>2, <1>3, <1>4, <1>5, <1>6, <1>7, <1>8, <1>9 DEF Next, vars

LEMMA GrantedStep == TypeOK /\ StageOK /\ GrantedOK /\ [Next]_vars => GrantedOK'
<1> SUFFICES ASSUME TypeOK, StageOK, GrantedOK, [Next]_vars PROVE GrantedOK'
  OBVIOUS
<1> USE NothingAssumption
    DEF TypeOK, StageOK, GrantedOK, Sealed, Covered, group_vars, author, envelopes, attachments, Idle
<1>1. CASE Regroup \/ DropContact BY <1>1 DEF Regroup, DropContact
<1>2. CASE Sync
  <2>1. /\ cached' = group /\ crossed \subseteq crossed'
        /\ at = "upload" => \A m \in group \ cached : <<post, m>> \in crossed'
        /\ UNCHANGED <<author, envelopes, attachments>>
    BY <1>2 DEF Sync, CacheGroup
  <2>2. at' = "upload" => \A m \in cached' : m \in grants'[post'] \/ <<post', m>> \in crossed'
    BY <2>1
  <2> QED BY <2>1, <2>2
<1>3. ASSUME NEW p \in Post, PostText(p) PROVE GrantedOK'
  BY <1>3 DEF PostText, FanOut
<1>4. ASSUME NEW p \in Post, PostImage(p) PROVE GrantedOK'
  BY <1>4 DEF PostImage
<1>5. ASSUME NEW p \in Post, Reach(p) \/ Upload(p) PROVE GrantedOK'
  BY <1>5 DEF Reach, Upload, InsertAttachment, Fail
<1>6. CASE Uploaded BY <1>6 DEF Uploaded, FanOut
<1>7. CASE NotUploaded \/ NotAContact \/ Quit \/ StoreMeta
  BY <1>7 DEF NotUploaded, NotAContact, Quit, StoreMeta
<1>8. CASE Seal BY <1>8 DEF Seal
<1>9. CASE InsertRow BY <1>9 DEF InsertRow
<1>10. CASE Accepted BY <1>10 DEF Accepted
<1>11. CASE UNCHANGED <<group_vars, author, envelopes, attachments, to, crossed, early>>
  BY <1>11
<1> QED BY <1>1, <1>2, <1>3, <1>4, <1>5, <1>6, <1>7, <1>8, <1>9, <1>10, <1>11 DEF Next, vars

-----------------------------------------------------------------------------
(* The theorems.                                                           *)

LEMMA InitInv == Init => Inv
<1> SUFFICES ASSUME Init PROVE Inv
  OBVIOUS
<1>1. TypeOK BY LimiterInitInv DEF Init, TypeOK, LimiterInv
<1>2. StageOK BY NothingAssumption, PostAssumption DEF Init, LimiterInit, StageOK, Sealed
<1>3. MeantOK /\ NamedOK BY DEF Init, MeantOK, HistoryMeansAll, NamedOK
<1>4. GrantedOK BY NothingAssumption DEF Init, GrantedOK, Sealed
<1> QED BY <1>1, <1>2, <1>3, <1>4 DEF Inv

(* The parts hold together in every reachable state.                       *)
THEOREM InvAlways == Spec => []Inv
<1>1. Inv /\ [Next]_vars => Inv'
  BY TypeStep, StageStep, MeantStep, NamedStep, GrantedStep DEF Inv
<1> QED BY InitInv, <1>1, PTL DEF Spec

(* Whoever is sent an image may download it, but for a member that another *)
(* process cached during its upload; the image is there for that one too   *)
(* (send_image_in_chat, attachment_blob).                                  *)
THEOREM ImagesAreOpen == Spec => []ImagesOpen
<1>1. Inv => ImagesOpen
  <2> SUFFICES ASSUME Inv, NEW e \in outbox \cup sent,
                      kind[e[1]] = "image"
               PROVE  e[1] \in blob /\ (MayDownload(e[1], e[2]) \/ e \in crossed)
    BY DEF ImagesOpen
  <2>1. e[1] \in Post /\ e[2] \in Member /\ e = <<e[1], e[2]>>
    BY DEF Inv, TypeOK
  <2> QED BY <2>1 DEF Inv, GrantedOK, Sealed, Covered, MayDownload
<1> QED BY InvAlways, <1>1, PTL

(* A post with a history row was queued for all it was meant for           *)
(* (compose_group).                                                        *)
THEOREM HistoryIsComplete == Spec => []HistoryMeansAll
<1>1. Inv => HistoryMeansAll BY DEF Inv, MeantOK
<1> QED BY InvAlways, <1>1, PTL

(* A post shown as waiting has an envelope that waits (compose_group,      *)
(* set_state).                                                             *)
THEOREM WaitingPostsWait == Spec => []WaitingIsWaiting
<1>1. Inv => WaitingIsWaiting
  BY NothingAssumption DEF Inv, TypeOK, NamedOK, WaitingIsWaiting
<1> QED BY InvAlways, <1>1, PTL
=============================================================================
