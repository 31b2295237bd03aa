-------------------------- MODULE GroupAdminProofs --------------------------
(***************************************************************************)
(* Proofs about GroupAdmin for any set of users, any cap and any number of *)
(* requests in flight: a group never outgrows its cap, nobody is in a      *)
(* group that does not exist, every handler step is a step of Roster, and  *)
(* ownership passes to the oldest member.                                  *)
(***************************************************************************)
EXTENDS GroupAdmin, FiniteSetTheorems, TLAPS

(* The members are a finite set of users.                                  *)
LEMMA MembersFinite == Members \subseteq User /\ IsFiniteSet(Members)
<1>1. Members \subseteq User
  BY DEF Members
<1> QED
  BY <1>1, FS_Subset, GroupAdminAssumption

(* One more member, one more row.                                          *)
LEMMA OneMore ==
    ASSUME NEW S, IsFiniteSet(S), Cardinality(S) < MaxMembers, NEW x
    PROVE  Cardinality(S \cup {x}) <= MaxMembers
<1>1. /\ Cardinality(S) \in Nat
      /\ \/ Cardinality(S \cup {x}) = Cardinality(S)
         \/ Cardinality(S \cup {x}) = Cardinality(S) + 1
  BY FS_AddElement, FS_CardinalityType
<1> QED
  BY <1>1, GroupAdminAssumption

(* Fewer members, no more rows.                                            *)
LEMMA OneLess ==
    ASSUME NEW S, IsFiniteSet(S), Cardinality(S) <= MaxMembers,
           NEW T \in SUBSET S
    PROVE  Cardinality(T) <= MaxMembers
<1>1. Cardinality(T) <= Cardinality(S) /\ Cardinality(T) \in Nat /\ Cardinality(S) \in Nat
  BY FS_Subset, FS_CardinalityType
<1> QED
  BY <1>1, GroupAdminAssumption

(* Someone who joined first can be found among any members.                *)
LEMMA OldestIsMember ==
    ASSUME NEW S \in SUBSET User, S # {}, joined \in [User -> Nat]
    PROVE  Oldest(S) \in S
<1> DEFINE T == {joined[u] : u \in S}
<1>1. T \subseteq Nat /\ T # {}
  OBVIOUS
<1>2. \E x \in T : \A y \in T : ~ (<<y, x>> \in OpToRel(<, Nat))
  BY <1>1, WFMin, NatLessThanWellFounded
<1>3. PICK x \in T : \A y \in T : ~ (y < x)
  <2> HIDE DEF T
  <2> QED
    BY <1>1, <1>2 DEF OpToRel
<1>4. PICK u \in S : x = joined[u]
  BY <1>3
<1>5. \A v \in S : joined[u] <= joined[v]
  BY <1>3, <1>4
<1> QED
  BY <1>4, <1>5 DEF Oldest

(* The fields a handler sets keep the table of requests well-formed.       *)
LEMMA SetField ==
    ASSUME NEW f \in [Req -> Task], NEW r \in Req
    PROVE  /\ \A p \in Point : [f EXCEPT ![r].at = p] \in [Req -> Task]
           /\ \A ro \in Role : [f EXCEPT ![r].seen = ro] \in [Req -> Task]
           /\ \A b \in BOOLEAN : [f EXCEPT ![r].owned = b] \in [Req -> Task]
           /\ \A u \in User : [f EXCEPT ![r].heir = u] \in [Req -> Task]
  BY DEF Task

(* A request in flight names users, and an heir once it has chosen one.    *)
Wellformed ==
    \A r \in Req : task[r].at # "idle" =>
        /\ task[r].op # "none"
        /\ task[r].by \in User /\ task[r].target \in User
        /\ task[r].at = "handover" => task[r].heir \in User

(* A handler's step, or none, keeps the table of requests well-formed.     *)
LEMMA TaskType ==
    ASSUME TypeOK, Wellformed, NEW r \in Req,
           Step(r) \/ Abandon(r)
           \/ \E o \in {"add", "remove", "delete"}, u \in User, t \in User : Begin(r, o, u, t)
    PROVE  task' \in [Req -> Task] /\ Wellformed'
<1> task \in [Req -> Task] /\ role \in [User -> Role] /\ joined \in [User -> Nat]
  BY DEF TypeOK
<1> USE DEF Wellformed
<1>0. Idle \in Task /\ Idle.at = "idle"
  BY DEF Idle, Task, Point, Role
<1>1. CASE End(r)
  BY <1>0, <1>1 DEF End
<1>2. ASSUME NEW p \in Point, p # "handover", Goto(r, p), task[r].at # "idle"
      PROVE  task' \in [Req -> Task] /\ Wellformed'
  <2>1. task' \in [Req -> Task]
    BY <1>2, SetField DEF Goto
  <2>2. /\ \A s \in Req \ {r} : task'[s] = task[s]
        /\ task'[r].at = p /\ task'[r].op = task[r].op
        /\ task'[r].by = task[r].by /\ task'[r].target = task[r].target
    BY <1>2 DEF Goto, Task
  <2> QED
    BY <1>2, <2>1, <2>2
<1>3. CASE CheckRequester(r) /\ ~End(r)
  <2> DEFINE ro == role[task[r].by]
             next == IF task[r].op = "remove" THEN "target" ELSE task[r].op
             f == [task EXCEPT ![r].at = next]
  <2>1. task' = [f EXCEPT ![r].seen = ro] /\ task[r].at = "requester"
    BY <1>3 DEF CheckRequester, At
  <2>2. ro \in Role /\ next \in Point \ {"handover"}
    BY <2>1 DEF Task, Point
  <2>3. task' \in [Req -> Task]
    BY <2>1, <2>2, SetField
  <2>4. /\ \A s \in Req \ {r} : task'[s] = task[s]
        /\ task'[r].at = next /\ task'[r].op = task[r].op
        /\ task'[r].by = task[r].by /\ task'[r].target = task[r].target
    BY <2>1 DEF Task
  <2> QED
    BY <2>1, <2>2, <2>3, <2>4
<1>4. CASE CheckTarget(r) /\ ~End(r)
  <2> DEFINE owned == role[task[r].target] = "owner"
             f == [task EXCEPT ![r].at = "remove"]
  <2>1. task' = [f EXCEPT ![r].owned = owned] /\ task[r].at = "target"
    BY <1>4 DEF CheckTarget, At
  <2>2. owned \in BOOLEAN /\ "remove" \in Point
    BY DEF Point
  <2>3. task' \in [Req -> Task]
    BY <2>1, <2>2, SetField
  <2>4. /\ \A s \in Req \ {r} : task'[s] = task[s]
        /\ task'[r].at = "remove" /\ task'[r].op = task[r].op
        /\ task'[r].by = task[r].by /\ task'[r].target = task[r].target
    BY <2>1 DEF Task
  <2> QED
    BY <2>1, <2>3, <2>4
<1>5. CASE Insert(r) \/ Handover(r) \/ Delete(r) \/ Abandon(r)
  BY <1>1, <1>5 DEF Insert, Handover, Delete, Abandon
<1>6. CASE Remove(r)
  <2>1. "heirs" \in Point
    BY DEF Point
  <2> QED
    BY <1>1, <1>2, <1>6, <2>1 DEF Remove, At
<1>7. CASE ReadHeirs(r)
  <2>1. CASE Members = {}
    <3>1. Goto(r, "discard") /\ "discard" \in Point /\ task[r].at = "heirs"
      BY <1>7, <2>1 DEF ReadHeirs, Goto, Point, At
    <3> QED
      BY <1>2, <3>1
  <2>2. CASE Members # {}
    <3> DEFINE heir == Oldest(Members)
               f == [task EXCEPT ![r].at = "handover"]
    <3>1. task' = [f EXCEPT ![r].heir = heir] /\ task[r].at = "heirs"
      BY <1>7, <2>2 DEF ReadHeirs, At
    <3>2. heir \in User /\ "handover" \in Point
      BY <2>2, OldestIsMember, MembersFinite DEF Point
    <3>3. task' \in [Req -> Task]
      BY <3>1, <3>2, SetField
    <3>4. /\ \A s \in Req \ {r} : task'[s] = task[s]
          /\ task'[r].at = "handover" /\ task'[r].op = task[r].op /\ task'[r].heir = heir
          /\ task'[r].by = task[r].by /\ task'[r].target = task[r].target
      BY <3>1 DEF Task
    <3> QED
      BY <3>1, <3>2, <3>3, <3>4
  <2> QED
    BY <2>1, <2>2
<1>8. ASSUME NEW o \in {"add", "remove", "delete"}, NEW u \in User, NEW t \in User,
             Begin(r, o, u, t)
      PROVE  task' \in [Req -> Task] /\ Wellformed'
  <2> DEFINE new == Request(o, u, t)
  <2>1. new \in Task /\ new.op = o /\ new.by = u /\ new.target = t /\ new.at = "requester"
    BY DEF Request, Task, Point, Role
  <2>2. task' = [task EXCEPT ![r] = new]
    BY <1>8 DEF Begin
  <2> HIDE DEF new
  <2> QED
    BY <2>1, <2>2
<1>9. CASE LockGroup(r) \/ CountMembers(r)
  <2>1. "count" \in Point /\ "insert" \in Point
    BY DEF Point
  <2> QED
    BY <1>1, <1>2, <1>9, <2>1 DEF LockGroup, CountMembers, At
<1> QED
  BY <1>1, <1>3, <1>4, <1>5, <1>6, <1>7, <1>8, <1>9 DEF Step

(* Only the request that acts moves, and it was under way.                 *)
LEMMA OneMoves ==
    ASSUME TypeOK, NEW r \in Req, Step(r) \/ Abandon(r)
    PROVE  ~At(r, "idle") /\ \A s \in Req \ {r} : task'[s] = task[s]
<1>1. ~At(r, "idle")
  BY DEF Step, CheckRequester, CheckTarget, LockGroup, CountMembers, Insert, Remove, ReadHeirs, Handover, Delete, Abandon, At
<1>2. task \in [Req -> Task]
  BY DEF TypeOK
<1>3. CASE End(r)
  BY <1>1, <1>2, <1>3 DEF End
<1>4. CASE ~End(r) /\ CheckRequester(r)
  <2> DEFINE next == IF task[r].op = "remove" THEN "target" ELSE task[r].op
  <2>1. task' = [task EXCEPT ![r].at = next, ![r].seen = role[task[r].by]]
    BY <1>4 DEF CheckRequester
  <2>2. \A s \in Req \ {r} : task'[s] = task[s]
    BY <1>2, <2>1
  <2> QED
    BY <1>1, <2>2
<1>5. CASE ~End(r) /\ CheckTarget(r)
  <2>1. task' = [task EXCEPT ![r].at = "remove",
                             ![r].owned = (role[task[r].target] = "owner")]
    BY <1>5 DEF CheckTarget
  <2>2. \A s \in Req \ {r} : task'[s] = task[s]
    BY <1>2, <2>1
  <2> QED
    BY <1>1, <2>2
<1>6. CASE ~End(r) /\ (LockGroup(r) \/ CountMembers(r) \/ Remove(r))
  BY <1>1, <1>2, <1>6 DEF LockGroup, CountMembers, Remove, Goto
<1>7. CASE ReadHeirs(r)
  <2>1. \/ task' = [task EXCEPT ![r].at = "discard"]
        \/ task' = [task EXCEPT ![r].at = "handover", ![r].heir = Oldest(Members)]
    BY <1>7 DEF ReadHeirs
  <2>2. \A s \in Req \ {r} : task'[s] = task[s]
    BY <1>2, <2>1
  <2> QED
    BY <1>1, <2>2
<1> QED
  BY <1>3, <1>4, <1>5, <1>6, <1>7 DEF Step, Insert, Handover, Delete, Abandon

-----------------------------------------------------------------------------
Holding(r) == task[r].at \in {"count", "insert"}

(* One transaction at a time has the group's row, the group is there while *)
(* it has, and the room it counted is there when it inserts.               *)
LockHeld ==
    /\ \A r, s \in Req : Holding(r) /\ Holding(s) => r = s
    /\ \A r \in Req : Holding(r) => stage = "live"
    /\ \A r \in Req : At(r, "insert") => Cardinality(Members) < MaxMembers

(* What the steps preserve together.                                       *)
Sound == TypeOK /\ WithinCap /\ NoGhosts /\ Wellformed /\ LockHeld

LEMMA InitSound == Init => Sound
<1> SUFFICES ASSUME Init PROVE Sound
  OBVIOUS
<1>1. TypeOK
  BY DEF Init, TypeOK, Idle, Task, Point, Role
<1>2. Members = {}
  BY DEF Init, Members
<1>3. WithinCap /\ NoGhosts
  BY <1>2, FS_EmptySet, GroupAdminAssumption DEF WithinCap, NoGhosts
<1>4. Wellformed /\ LockHeld
  BY DEF Init, Wellformed, LockHeld, Holding, At, Idle
<1> QED
  BY <1>1, <1>3, <1>4 DEF Sound

(* Roster counts as this module does.                                      *)
LEMMA SameCount == \A S : R!Cardinality(S) = Cardinality(S)
  BY DEF R!Cardinality, Cardinality

(* Every step is a change of membership that Roster allows, or none.  This *)
(* is where the stale reads are answered: whatever a handler has seen, the *)
(* store call it ends with tests again all that Roster demands.            *)
LEMMA RosterStep == Sound /\ [Next]_vars => [R!Next]_(R!vars)
<1> SUFFICES ASSUME Sound, [Next]_vars PROVE [R!Next]_(R!vars)
  OBVIOUS
<1> USE DEF R!Next, R!vars
<1>0. role \in [User -> Role] /\ Creator \in User /\ epoch \in Nat
  BY GroupAdminAssumption DEF Sound, TypeOK
<1>1. CASE UNCHANGED groupVars
  BY <1>1 DEF groupVars, Members
<1>2. CASE Create
  <2>1. Members = {}
    BY <1>2 DEF Create, Sound, NoGhosts
  <2>2. Members' = {Creator}
    BY <1>0, <1>2, <2>1 DEF Create, Members
  <2> QED
    BY <1>2, <2>2 DEF Create, R!Create
<1>3. ASSUME NEW r \in Req, Insert(r) PROVE [R!Next]_(R!vars)
  <2> DEFINE t == task[r].target
  <2>1. CASE role[t] # "none"
    BY <1>1, <1>3, <2>1 DEF Insert
  <2>2. CASE role[t] = "none"
    <3>1. t \in User
      BY <1>3 DEF Insert, At, Sound, Wellformed
    <3>2. /\ role' = [role EXCEPT ![t] = "member"]
          /\ stage' = stage /\ epoch' = epoch + 1
      BY <1>3, <2>2 DEF Insert
    <3>3. Members' = Members \cup {t} /\ t \notin Members
      BY <1>0, <2>2, <3>1, <3>2 DEF Members
    <3>4. stage = "live" /\ Cardinality(Members) < MaxMembers
      BY <1>3 DEF Insert, At, Sound, LockHeld, Holding
    <3>5. R!Join(t)
      BY <3>2, <3>3, <3>4, SameCount DEF R!Join
    <3> QED
      BY <3>1, <3>5
  <2> QED
    BY <2>1, <2>2
<1>4. ASSUME NEW r \in Req, Remove(r) PROVE [R!Next]_(R!vars)
  <2> DEFINE t == task[r].target
  <2>1. CASE role[t] = "none"
    BY <1>1, <1>4, <2>1 DEF Remove
  <2>2. CASE role[t] # "none"
    <3>1. t \in User
      BY <1>4 DEF Remove, At, Sound, Wellformed
    <3>2. Unlist(t)
      BY <1>4, <2>2 DEF Remove
    <3>3. Members' = Members \ {t} /\ t \in Members
      BY <1>0, <2>2, <3>1, <3>2 DEF Members, Unlist
    <3>4. R!Leave(t)
      BY <3>2, <3>3 DEF R!Leave, Unlist
    <3> QED
      BY <3>1, <3>4
  <2> QED
    BY <2>1, <2>2
<1>5. ASSUME NEW r \in Req, Handover(r) PROVE [R!Next]_(R!vars)
  <2>1. task[r].heir \in User
    BY <1>5 DEF Handover, At, Sound, Wellformed
  <2>2. Members' = Members
    BY <1>0, <1>5, <2>1 DEF Handover, Members
  <2> QED
    BY <1>5, <2>2 DEF Handover
<1>6. ASSUME NEW r \in Req, Delete(r) PROVE [R!Next]_(R!vars)
  <2>1. CASE stage # "live"
    BY <1>1, <1>6, <2>1 DEF Delete
  <2>2. CASE stage = "live"
    <3>1. DropGroup
      BY <1>6, <2>2 DEF Delete
    <3>2. Members' = {}
      BY <3>1 DEF DropGroup, Members
    <3>3. R!Delete
      BY <2>2, <3>1, <3>2 DEF R!Delete, DropGroup
    <3> QED
      BY <3>3
  <2> QED
    BY <2>1, <2>2
<1>7. ASSUME NEW r \in Req,
             \/ CheckRequester(r) \/ CheckTarget(r) \/ LockGroup(r) \/ CountMembers(r)
             \/ ReadHeirs(r) \/ Abandon(r)
             \/ \E o \in {"add", "remove", "delete"}, u \in User, t \in User : Begin(r, o, u, t)
      PROVE  [R!Next]_(R!vars)
  BY <1>1, <1>7 DEF CheckRequester, CheckTarget, LockGroup, CountMembers, ReadHeirs, Abandon, Begin
<1>8. CASE UNCHANGED vars
  BY <1>1, <1>8 DEF vars
<1> QED
  BY <1>2, <1>3, <1>4, <1>5, <1>6, <1>7, <1>8 DEF Next, Step

(* What Roster promises follows from its steps alone.                      *)
LEMMA RosterKeeps ==
    ASSUME WithinCap, NoGhosts, [R!Next]_(R!vars)
    PROVE  WithinCap' /\ NoGhosts'
<1> USE DEF WithinCap, NoGhosts
<1>0. IsFiniteSet(Members)
  BY MembersFinite
<1>1. CASE R!Create
  <2>1. Cardinality({Creator}) = 1
    BY FS_Singleton
  <2> QED
    BY <1>1, <2>1, GroupAdminAssumption DEF R!Create
<1>2. CASE R!Delete
  BY <1>2, FS_EmptySet, GroupAdminAssumption DEF R!Delete
<1>3. ASSUME NEW u \in User, R!Join(u) PROVE WithinCap' /\ NoGhosts'
  <2>1. Cardinality(Members \cup {u}) <= MaxMembers
    BY <1>0, <1>3, OneMore, SameCount DEF R!Join
  <2> QED
    BY <1>3, <2>1 DEF R!Join
<1>4. ASSUME NEW u \in User, R!Leave(u) PROVE WithinCap' /\ NoGhosts'
  <2>1. Cardinality(Members \ {u}) <= MaxMembers
    BY <1>0, OneLess
  <2> QED
    BY <1>4, <2>1 DEF R!Leave
<1>5. CASE UNCHANGED R!vars
  BY <1>5 DEF R!vars
<1> QED
  BY <1>1, <1>2, <1>3, <1>4, <1>5 DEF R!Next

(* The types of everything but the requests.                               *)
GroupTyped ==
    /\ stage \in {"none", "live", "deleted"}
    /\ role \in [User -> Role] /\ joined \in [User -> Nat] /\ epoch \in Nat
    /\ disturbed \in BOOLEAN

(* Who has the row acts alone: nothing that changes the membership passes. *)
LEMMA LockStep == Sound /\ [Next]_vars => LockHeld'
<1> SUFFICES ASSUME Sound, [Next]_vars PROVE LockHeld'
  OBVIOUS
<1> USE DEF LockHeld, Holding, At
<1>0. /\ task \in [Req -> Task] /\ role \in [User -> Role] /\ LockHeld
      /\ Idle.at = "idle"
  BY DEF Sound, TypeOK, Idle
<1>1. CASE UNCHANGED vars
  BY <1>0, <1>1 DEF vars, groupVars, Members
<1>2. CASE Create
  BY <1>0, <1>2 DEF Create
<1>3. ASSUME NEW q \in Req, UNCHANGED <<stage, Members>>,
             \A s \in Req \ {q} : task'[s] = task[s],
             task'[q].at \notin {"count", "insert"}
      PROVE  LockHeld'
  BY <1>0, <1>3
<1>4. ASSUME NEW q \in Req, ~Locked, \A s \in Req \ {q} : task'[s] = task[s],
             task'[q].at \notin {"count", "insert"}
      PROVE  LockHeld'
  BY <1>4 DEF Locked
<1>5. ASSUME NEW q \in Req, End(q)
      PROVE  task'[q].at = "idle" /\ \A s \in Req \ {q} : task'[s] = task[s]
  BY <1>0, <1>5 DEF End
<1>6. ASSUME NEW q \in Req, NEW p, Goto(q, p)
      PROVE  task'[q].at = p /\ \A s \in Req \ {q} : task'[s] = task[s]
  BY <1>0, <1>6 DEF Goto, Task
<1>7. ASSUME NEW q \in Req, NEW o, NEW u, NEW t, Begin(q, o, u, t) PROVE LockHeld'
  <2>1. /\ task'[q].at = "requester" /\ \A s \in Req \ {q} : task'[s] = task[s]
        /\ UNCHANGED <<stage, Members>>
    BY <1>0, <1>7 DEF Begin, Request, groupVars, Members
  <2> QED
    BY <1>3, <2>1
<1>8. ASSUME NEW q \in Req, CheckRequester(q) \/ CheckTarget(q) \/ ReadHeirs(q) \/ Abandon(q)
      PROVE  LockHeld'
  <2>1. UNCHANGED <<stage, Members>>
    BY <1>8 DEF CheckRequester, CheckTarget, ReadHeirs, Abandon, groupVars, Members
  <2>2. \A s \in Req \ {q} : task'[s] = task[s]
    BY <1>8, OneMoves DEF Sound, Step
  <2>3. task'[q].at \notin {"count", "insert"}
    <3>1. CASE End(q)
      BY <1>5, <3>1
    <3>2. CASE CheckRequester(q) /\ ~End(q)
      <4>1. task[q] \in Task
        BY <1>0
      <4>2. task[q].op \in {"none", "add", "remove", "delete"}
        BY <4>1 DEF Task
      <4>3. PICK next, ro :
              /\ next = IF task[q].op = "remove" THEN "target" ELSE task[q].op
              /\ task' = [task EXCEPT ![q].at = next, ![q].seen = ro]
        BY <3>2 DEF CheckRequester
      <4>4. next \in {"target", "none", "add", "delete"}
        BY <4>2, <4>3
      <4>5. task'[q] = [task[q] EXCEPT !.at = next, !.seen = ro]
        BY <1>0, <4>3
      <4>6. task'[q].at = next
        BY <4>1, <4>5 DEF Task
      <4> QED
        BY <4>4, <4>6
    <3>3. CASE CheckTarget(q) /\ ~End(q)
      <4>1. PICK b : task' = [task EXCEPT ![q].at = "remove", ![q].owned = b]
        BY <3>3 DEF CheckTarget
      <4> QED
        BY <1>0, <4>1 DEF Task
    <3>4. CASE ReadHeirs(q)
      BY <1>0, <3>4 DEF ReadHeirs, Task
    <3> QED
      BY <1>8, <3>1, <3>2, <3>3, <3>4 DEF Abandon
  <2> QED
    BY <1>3, <2>1, <2>2, <2>3
<1>9. ASSUME NEW q \in Req, LockGroup(q) PROVE LockHeld'
  <2>1. ~Locked /\ UNCHANGED <<stage, Members>>
    BY <1>9 DEF LockGroup, groupVars, Members
  <2>2. CASE End(q)
    BY <1>4, <1>5, <2>1, <2>2
  <2>3. CASE stage = "live" /\ Goto(q, "count")
    BY <1>6, <2>1, <2>3 DEF Locked
  <2> QED
    BY <1>9, <2>2, <2>3 DEF LockGroup
<1>10. ASSUME NEW q \in Req, CountMembers(q) PROVE LockHeld'
  <2>1. /\ task[q].at = "count" /\ UNCHANGED <<stage, Members>>
    BY <1>10 DEF CountMembers, groupVars, Members
  <2>2. CASE End(q)
    BY <1>3, <1>5, <2>1, <2>2
  <2>3. CASE Cardinality(Members) < MaxMembers /\ Goto(q, "insert")
    <3>1. task'[q].at = "insert" /\ \A s \in Req \ {q} : task'[s] = task[s]
      BY <1>6, <2>3
    <3>2. \A s \in Req \ {q} : task'[s].at \notin {"count", "insert"}
      BY <1>0, <2>1, <3>1
    <3> QED
      BY <1>0, <2>1, <2>3, <3>1, <3>2
  <2> QED
    BY <1>10, <2>2, <2>3 DEF CountMembers
<1>11. ASSUME NEW q \in Req, Insert(q) PROVE LockHeld'
  <2>1. /\ task[q].at = "insert" /\ task'[q].at = "idle"
        /\ \A s \in Req \ {q} : task'[s] = task[s]
    BY <1>5, <1>11 DEF Insert
  <2>2. \A s \in Req : task'[s].at \notin {"count", "insert"}
    BY <1>0, <2>1
  <2> QED
    BY <2>2
<1>12. ASSUME NEW q \in Req, Remove(q) PROVE LockHeld'
  <2>1. task'[q].at \in {"idle", "heirs"} /\ \A s \in Req \ {q} : task'[s] = task[s]
    BY <1>5, <1>6, <1>12 DEF Remove
  <2>2. ~Locked \/ UNCHANGED <<stage, Members>>
    BY <1>12 DEF Remove, groupVars, Members
  <2> QED
    BY <1>3, <1>4, <2>1, <2>2
<1>13. ASSUME NEW q \in Req, Handover(q) PROVE LockHeld'
  <2>1. task'[q].at = "idle" /\ \A s \in Req \ {q} : task'[s] = task[s]
    BY <1>5, <1>13 DEF Handover
  <2>2. UNCHANGED <<stage, Members>>
    BY <1>0, <1>13 DEF Handover, Members, Sound, Wellformed
  <2> QED
    BY <1>3, <2>1, <2>2
<1>14. ASSUME NEW q \in Req, Delete(q) PROVE LockHeld'
  <2>1. task'[q].at = "idle" /\ \A s \in Req \ {q} : task'[s] = task[s]
    BY <1>5, <1>14 DEF Delete
  <2>2. ~Locked \/ UNCHANGED <<stage, Members>>
    BY <1>14 DEF Delete, groupVars, Members
  <2> QED
    BY <1>3, <1>4, <2>1, <2>2
<1> QED
  BY <1>1, <1>2, <1>7, <1>8, <1>9, <1>10, <1>11, <1>12, <1>13, <1>14 DEF Next, Step

LEMMA NextSound == Sound /\ [Next]_vars => Sound'
<1> SUFFICES ASSUME Sound, [Next]_vars PROVE Sound'
  OBVIOUS
<1>0. TypeOK
  BY DEF Sound
<1>1. WithinCap' /\ NoGhosts'
  BY RosterStep, RosterKeeps DEF Sound
<1>2. task' \in [Req -> Task] /\ Wellformed'
  <2>1. CASE Create \/ UNCHANGED vars
    BY <2>1 DEF Create, vars, Sound, TypeOK, Wellformed
  <2>2. CASE ~(Create \/ UNCHANGED vars)
    BY <2>2, TaskType DEF Sound, Next
  <2> QED
    BY <2>1, <2>2
<1>4. LockHeld'
  BY LockStep
<1>3. GroupTyped'
  <2> USE <1>0 DEF TypeOK, GroupTyped, Role
  <2>1. CASE Create
    BY <2>1, GroupAdminAssumption DEF Create
  <2>2. ASSUME NEW r \in Req, Insert(r) PROVE GroupTyped'
    BY <2>2 DEF Insert, groupVars
  <2>3. ASSUME NEW r \in Req, Remove(r) PROVE GroupTyped'
    BY <2>3 DEF Remove, Unlist, groupVars
  <2>4. ASSUME NEW r \in Req, Handover(r) PROVE GroupTyped'
    BY <2>4 DEF Handover
  <2>5. ASSUME NEW r \in Req, Delete(r) PROVE GroupTyped'
    BY <2>5 DEF Delete, DropGroup, groupVars
  <2>6. ASSUME NEW r \in Req,
               \/ CheckRequester(r) \/ CheckTarget(r) \/ LockGroup(r) \/ CountMembers(r)
               \/ ReadHeirs(r) \/ Abandon(r)
               \/ \E o \in {"add", "remove", "delete"}, u \in User, t \in User : Begin(r, o, u, t)
        PROVE  GroupTyped'
    BY <2>6 DEF CheckRequester, CheckTarget, LockGroup, CountMembers, ReadHeirs, Abandon, Begin, groupVars
  <2>7. CASE UNCHANGED vars
    BY <2>7 DEF vars, groupVars
  <2> QED
    BY <2>1, <2>2, <2>3, <2>4, <2>5, <2>6, <2>7 DEF Next, Step
<1> QED
  BY <1>1, <1>2, <1>3, <1>4 DEF Sound, TypeOK, GroupTyped

(* The inductive invariant: types, the cap, no ghosts, requests that name  *)
(* users, and one transaction at a time with the group's row.              *)
THEOREM SoundAlways == Spec => []Sound
<1> QED
  BY InitSound, NextSound, PTL DEF Spec

(* Every variable keeps its type.                                          *)
THEOREM TypesCorrect == Spec => []TypeOK
<1>1. Sound => TypeOK
  BY DEF Sound
<1> QED
  BY <1>1, SoundAlways, PTL

(* However many adds race for the last place, counting first and inserting *)
(* after, and however requests stop in between, no group outgrows          *)
(* MAX_GROUP_MEMBERS: the lock is what makes the count still hold          *)
(* (add_group_member).                                                     *)
THEOREM CapHolds == Spec => []WithinCap
<1>1. Sound => WithinCap
  BY DEF Sound
<1> QED
  BY <1>1, SoundAlways, PTL

(* No request that outlives its group leaves a member in it.               *)
THEOREM NobodyInDeletedGroup == Spec => []NoGhosts
<1>1. Sound => NoGhosts
  BY DEF Sound
<1> QED
  BY <1>1, SoundAlways, PTL

(* The handlers implement Roster: one membership change per epoch.         *)
THEOREM HandlersImplementRoster == Spec => ImplementsRoster
<1>1. Init => R!Init
  BY DEF Init, R!Init, Members
<1> QED
  BY <1>1, SoundAlways, RosterStep, PTL DEF Spec, ImplementsRoster, R!Spec

-----------------------------------------------------------------------------
(* Succession.                                                             *)

(* Joining later means a larger epoch, and every change has its own.       *)
Ordered ==
    /\ \A u \in Members : joined[u] \in 1..epoch
    /\ \A u, v \in Members : joined[u] = joined[v] => u = v

(* Nobody gets past the first check of a group that was never created.     *)
NotYet == stage = "none" => \A r \in Req : task[r].at \in {"idle", "requester"}

OneAtWork == ~disturbed => \A r, s \in Req : ~At(r, "idle") /\ ~At(s, "idle") => r = s

Owners == {u \in User : role[u] = "owner"}

First(u) == u \in Members /\ \A v \in Members : joined[u] <= joined[v]

Succeeding == {"heirs", "handover", "discard"}

(* The owner is the first of the members, but while its own removal is     *)
(* under way: then there is none, and the next in line is known.           *)
Line ==
    /\ (\A r \in Req : task[r].at \notin Succeeding) => \E u \in User : First(u) /\ Owners = {u}
    /\ \A r \in Req :
          /\ At(r, "remove") => (task[r].owned <=> role[task[r].target] = "owner")
          /\ At(r, "heirs") => Owners = {}
          /\ At(r, "handover") => Owners = {} /\ First(task[r].heir)
          /\ At(r, "discard") => Members = {}

Succession == stage = "live" /\ ~disturbed => Line

Lineage == Ordered /\ NotYet /\ OneAtWork /\ Succession

(* The oldest of some members is first among them.                         *)
LEMMA OldestIsFirst ==
    ASSUME Members # {}, joined \in [User -> Nat]
    PROVE  First(Oldest(Members))
<1> DEFINE T == {joined[u] : u \in Members}
<1>1. T \subseteq Nat /\ T # {} /\ Members \subseteq User
  BY DEF Members
<1>2. \E x \in T : \A y \in T : ~ (<<y, x>> \in OpToRel(<, Nat))
  BY <1>1, WFMin, NatLessThanWellFounded
<1>3. PICK x \in T : \A y \in T : ~ (y < x)
  <2> HIDE DEF T
  <2> QED
    BY <1>1, <1>2 DEF OpToRel
<1>4. PICK u \in Members : x = joined[u]
  BY <1>3
<1>5. \A v \in Members : joined[u] <= joined[v]
  BY <1>1, <1>3, <1>4
<1> QED
  BY <1>4, <1>5 DEF Oldest, First

LEMMA InitLineage == Init => Lineage
BY DEF Init, Lineage, Ordered, NotYet, OneAtWork, Succession, Members, At, Idle

(* Every membership change has its own epoch.                              *)
LEMMA OrderedStep == Sound /\ Ordered /\ [Next]_vars => Ordered'
<1> SUFFICES ASSUME Sound, Ordered, [Next]_vars PROVE Ordered'
  OBVIOUS
<1>0. /\ role \in [User -> Role] /\ joined \in [User -> Nat] /\ epoch \in Nat
      /\ Creator \in User
  BY GroupAdminAssumption DEF Sound, TypeOK
<1>1. CASE UNCHANGED groupVars
  BY <1>1 DEF groupVars, Ordered, Members
<1>2. CASE Create
  <2>1. Members = {}
    BY <1>2 DEF Create, Sound, NoGhosts
  <2>2. Members' = {Creator}
    BY <1>0, <1>2, <2>1 DEF Create, Members
  <2> QED
    BY <1>0, <1>2, <2>2 DEF Create, Ordered
<1>3. ASSUME NEW r \in Req, Insert(r), role[task[r].target] = "none" PROVE Ordered'
  <2> DEFINE t == task[r].target
  <2>1. t \in User /\ t \notin Members
    BY <1>3 DEF Insert, At, Sound, Wellformed, Members
  <2>2. /\ role' = [role EXCEPT ![t] = "member"] /\ epoch' = epoch + 1
        /\ joined' = [joined EXCEPT ![t] = epoch + 1]
    BY <1>3 DEF Insert
  <2>3. Members' = Members \cup {t} /\ Members \subseteq User
    BY <1>0, <2>1, <2>2 DEF Members
  <2>4. joined'[t] = epoch + 1 /\ \A u \in Members : joined'[u] = joined[u] /\ joined[u] \in 1..epoch
    BY <1>0, <2>1, <2>2, <2>3 DEF Ordered
  <2>5. \A u \in Members' : joined'[u] \in 1..epoch'
    BY <1>0, <2>2, <2>3, <2>4
  <2>6. \A u, v \in Members' : joined'[u] = joined'[v] => u = v
    BY <1>0, <2>3, <2>4 DEF Ordered
  <2> QED
    BY <2>5, <2>6 DEF Ordered
<1>4. ASSUME NEW r \in Req, Remove(r), role[task[r].target] # "none" PROVE Ordered'
  <2> DEFINE t == task[r].target
  <2>1. /\ role' = [role EXCEPT ![t] = "none"] /\ epoch' = epoch + 1
        /\ joined' = [joined EXCEPT ![t] = 0]
    BY <1>4 DEF Remove, Unlist
  <2>2. Members' = Members \ {t} /\ Members \subseteq User
    BY <1>0, <2>1 DEF Members
  <2>3. \A u \in Members' : joined'[u] = joined[u]
    BY <1>0, <2>1, <2>2
  <2> QED
    BY <1>0, <2>1, <2>2, <2>3 DEF Ordered
<1>5. ASSUME NEW r \in Req, Handover(r) PROVE Ordered'
  <2>1. Members' = Members /\ UNCHANGED <<joined, epoch>>
    BY <1>0, <1>5 DEF Handover, Members
  <2> QED
    BY <2>1 DEF Ordered
<1>6. ASSUME NEW r \in Req, Delete(r), stage = "live" PROVE Ordered'
  BY <1>6 DEF Delete, DropGroup, Ordered, Members
<1>7. ASSUME NEW r \in Req,
             \/ CheckRequester(r) \/ CheckTarget(r) \/ LockGroup(r) \/ CountMembers(r)
             \/ ReadHeirs(r) \/ Abandon(r)
             \/ \E o \in {"add", "remove", "delete"}, u \in User, t \in User : Begin(r, o, u, t)
      PROVE  UNCHANGED groupVars
  BY <1>7 DEF CheckRequester, CheckTarget, LockGroup, CountMembers, ReadHeirs, Abandon, Begin
<1>8. ASSUME NEW r \in Req, Step(r) PROVE Ordered'
  BY <1>1, <1>3, <1>4, <1>5, <1>6, <1>7, <1>8 DEF Step, Insert, Remove, Delete
<1>9. CASE UNCHANGED vars
  BY <1>1, <1>9 DEF vars
<1> QED
  BY <1>1, <1>2, <1>7, <1>8, <1>9 DEF Next

(* Before its creation a group has nobody a request could come from.       *)
LEMMA NotYetStep == Sound /\ NotYet /\ [Next]_vars => NotYet'
<1> SUFFICES ASSUME Sound, NotYet, [Next]_vars, stage' = "none"
             PROVE  \A r \in Req : task'[r].at \in {"idle", "requester"}
  BY DEF NotYet
<1>0. TypeOK /\ task \in [Req -> Task]
  BY DEF Sound, TypeOK
<1>1. stage = "none" /\ \A u \in User : role[u] = "none"
  <2>1. stage = "none"
    BY DEF Next, Create, Begin, Step, CheckRequester, CheckTarget, LockGroup, CountMembers, Insert, Remove, Unlist, ReadHeirs,
       Handover, Delete, DropGroup, Abandon, groupVars, vars
  <2> QED
    BY <2>1 DEF Sound, NoGhosts, Members
<1>2. \A r \in Req : task[r].at \in {"idle", "requester"}
  BY <1>1 DEF NotYet
<1>3. CASE Create \/ UNCHANGED vars
  BY <1>2, <1>3 DEF Create, vars
<1>4. ASSUME NEW r \in Req, NEW o, NEW u, NEW t, Begin(r, o, u, t)
      PROVE  \A s \in Req : task'[s].at \in {"idle", "requester"}
  BY <1>0, <1>2, <1>4 DEF Begin, Request
<1>5. ASSUME NEW r \in Req, Step(r) \/ Abandon(r)
      PROVE  \A s \in Req : task'[s].at \in {"idle", "requester"}
  <2>1. At(r, "requester") /\ task[r].by \in User /\ task[r].op # "none"
    BY <1>0, <1>2, <1>5, OneMoves DEF At, Sound, Wellformed
  <2>2. CheckRequester(r) \/ Abandon(r)
    BY <1>5, <2>1 DEF Step, At, CheckTarget, LockGroup, CountMembers, Insert, Remove, ReadHeirs, Handover, Delete
  <2>3. task[r].op \in {"add", "remove", "delete"} /\ role[task[r].by] = "none"
    BY <1>0, <1>1, <2>1 DEF Task
  <2>4. End(r)
    BY <2>2, <2>3 DEF CheckRequester, Abandon, CanManage
  <2> QED
    BY <1>0, <1>2, <2>4 DEF End, Idle
<1> QED
  BY <1>3, <1>4, <1>5 DEF Next

LEMMA OneAtWorkStep == Sound /\ OneAtWork /\ [Next]_vars => OneAtWork'
<1> SUFFICES ASSUME Sound, OneAtWork, [Next]_vars, ~disturbed',
                    NEW r \in Req, NEW s \in Req, ~At(r, "idle")', ~At(s, "idle")'
             PROVE  r = s
  BY DEF OneAtWork
<1>0. TypeOK /\ task \in [Req -> Task]
  BY DEF Sound, TypeOK
<1>1. CASE Create \/ UNCHANGED vars
  BY <1>1 DEF Create, vars, OneAtWork, At
<1>2. ASSUME NEW q \in Req, NEW o, NEW u, NEW t, Begin(q, o, u, t) PROVE r = s
  <2>1. \A z \in Req : At(z, "idle")
    BY <1>2 DEF Begin
  <2>2. \A z \in Req \ {q} : task'[z] = task[z]
    BY <1>0, <1>2 DEF Begin
  <2> QED
    BY <2>1, <2>2 DEF At
<1>3. ASSUME NEW q \in Req, Step(q) \/ Abandon(q) PROVE r = s
  <2>1. ~disturbed
    BY <1>3 DEF Step, CheckRequester, CheckTarget, LockGroup, CountMembers, Insert, Remove, ReadHeirs,
       Handover, Delete, Abandon
  <2>2. ~At(q, "idle") /\ \A z \in Req \ {q} : task'[z] = task[z]
    BY <1>0, <1>3, OneMoves
  <2> QED
    BY <2>1, <2>2 DEF OneAtWork, At
<1> QED
  BY <1>1, <1>2, <1>3 DEF Next

-----------------------------------------------------------------------------
(* The line of succession, step by step: r is the request at work.         *)

Alone(r) == \A s \in Req \ {r} : task[s].at = "idle" /\ task'[s] = task[s]

LEMMA ActsAlone ==
    ASSUME Sound, OneAtWork, ~disturbed, NEW r \in Req, Step(r)
    PROVE  Alone(r)
BY OneMoves DEF Alone, OneAtWork, At, Sound

(* A request that ends leaves a group with an owner, or none.              *)
LEMMA EndKeeps ==
    ASSUME Sound, NEW r \in Req, Alone(r), End(r),
           \E u \in User : First(u)' /\ Owners' = {u}
    PROVE  Line'
<1>1. task'[r].at = "idle"
  BY DEF End, Idle, Sound, TypeOK
<1>2. \A s \in Req : task'[s].at = "idle"
  BY <1>1 DEF Alone
<1> QED
  BY <1>2 DEF Line, At

(* What the checks and the end of a request find.                          *)
LEMMA OwnerFirst ==
    ASSUME Line, NEW r \in Req, Alone(r), task[r].at \notin Succeeding
    PROVE  \E u \in User : First(u) /\ Owners = {u}
<1>1. \A s \in Req : task[s].at \notin Succeeding
  BY DEF Alone, Succeeding
<1> QED
  BY <1>1 DEF Line

LEMMA SuccessionStep == Sound /\ Lineage /\ [Next]_vars => Succession'
<1> SUFFICES ASSUME Sound, Lineage, [Next]_vars, stage' = "live", ~disturbed' PROVE Line'
  BY DEF Succession
<1>0. /\ role \in [User -> Role] /\ joined \in [User -> Nat] /\ epoch \in Nat
      /\ task \in [Req -> Task] /\ Creator \in User /\ Members \subseteq User
  BY GroupAdminAssumption DEF Sound, TypeOK, Members
<1>1. CASE Create
  <2>1. Members = {}
    BY <1>1 DEF Create, Sound, NoGhosts
  <2>2. /\ Members' = {Creator} /\ Owners' = {Creator}
        /\ joined'[Creator] = 1
    BY <1>0, <1>1, <2>1 DEF Create, Members, Owners
  <2>3. \A r \in Req : task'[r].at \in {"idle", "requester"}
    BY <1>1 DEF Create, Lineage, NotYet
  <2>4. First(Creator)'
    BY <2>2 DEF First
  <2> QED
    BY <1>0, <2>2, <2>3, <2>4 DEF Line, At
<1>2. CASE UNCHANGED vars
  BY <1>2 DEF vars, groupVars, Lineage, Succession, Line, At, First, Members, Owners
<1>3. ASSUME NEW q \in Req, NEW o, NEW u, NEW t, Begin(q, o, u, t) PROVE Line'
  <2>1. /\ ~disturbed /\ \A s \in Req : task[s].at = "idle"
        /\ UNCHANGED groupVars /\ task' = [task EXCEPT ![q] = Request(o, u, t)]
    BY <1>3 DEF Begin, At
  <2>2. Line
    BY <2>1 DEF Lineage, Succession, groupVars
  <2>3. PICK w \in User : First(w) /\ Owners = {w}
    BY <2>1, <2>2 DEF Line, Succeeding
  <2>4. First(w)' /\ Owners' = {w}
    BY <2>1, <2>3 DEF groupVars, First, Owners, Members
  <2>5. \A s \in Req : task'[s].at \in {"idle", "requester"}
    BY <1>0, <2>1 DEF Request
  <2> QED
    BY <2>4, <2>5 DEF Line, At
<1>4. ASSUME NEW r \in Req, Step(r) PROVE Line'
  <2>1. stage = "live" /\ ~disturbed
    <3>1. CASE CheckRequester(r) \/ CheckTarget(r) \/ LockGroup(r) \/ CountMembers(r) \/ ReadHeirs(r)
      <4>1. UNCHANGED <<groupVars, disturbed>>
        BY <3>1 DEF CheckRequester, CheckTarget, LockGroup, CountMembers, ReadHeirs
      <4> QED
        BY <4>1 DEF groupVars
    <3>2. CASE Insert(r)
      BY <3>2 DEF Insert, groupVars
    <3>3. CASE Remove(r)
      BY <3>3 DEF Remove, Unlist, groupVars
    <3>4. CASE Handover(r)
      BY <3>4 DEF Handover
    <3>5. CASE Delete(r)
      BY <3>5 DEF Delete, DropGroup, groupVars
    <3> QED
      BY <1>4, <3>1, <3>2, <3>3, <3>4, <3>5 DEF Step
  <2>2. Alone(r) /\ Line
    BY <1>4, <2>1, ActsAlone DEF Lineage, Succession
  <2>3. ASSUME UNCHANGED groupVars, task[r].at \notin Succeeding
        PROVE  \E u \in User : First(u)' /\ Owners' = {u}
    <3>1. PICK w \in User : First(w) /\ Owners = {w}
      BY <2>2, <2>3, OwnerFirst
    <3> QED
      BY <2>3, <3>1 DEF groupVars, First, Owners, Members
  <2>4. CASE UNCHANGED groupVars /\ task[r].at \notin Succeeding /\ End(r)
    BY <2>2, <2>3, <2>4, EndKeeps
  <2>5. CASE CheckRequester(r) /\ ~End(r)
    <3> DEFINE next == IF task[r].op = "remove" THEN "target" ELSE task[r].op
    <3>1. /\ task' = [task EXCEPT ![r].at = next, ![r].seen = role[task[r].by]]
          /\ task[r].at = "requester" /\ UNCHANGED groupVars
      BY <2>5 DEF CheckRequester, At
    <3>2. task'[r].at = next /\ next \in {"target", "add", "delete", "none"}
      BY <1>0, <3>1 DEF Task
    <3>3. \A s \in Req : task'[s].at \notin Succeeding \cup {"remove"}
      BY <2>2, <3>2 DEF Alone, Succeeding
    <3> QED
      BY <2>3, <3>1, <3>3 DEF Line, At, Succeeding
  <2>6. CASE CheckTarget(r) /\ ~End(r)
    <3> DEFINE own == role[task[r].target] = "owner"
    <3>1. /\ task' = [task EXCEPT ![r].at = "remove", ![r].owned = own]
          /\ task[r].at = "target" /\ UNCHANGED groupVars
      BY <2>6 DEF CheckTarget, At
    <3>2. task'[r].at = "remove" /\ task'[r].owned = own /\ task'[r].target = task[r].target
      BY <1>0, <3>1 DEF Task
    <3>3. \A s \in Req \ {r} : task'[s].at = "idle"
      BY <2>2 DEF Alone
    <3>4. UNCHANGED role
      BY <3>1 DEF groupVars
    <3> QED
      BY <2>3, <3>1, <3>2, <3>3, <3>4 DEF Line, At, Succeeding
  <2>7. CASE Insert(r) /\ role[task[r].target] = "none"
    <3> DEFINE t == task[r].target
    <3>1. t \in User /\ t \notin Members /\ task[r].at = "insert"
      BY <2>7 DEF Insert, At, Sound, Wellformed, Members
    <3>2. /\ role' = [role EXCEPT ![t] = "member"] /\ joined' = [joined EXCEPT ![t] = epoch + 1]
          /\ End(r)
      BY <2>7 DEF Insert
    <3>3. PICK w \in User : First(w) /\ Owners = {w}
      BY <2>2, <3>1, OwnerFirst DEF Succeeding
    <3>4. Members' = Members \cup {t} /\ Owners' = {w}
      BY <1>0, <3>1, <3>2, <3>3 DEF Members, Owners
    <3>5. First(w)'
      BY <1>0, <3>1, <3>2, <3>3, <3>4 DEF First, Lineage, Ordered
    <3> QED
      BY <2>2, <3>2, <3>4, <3>5, EndKeeps
  <2>8. CASE Remove(r) /\ role[task[r].target] # "none"
    <3> DEFINE t == task[r].target
    <3>1. t \in User /\ task[r].at = "remove" /\ task[r].owned \in BOOLEAN
      BY <1>0, <2>8 DEF Remove, At, Sound, Wellformed, Task
    <3>2. /\ role' = [role EXCEPT ![t] = "none"] /\ joined' = [joined EXCEPT ![t] = 0]
      BY <2>8 DEF Remove, Unlist
    <3>3. PICK w \in User : First(w) /\ Owners = {w}
      BY <2>2, <3>1, OwnerFirst DEF Succeeding
    <3>4. task[r].owned <=> t = w
      BY <2>2, <3>1, <3>3 DEF Line, At, Owners
    <3>5. Members' = Members \ {t} /\ Owners' = Owners \ {t}
      BY <1>0, <3>1, <3>2 DEF Members, Owners
    <3>6. CASE task[r].owned
      <4>1. Goto(r, "heirs") /\ Owners' = {}
        BY <2>8, <3>3, <3>4, <3>5, <3>6 DEF Remove
      <4>2. task'[r].at = "heirs"
        BY <1>0, <4>1 DEF Goto, Task
      <4>3. \A s \in Req \ {r} : task'[s].at = "idle"
        BY <2>2 DEF Alone
      <4> QED
        BY <4>1, <4>2, <4>3 DEF Line, At, Succeeding
    <3>7. CASE ~task[r].owned
      <4>1. End(r) /\ Owners' = {w}
        BY <2>8, <3>3, <3>4, <3>5, <3>7 DEF Remove
      <4>2. First(w)'
        BY <1>0, <3>2, <3>3, <3>4, <3>5, <3>7 DEF First
      <4> QED
        BY <2>2, <4>1, <4>2, EndKeeps
    <3> QED
      BY <3>6, <3>7
  <2>9. CASE ReadHeirs(r)
    <3>1. task[r].at = "heirs" /\ Owners = {} /\ UNCHANGED groupVars
      BY <2>2, <2>9 DEF ReadHeirs, Line, At
    <3>2. Owners' = {} /\ Members' = Members /\ UNCHANGED joined
      BY <3>1 DEF groupVars, Owners, Members
    <3>3. \A s \in Req \ {r} : task'[s].at = "idle"
      BY <2>2 DEF Alone
    <3>4. CASE Members = {}
      <4>1. task' = [task EXCEPT ![r].at = "discard"]
        BY <2>9, <3>4 DEF ReadHeirs
      <4>2. task'[r].at = "discard"
        BY <1>0, <4>1 DEF Task
      <4> QED
        BY <3>2, <3>3, <3>4, <4>2 DEF Line, At, Succeeding
    <3>5. CASE Members # {}
      <4>1. PICK w \in User : w = Oldest(Members) /\ First(w)
        BY <1>0, <3>5, OldestIsFirst DEF First
      <4>2. task' = [task EXCEPT ![r].at = "handover", ![r].heir = w]
        BY <2>9, <3>5, <4>1 DEF ReadHeirs
      <4>3. task'[r].at = "handover" /\ task'[r].heir = w
        BY <1>0, <4>2 DEF Task
      <4>4. First(w)'
        BY <3>2, <4>1 DEF First
      <4> QED
        BY <3>2, <3>3, <4>3, <4>4 DEF Line, At, Succeeding
    <3> QED
      BY <3>4, <3>5
  <2>10. CASE Handover(r)
    <3>1. PICK h \in User :
             h = task[r].heir /\ First(h) /\ Owners = {} /\ End(r) /\ UNCHANGED joined
      BY <1>0, <2>2, <2>10 DEF Handover, Line, At, First
    <3>2. h \in User /\ role[h] # "none"
      BY <3>1 DEF First, Members
    <3>3. role' = [role EXCEPT ![h] = "owner"]
      BY <2>10, <3>1, <3>2 DEF Handover
    <3>4. Members' = Members /\ Owners' = {h}
      BY <1>0, <3>1, <3>2, <3>3 DEF Members, Owners
    <3>5. First(h)'
      BY <3>1, <3>4 DEF First
    <3> QED
      BY <2>2, <3>1, <3>2, <3>4, <3>5, EndKeeps
  <2>11. ~Delete(r)
    BY <2>1 DEF Delete, DropGroup
  <2>12. CASE \/ Insert(r) /\ role[task[r].target] # "none"
              \/ Remove(r) /\ role[task[r].target] = "none"
    BY <2>4, <2>12 DEF Insert, Remove, At, Succeeding
  <2>13. CASE /\ CheckRequester(r) \/ CheckTarget(r) \/ LockGroup(r) \/ CountMembers(r)
              /\ End(r)
    BY <2>4, <2>13 DEF CheckRequester, CheckTarget, LockGroup, CountMembers, At, Succeeding
  <2>14. ASSUME NEW p \in {"count", "insert"}, Goto(r, p), LockGroup(r) \/ CountMembers(r)
         PROVE  Line'
    <3>1. UNCHANGED groupVars /\ task[r].at \notin Succeeding
      BY <2>14 DEF LockGroup, CountMembers, At, Succeeding
    <3>2. task'[r].at = p
      BY <1>0, <2>14 DEF Goto, Task
    <3>3. \A s \in Req : task'[s].at \notin Succeeding \cup {"remove"}
      BY <2>2, <3>2 DEF Alone, Succeeding
    <3> QED
      BY <2>3, <3>1, <3>3 DEF Line, At, Succeeding
  <2> QED
    BY <1>4, <2>5, <2>6, <2>7, <2>8, <2>9, <2>10, <2>11, <2>12, <2>13, <2>14 DEF Step, LockGroup, CountMembers
<1>5. ASSUME NEW r \in Req PROVE ~Abandon(r)
  BY DEF Abandon
<1> QED
  BY <1>1, <1>2, <1>3, <1>4, <1>5 DEF Next

(* While requests run one at a time and to their end, the owner is the     *)
(* oldest member, whoever leaves and whoever joins (remove_member).        *)
THEOREM OldestAlwaysOwns == Spec => []OldestOwns
<1>1. Sound /\ Lineage /\ [Next]_vars => Lineage'
  BY OrderedStep, NotYetStep, OneAtWorkStep, SuccessionStep DEF Lineage
<1>2. Spec => []Lineage
  BY InitLineage, SoundAlways, <1>1, PTL DEF Spec
<1>3. Sound /\ Lineage => OldestOwns
  <2> SUFFICES ASSUME Sound, Lineage, stage = "live", ~disturbed,
                      \A r \in Req : task[r].at \notin Succeeding
               PROVE  Owners = {Oldest(Members)}
    BY DEF OldestOwns, Owners, Succeeding
  <2>1. PICK w \in User : First(w) /\ Owners = {w}
    BY DEF Lineage, Succession, Line
  <2>2. joined \in [User -> Nat] /\ Members \subseteq User /\ Members # {}
    BY <2>1 DEF Sound, TypeOK, Members, First
  <2>3. First(Oldest(Members))
    BY <2>2, OldestIsFirst
  <2>4. joined[w] = joined[Oldest(Members)]
    BY <2>1, <2>2, <2>3 DEF First
  <2>5. w = Oldest(Members)
    BY <2>1, <2>3, <2>4 DEF First, Lineage, Ordered
  <2> QED
    BY <2>1, <2>5
<1> QED
  BY <1>2, <1>3, SoundAlways, PTL
=============================================================================
