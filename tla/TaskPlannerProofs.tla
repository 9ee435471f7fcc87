------------------------- MODULE TaskPlannerProofs -------------------------
(***************************************************************************)
(* For every set of identifiers, every set of plans and every limit: the   *)
(* layering loop partitions the plan into groups, puts each prerequisite   *)
(* into an earlier group, and rejects exactly the cyclic plans.            *)
(***************************************************************************)
EXTENDS TaskPlanner, FiniteSetTheorems, TLAPS

(***************************************************************************)
(* The inductive invariant.  The last three conjuncts say what has been    *)
(* decided when the loop is left; KnotFree is why a cycle is never cut:    *)
(* no subtask of a set that waits for itself ever becomes ready.           *)
(***************************************************************************)
Grouped == UNION {groups[i] : i \in DOMAIN groups}

KnotFree(S) == \A K \in SUBSET Ids(plan) : Knot(plan, K) => K \cap S = {}

DependenciesBefore ==
    \A i \in DOMAIN groups : \A s \in groups[i] :
        \A d \in DepsOf(plan, s) :
            \E j \in DOMAIN groups : j < i /\ d \in groups[j]

GroupsDisjoint ==
    \A i, j \in DOMAIN groups : i # j => groups[i] \cap groups[j] = {}

LoopInv ==
    Layered =>
        /\ Wellformed(plan)
        /\ completed = Grouped
        /\ remaining = Ids(plan) \ completed
        /\ GroupsDisjoint
        /\ DependenciesBefore
        /\ KnotFree(completed)

VerdictInv ==
    /\ outcome \in {"planned", "too_many"} => remaining = {}
    /\ outcome = "cycle" =>
           remaining # {} /\ ReadyAmong(plan, remaining, completed) = {}

-----------------------------------------------------------------------------
(***************************************************************************)
(* validate_graph has made sure that dependencies are subtasks of the      *)
(* plan.                                                                   *)
(***************************************************************************)
LEMMA DepsAreKnown ==
    ASSUME NEW p, Wellformed(p), NEW s
    PROVE  DepsOf(p, s) \subseteq Ids(p)
BY DEF Wellformed, DependenciesKnown, DepsOf

(***************************************************************************)
(* The state variables stay in their types: TypeOK is inductive by itself. *)
(***************************************************************************)
THEOREM TypeCorrect == Spec => []TypeOK
<1>1. Init => TypeOK
  BY PlansAssumption DEF Init, TypeOK, Outcomes
<1>2. TypeOK /\ [Next]_vars => TypeOK'
  <2> SUFFICES ASSUME TypeOK, [Next]_vars PROVE TypeOK'
    OBVIOUS
  <2> USE DEF TypeOK, Outcomes
  <2>1. CASE RequestFails
    BY <2>1 DEF RequestFails, End
  <2>2. CASE RequestRaises
    BY <2>2 DEF RequestRaises, End
  <2>3. CASE AnswerIsNotAPlan
    BY <2>3 DEF AnswerIsNotAPlan, End
  <2>4. CASE AnswerIsAPlan
    BY <2>4 DEF AnswerIsAPlan
  <2>5. CASE RejectPlan
    BY <2>5 DEF RejectPlan, End
  <2>6. CASE AcceptPlan
    BY <2>6 DEF AcceptPlan
  <2>7. CASE AppendGroup
    <3> DEFINE ready == ReadyAmong(plan, remaining, completed)
    <3>1. ready \in SUBSET Ids(plan)
      BY DEF ReadyAmong
    <3>2. /\ groups' = Append(groups, ready)
          /\ completed' = completed \cup ready
          /\ remaining' = remaining \ ready
          /\ UNCHANGED <<pc, plan, outcome>>
      BY <2>7 DEF AppendGroup, WithReady, WithoutReady
    <3> HIDE DEF ready
    <3>3. groups' \in Seq(SUBSET Ids(plan))
      BY <3>1, <3>2
    <3>4. QED
      BY <3>1, <3>2, <3>3
  <2>8. CASE DetectCycle
    BY <2>8 DEF DetectCycle, End
  <2>9. CASE CheckLimit
    BY <2>9 DEF CheckLimit, End
  <2>10. CASE UNCHANGED vars
    BY <2>10 DEF vars
  <2>11. QED
    BY <2>1, <2>2, <2>3, <2>4, <2>5, <2>6, <2>7, <2>8, <2>9, <2>10
       DEF Next, Terminated
<1>3. QED
  BY <1>1, <1>2, PTL DEF Spec

-----------------------------------------------------------------------------
(***************************************************************************)
(* One more group keeps the loop's invariant.                              *)
(***************************************************************************)
LEMMA AppendGroupKeepsLoopInv ==
    TypeOK /\ LoopInv /\ AppendGroup => LoopInv'
<1> SUFFICES ASSUME TypeOK, LoopInv, AppendGroup PROVE LoopInv'
  OBVIOUS
<1> DEFINE ready == ReadyAmong(plan, remaining, completed)
           n == Len(groups)
<1>1. /\ groups' = Append(groups, ready)
      /\ completed' = completed \cup ready
      /\ remaining' = remaining \ ready
      /\ UNCHANGED <<pc, plan, outcome>>
  BY DEF AppendGroup, WithReady, WithoutReady
<1>2. /\ Wellformed(plan)
      /\ completed = Grouped
      /\ remaining = Ids(plan) \ completed
      /\ GroupsDisjoint
      /\ DependenciesBefore
      /\ KnotFree(completed)
  BY DEF AppendGroup, LoopInv, Layered
<1>3. /\ ready \subseteq remaining
      /\ \A s \in ready : DepsOf(plan, s) \subseteq completed
  BY DEF ReadyAmong
<1> HIDE DEF ready
<1>4. /\ n \in Nat /\ DOMAIN groups = 1..n
      /\ groups \in Seq(SUBSET Ids(plan))
  BY DEF TypeOK
<1>5. /\ DOMAIN groups' = 1..(n + 1)
      /\ \A i \in 1..n : groups'[i] = groups[i]
      /\ groups'[n + 1] = ready
  BY <1>1, <1>3, <1>4 DEF TypeOK
<1> HIDE DEF n
<1>6. completed' = Grouped'
  <2>1. Grouped' = Grouped \cup ready
    BY <1>4, <1>5 DEF Grouped
  <2>2. QED
    BY <1>1, <1>2, <2>1
<1>7. remaining' = Ids(plan) \ completed'
  BY <1>1, <1>2
<1>8. GroupsDisjoint'
  <2>1. \A i \in 1..n : groups[i] \cap ready = {}
    BY <1>2, <1>3, <1>4 DEF Grouped
  <2> SUFFICES ASSUME NEW i \in 1..(n + 1), NEW j \in 1..(n + 1), i # j
               PROVE  groups'[i] \cap groups'[j] = {}
    BY <1>5 DEF GroupsDisjoint
  <2>2. CASE i \in 1..n /\ j \in 1..n
    BY <2>2, <1>2, <1>4, <1>5 DEF GroupsDisjoint
  <2>3. CASE i = n + 1 /\ j \in 1..n
    BY <2>1, <2>3, <1>5
  <2>4. CASE i \in 1..n /\ j = n + 1
    BY <2>1, <2>4, <1>5
  <2>5. QED
    BY <1>4, <2>2, <2>3, <2>4
<1>9. DependenciesBefore'
  <2> SUFFICES ASSUME NEW i \in 1..(n + 1), NEW s \in groups'[i],
                      NEW d \in DepsOf(plan, s)
               PROVE  \E j \in 1..(n + 1) : j < i /\ d \in groups'[j]
    BY <1>1, <1>5 DEF DependenciesBefore
  <2>1. CASE i \in 1..n
    <3>1. \E j \in 1..n : j < i /\ d \in groups[j]
      BY <2>1, <1>2, <1>4, <1>5 DEF DependenciesBefore
    <3>2. QED
      BY <3>1, <1>4, <1>5
  <2>2. CASE i = n + 1
    <3>1. d \in Grouped
      BY <2>2, <1>2, <1>3, <1>5
    <3>2. \E j \in 1..n : d \in groups[j]
      BY <3>1, <1>4 DEF Grouped
    <3>3. QED
      BY <2>2, <3>2, <1>4, <1>5
  <2>3. QED
    BY <1>4, <2>1, <2>2
<1>10. KnotFree(completed)'
  <2> SUFFICES ASSUME NEW K \in SUBSET Ids(plan), Knot(plan, K)
               PROVE  K \cap completed' = {}
    BY <1>1 DEF KnotFree
  <2>1. K \cap completed = {}
    BY <1>2 DEF KnotFree
  <2>2. K \cap ready = {}
    BY <2>1, <1>3 DEF Knot
  <2>3. QED
    BY <1>1, <2>1, <2>2
<1>11. QED
  BY <1>1, <1>2, <1>6, <1>7, <1>8, <1>9, <1>10 DEF LoopInv, Wellformed,
     GroupsDisjoint, DependenciesBefore, Layered, Grouped

(***************************************************************************)
(* The loop's invariant and what it has decided hold throughout.           *)
(***************************************************************************)
THEOREM LoopIsCorrect == Spec => [](LoopInv /\ VerdictInv)
<1>1. Init => LoopInv /\ VerdictInv
  BY DEF Init, LoopInv, VerdictInv, Layered
<1>2. TypeOK /\ LoopInv /\ VerdictInv /\ [Next]_vars
      => LoopInv' /\ VerdictInv'
  <2> SUFFICES ASSUME TypeOK, LoopInv, VerdictInv, [Next]_vars
               PROVE  LoopInv' /\ VerdictInv'
    OBVIOUS
  <2>1. ASSUME NEW r \in {"request_failed", "raised", "invalid"}, End(r),
               pc \in {"request", "validate"}
        PROVE  LoopInv' /\ VerdictInv'
    BY <2>1 DEF End, LoopInv, VerdictInv, Layered
  <2>2. CASE AnswerIsAPlan
    BY <2>2 DEF AnswerIsAPlan, LoopInv, VerdictInv, Layered, TypeOK
  <2>3. CASE AcceptPlan
    <3>1. /\ pc' = "layering" /\ completed' = {} /\ remaining' = Ids(plan)
          /\ groups' = << >> /\ Wellformed(plan) /\ UNCHANGED <<plan, outcome>>
          /\ outcome = "none"
      BY <2>3 DEF AcceptPlan, TypeOK
    <3>2. DOMAIN groups' = {}
      BY <3>1
    <3>3. Grouped' = {} /\ GroupsDisjoint' /\ DependenciesBefore'
      BY <3>2 DEF Grouped, GroupsDisjoint, DependenciesBefore
    <3>4. KnotFree(completed)'
      BY <3>1 DEF KnotFree
    <3>5. Wellformed(plan)'
      BY <3>1
    <3>6. LoopInv'
      BY <3>1, <3>3, <3>4, <3>5 DEF LoopInv
    <3>7. QED
      BY <3>1, <3>6 DEF VerdictInv
  <2>4. CASE AppendGroup
    <3>1. LoopInv'
      BY <2>4, AppendGroupKeepsLoopInv
    <3>2. VerdictInv'
      BY <2>4 DEF AppendGroup, VerdictInv, TypeOK
    <3>3. QED
      BY <3>1, <3>2
  <2>5. CASE DetectCycle
    <3>1. LoopInv'
      BY <2>5 DEF DetectCycle, End, LoopInv, Layered, GroupsDisjoint,
         DependenciesBefore, Grouped, KnotFree
    <3>2. VerdictInv'
      BY <2>5 DEF DetectCycle, End, VerdictInv
    <3>3. QED
      BY <3>1, <3>2
  <2>6. CASE CheckLimit
    <3>1. LoopInv'
      BY <2>6 DEF CheckLimit, End, LoopInv, Layered, GroupsDisjoint,
         DependenciesBefore, Grouped, KnotFree
    <3>2. VerdictInv'
      BY <2>6 DEF CheckLimit, End, VerdictInv
    <3>3. QED
      BY <3>1, <3>2
  <2>7. CASE UNCHANGED vars
    BY <2>7 DEF vars, LoopInv, VerdictInv, Layered, GroupsDisjoint,
       DependenciesBefore, Grouped, KnotFree
  <2>8. QED
    BY <2>1, <2>2, <2>3, <2>4, <2>5, <2>6, <2>7
       DEF Next, Terminated, RequestFails, RequestRaises, AnswerIsNotAPlan,
           RejectPlan
<1>3. QED
  BY <1>1, <1>2, TypeCorrect, PTL DEF Spec

-----------------------------------------------------------------------------
(***************************************************************************)
(* parallel_groups loses no subtask and schedules none twice, for every    *)
(* plan.                                                                   *)
(***************************************************************************)
THEOREM GroupsPartition == Spec => []GroupsPartitionPlan
<1>1. TypeOK /\ LoopInv => GroupsPartitionPlan
  BY DEF TypeOK, LoopInv, GroupsPartitionPlan, GroupsDisjoint, Grouped
<1>2. QED
  BY <1>1, TypeCorrect, LoopIsCorrect, PTL

(***************************************************************************)
(* Whatever graph the model writes, a group depends on earlier groups only.*)
(***************************************************************************)
THEOREM GroupsRespectDependencies == Spec => []DependenciesInEarlierGroups
<1>1. LoopInv => DependenciesInEarlierGroups
  BY DEF LoopInv, DependenciesInEarlierGroups, DependenciesBefore
<1>2. QED
  BY <1>1, LoopIsCorrect, PTL

(***************************************************************************)
(* The verdict on cycles is exact, against the definition of a cyclic      *)
(* graph that does not mention the loop.                                   *)
(***************************************************************************)
THEOREM CycleVerdict == Spec => []CycleVerdictIsExact
<1>1. LoopInv /\ VerdictInv => CycleVerdictIsExact
  <2> SUFFICES ASSUME LoopInv, VerdictInv PROVE CycleVerdictIsExact
    OBVIOUS
  <2>1. ASSUME outcome = "cycle" PROVE Cyclic(plan)
    <3>1. /\ remaining # {} /\ ReadyAmong(plan, remaining, completed) = {}
          /\ Wellformed(plan) /\ remaining = Ids(plan) \ completed
      BY <2>1 DEF LoopInv, VerdictInv, Layered
    <3>2. \A s \in remaining : DepsOf(plan, s) \cap remaining # {}
      BY <3>1, DepsAreKnown DEF ReadyAmong
    <3>3. Knot(plan, remaining) /\ remaining \in SUBSET Ids(plan)
      BY <3>1, <3>2 DEF Knot
    <3>4. QED
      BY <3>3 DEF Cyclic
  <2>2. ASSUME outcome \in {"planned", "too_many"} PROVE ValidPlan(plan)
    <3>1. /\ remaining = {} /\ Wellformed(plan)
          /\ remaining = Ids(plan) \ completed /\ KnotFree(completed)
      BY <2>2 DEF LoopInv, VerdictInv, Layered
    <3>2. ~Cyclic(plan)
      BY <3>1 DEF Cyclic, KnotFree, Knot
    <3>3. plan # << >>
      <4> SUFFICES ASSUME plan = << >> PROVE FALSE
        OBVIOUS
      <4>1. Len(plan) = 0
        OBVIOUS
      <4>2. QED
        BY <3>1, <4>1 DEF Wellformed
    <3>4. QED
      BY <3>1, <3>2, <3>3 DEF ValidPlan, Wellformed
  <2>3. QED
    BY <2>1, <2>2 DEF CycleVerdictIsExact
<1>2. QED
  BY <1>1, LoopIsCorrect, PTL

-----------------------------------------------------------------------------
(***************************************************************************)
(* What makes the layers the earliest: a subtask that is still waiting was *)
(* not ready before the last group was completed.                          *)
(***************************************************************************)
EarliestInv ==
    /\ GroupsAreEarliest
    /\ Layered /\ groups # << >> =>
           \A s \in remaining :
               \E d \in DepsOf(plan, s) :
                   d \notin completed \ groups[Len(groups)]

(***************************************************************************)
(* A new group holds what waited for the group before it.                  *)
(***************************************************************************)
LEMMA AppendGroupKeepsEarliest ==
    TypeOK /\ LoopInv /\ EarliestInv /\ AppendGroup => EarliestInv'
<1> SUFFICES ASSUME TypeOK, LoopInv, EarliestInv, AppendGroup
             PROVE  EarliestInv'
  OBVIOUS
<1> DEFINE ready == ReadyAmong(plan, remaining, completed)
           n == Len(groups)
<1>1. /\ groups' = Append(groups, ready)
      /\ completed' = completed \cup ready
      /\ remaining' = remaining \ ready
      /\ UNCHANGED <<pc, plan, outcome>>
      /\ Layered
  BY DEF AppendGroup, WithReady, WithoutReady, Layered
<1>2. completed = Grouped /\ remaining = Ids(plan) \ completed
  BY <1>1 DEF LoopInv
<1>3. /\ ready \subseteq remaining
      /\ \A s \in ready : DepsOf(plan, s) \subseteq completed
      /\ \A s \in remaining \ ready : ~(DepsOf(plan, s) \subseteq completed)
  BY DEF ReadyAmong
<1> HIDE DEF ready
<1>4. /\ n \in Nat /\ DOMAIN groups = 1..n
      /\ DOMAIN groups' = 1..(n + 1) /\ Len(groups') = n + 1
      /\ \A i \in 1..n : groups'[i] = groups[i]
      /\ groups'[n + 1] = ready
  BY <1>1, <1>3 DEF TypeOK
<1>5. ASSUME n # 0
      PROVE  \A s \in remaining :
                 \E d \in DepsOf(plan, s) : d \notin completed \ groups[n]
  BY <1>1, <1>4, <1>5 DEF EarliestInv
<1> HIDE DEF n
<1>6. ASSUME NEW i \in DOMAIN groups' \ {1}, NEW s \in groups'[i]
      PROVE  DepsOf(plan, s) \cap groups'[i - 1] # {}
  <2>1. CASE i \in 1..n
    <3>1. i - 1 \in 1..n /\ i \in DOMAIN groups \ {1}
      BY <1>4, <1>6, <2>1
    <3>2. DepsOf(plan, s) \cap groups[i - 1] # {}
      BY <1>1, <1>4, <1>6, <2>1, <3>1 DEF EarliestInv, GroupsAreEarliest
    <3>3. QED
      BY <1>4, <3>1, <3>2
  <2>2. CASE i = n + 1
    <3>1. n # 0 /\ n \in 1..n /\ i - 1 = n
      BY <1>4, <1>6, <2>2
    <3>2. s \in ready /\ s \in remaining
      BY <1>3, <1>4, <1>6, <2>2
    <3>3. PICK d \in DepsOf(plan, s) : d \notin completed \ groups[n]
      BY <1>5, <3>1, <3>2
    <3>4. d \in groups[n]
      BY <1>3, <3>2, <3>3
    <3>5. QED
      BY <1>4, <3>1, <3>3, <3>4
  <2>3. QED
    BY <1>4, <1>6, <2>1, <2>2
<1>7. GroupsAreEarliest'
  BY <1>1, <1>6 DEF GroupsAreEarliest
<1>8. completed' \ groups'[Len(groups')] = completed
  BY <1>1, <1>2, <1>3, <1>4
<1>9. \A s \in remaining' : \E d \in DepsOf(plan, s) : d \notin completed
  BY <1>1, <1>3
<1>10. QED
  BY <1>1, <1>7, <1>8, <1>9 DEF EarliestInv

(***************************************************************************)
(* No subtask of any plan is put into a later group than it must be.       *)
(***************************************************************************)
THEOREM LayersAreEarliest == Spec => []GroupsAreEarliest
<1>1. Init => EarliestInv
  BY DEF Init, EarliestInv, GroupsAreEarliest, Layered
<1>2. TypeOK /\ LoopInv /\ EarliestInv /\ [Next]_vars => EarliestInv'
  <2> SUFFICES ASSUME TypeOK, LoopInv, EarliestInv, [Next]_vars
               PROVE  EarliestInv'
    OBVIOUS
  <2>1. CASE AppendGroup
    BY <2>1, AppendGroupKeepsEarliest
  <2>2. CASE AcceptPlan
    BY <2>2 DEF AcceptPlan, EarliestInv, GroupsAreEarliest
  <2>3. CASE RequestFails \/ RequestRaises \/ AnswerIsNotAPlan
             \/ AnswerIsAPlan \/ RejectPlan
    BY <2>3 DEF RequestFails, RequestRaises, AnswerIsNotAPlan, AnswerIsAPlan,
       RejectPlan, End, EarliestInv, GroupsAreEarliest, Layered, TypeOK
  <2>4. CASE DetectCycle \/ CheckLimit
    <3>1. Layered /\ UNCHANGED <<plan, completed, remaining, groups>>
      BY <2>4 DEF DetectCycle, CheckLimit, End, Layered
    <3>2. QED
      BY <3>1 DEF EarliestInv, GroupsAreEarliest
  <2>5. CASE UNCHANGED vars
    BY <2>5 DEF vars, EarliestInv, GroupsAreEarliest, Layered
  <2>6. QED
    BY <2>1, <2>2, <2>3, <2>4, <2>5 DEF Next, Terminated
<1>3. EarliestInv => GroupsAreEarliest
  BY DEF EarliestInv
<1>4. QED
  BY <1>1, <1>2, <1>3, TypeCorrect, LoopIsCorrect, PTL DEF Spec

-----------------------------------------------------------------------------
(***************************************************************************)
(* The most steps planning has still before it: the request, the           *)
(* validation and the verdict, and a group for each subtask that remains.  *)
(***************************************************************************)
StepsAhead ==
    CASE pc = "request" -> 3 + Cardinality(Ids(plan))
      [] pc = "validate" -> 2 + Cardinality(Ids(plan))
      [] pc = "layering" -> 1 + Cardinality(remaining)
      [] OTHER -> 0

(***************************************************************************)
(* A plan has at most as many names as entries.                            *)
(***************************************************************************)
LEMMA NamesAreFew ==
    ASSUME NEW p \in Seq(SubtaskSpec(Ident))
    PROVE  /\ IsFiniteSet(Ids(p)) /\ Cardinality(Ids(p)) \in Nat
           /\ Len(p) \in Nat /\ Cardinality(Ids(p)) <= Len(p)
<1>1. Len(p) \in Nat /\ DOMAIN p = 1..Len(p)
  OBVIOUS
<1> DEFINE name == [i \in 1..Len(p) |-> p[i].id]
<1>2. name \in [1..Len(p) -> Ids(p)]
  BY <1>1 DEF Ids
<1>3. \A s \in Ids(p) : \E i \in 1..Len(p) : name[i] = s
  BY <1>1 DEF Ids
<1> HIDE DEF name
<1>4. name \in Surjection(1..Len(p), Ids(p))
  BY <1>2, <1>3 DEF Surjection
<1>5. 1 \in Int /\ Len(p) \in Int
  BY <1>1
<1>6. /\ IsFiniteSet(1..Len(p))
      /\ Cardinality(1..Len(p)) = IF 1 > Len(p) THEN 0 ELSE Len(p) - 1 + 1
  BY ONLY <1>5, FS_Interval
<1>7. IsFiniteSet(Ids(p)) /\ Cardinality(Ids(p)) <= Cardinality(1..Len(p))
  BY <1>4, <1>6, FS_Surjection
<1>8. Cardinality(Ids(p)) \in Nat
  BY <1>7, FS_CardinalityType
<1>9. QED
  BY <1>1, <1>6, <1>7, <1>8

(***************************************************************************)
(* The safety half of PlanningTerminates: on every graph each step of      *)
(* plan() leaves fewer before it, and each turn of its loop takes a        *)
(* subtask away; so there are never more than the entries of the plan and  *)
(* three.                                                                  *)
(***************************************************************************)
THEOREM PlanningIsBounded ==
    Spec => [](StepsAhead \in 0..(Len(plan) + 3))
                /\ [][StepsAhead' < StepsAhead]_vars
<1>1. ASSUME NEW p \in Seq(SubtaskSpec(Ident)), NEW S \in SUBSET Ids(p)
      PROVE  /\ IsFiniteSet(S) /\ Cardinality(S) \in 0..Cardinality(Ids(p))
             /\ Cardinality(Ids(p)) \in 0..Len(p) /\ Len(p) \in Nat
  <2>1. /\ IsFiniteSet(Ids(p)) /\ Cardinality(Ids(p)) \in Nat
        /\ Len(p) \in Nat /\ Cardinality(Ids(p)) <= Len(p)
    BY NamesAreFew
  <2>2. IsFiniteSet(S) /\ Cardinality(S) <= Cardinality(Ids(p))
    BY <2>1, FS_Subset
  <2>3. Cardinality(S) \in Nat
    BY <2>2, FS_CardinalityType
  <2>4. QED
    BY <2>1, <2>2, <2>3
<1>2. TypeOK => StepsAhead \in 0..(Len(plan) + 3)
  <2> SUFFICES ASSUME TypeOK PROVE StepsAhead \in 0..(Len(plan) + 3)
    OBVIOUS
  <2>1. /\ Cardinality(remaining) \in 0..Cardinality(Ids(plan))
        /\ Cardinality(Ids(plan)) \in 0..Len(plan) /\ Len(plan) \in Nat
    BY <1>1 DEF TypeOK
  <2>2. QED
    BY <2>1 DEF StepsAhead
<1>3. ASSUME TypeOK, TypeOK', Next, ~UNCHANGED vars
      PROVE  StepsAhead' < StepsAhead
  <2>0. /\ Cardinality(Ids(plan)) \in Nat /\ Cardinality(remaining) \in Nat
        /\ Cardinality(remaining') \in Nat /\ IsFiniteSet(remaining)
    BY <1>1, <1>3 DEF TypeOK
  <2>1. CASE RequestFails \/ RequestRaises \/ AnswerIsNotAPlan \/ RejectPlan
             \/ DetectCycle \/ CheckLimit
    <3>1. pc \in {"request", "validate", "layering"} /\ pc' = "done"
      BY <2>1 DEF RequestFails, RequestRaises, AnswerIsNotAPlan, RejectPlan,
         DetectCycle, CheckLimit, End
    <3>2. QED
      BY <2>0, <3>1 DEF StepsAhead
  <2>2. CASE AnswerIsAPlan
    <3>1. pc = "request" /\ pc' = "validate" /\ plan' = plan
      BY <2>2 DEF AnswerIsAPlan
    <3>2. QED
      BY <2>0, <3>1 DEF StepsAhead
  <2>3. CASE AcceptPlan
    <3>1. pc = "validate" /\ pc' = "layering" /\ remaining' = Ids(plan)
      BY <2>3 DEF AcceptPlan
    <3>2. QED
      BY <2>0, <3>1 DEF StepsAhead
  <2>4. CASE AppendGroup
    <3>1. /\ pc = "layering" /\ pc' = "layering"
          /\ ReadyAmong(plan, remaining, completed) # {}
          /\ remaining' = remaining \ ReadyAmong(plan, remaining, completed)
      BY <2>4 DEF AppendGroup, WithoutReady
    <3>2. remaining' \subseteq remaining /\ remaining' # remaining
      BY <3>1 DEF ReadyAmong
    <3>3. /\ Cardinality(remaining') <= Cardinality(remaining)
          /\ Cardinality(remaining') # Cardinality(remaining)
      BY <2>0, <3>2, FS_Subset
    <3>4. QED
      BY <2>0, <3>1, <3>3 DEF StepsAhead
  <2>5. QED
    BY <1>3, <2>1, <2>2, <2>3, <2>4 DEF Next, Terminated
<1>4. TypeOK /\ TypeOK' /\ [Next]_vars => [StepsAhead' < StepsAhead]_vars
  BY <1>3
<1>5. QED
  BY <1>2, <1>4, TypeCorrect, PTL DEF Spec
=============================================================================
