---------------------------- MODULE TaskPlanner ----------------------------
(***************************************************************************)
(* TaskPlanner.plan (agent/planner.py): one model request, the validation  *)
(* of the answer as a TaskPlan, the layering loop of parallel_groups (the  *)
(* validator runs it to reject cycles, the agents run it again to schedule)*)
(* and the limit on the number of subtasks.                                *)
(*                                                                         *)
(* Every outcome but "planned" and "raised" is a PlanningError.  "raised"  *)
(* is an exception of the client that is not an OpenRouterError, such as   *)
(* an httpx transport error: plan() does not catch it.                     *)
(***************************************************************************)
EXTENDS TaskPlan

CONSTANTS
    Ident,              \* the subtask identifiers a model may write
    Plans,              \* the raw plans a model may write
    MaxPlanSubtasks,    \* _MAX_PLAN_SUBTASKS, 8 in the code
    MaxSubtasks         \* the planner's max_subtasks

ASSUME PlansAssumption == Plans \subseteq Seq(SubtaskSpec(Ident))

ASSUME LimitsAssumption ==
    /\ MaxPlanSubtasks \in Nat
    /\ MaxSubtasks \in 1..MaxPlanSubtasks

VARIABLES
    pc,         \* "request", "validate", "layering" or "done"
    plan,       \* the subtasks the model answers with, chosen at the start
    completed,  \* parallel_groups' completed
    remaining,  \* parallel_groups' remaining
    groups,     \* parallel_groups' groups, each a set in plan order
    outcome     \* what plan() ended with

vars == <<pc, plan, completed, remaining, groups, outcome>>

Outcomes ==
    {"none", "planned", "request_failed", "invalid", "cycle", "too_many",
     "raised"}

TypeOK ==
    /\ pc \in {"request", "validate", "layering", "done"}
    /\ plan \in Seq(SubtaskSpec(Ident))
    /\ completed \subseteq Ids(plan)
    /\ remaining \subseteq Ids(plan)
    /\ groups \in Seq(SUBSET Ids(plan))
    /\ outcome \in Outcomes
    /\ pc = "done" <=> outcome # "none"

Init ==
    /\ pc = "request"
    /\ plan \in Plans
    /\ completed = {}
    /\ remaining = {}
    /\ groups = << >>
    /\ outcome = "none"

(***************************************************************************)
(* How plan() ends.                                                        *)
(***************************************************************************)
End(result) ==
    /\ pc' = "done"
    /\ outcome' = result
    /\ UNCHANGED <<plan, completed, remaining, groups>>

-----------------------------------------------------------------------------
(***************************************************************************)
(* The model request: it fails with an OpenRouterError or with another     *)
(* exception, or its content is not a list of subtasks (no JSON, a blank   *)
(* instruction, an extra key), or it is the raw plan.                      *)
(***************************************************************************)
RequestFails == pc = "request" /\ End("request_failed")

RequestRaises == pc = "request" /\ End("raised")

AnswerIsNotAPlan == pc = "request" /\ End("invalid")

AnswerIsAPlan ==
    /\ pc = "request"
    /\ pc' = "validate"
    /\ UNCHANGED <<plan, completed, remaining, groups, outcome>>

(***************************************************************************)
(* The field constraints of TaskPlan, then validate_graph up to its call   *)
(* of parallel_groups.                                                     *)
(***************************************************************************)
Wellformed(p) ==
    /\ Len(p) \in 1..MaxPlanSubtasks
    /\ IdsAreUnique(p)
    /\ NoSelfDependency(p)
    /\ DependenciesKnown(p)

RejectPlan == pc = "validate" /\ ~Wellformed(plan) /\ End("invalid")

AcceptPlan ==
    /\ pc = "validate"
    /\ Wellformed(plan)
    /\ pc' = "layering"
    /\ completed' = {}
    /\ remaining' = Ids(plan)
    /\ groups' = << >>
    /\ UNCHANGED <<plan, outcome>>

-----------------------------------------------------------------------------
(***************************************************************************)
(* The while loop of parallel_groups.  Mutated forms: completed.update is  *)
(* forgotten; remaining keeps the members of the new group; an iteration   *)
(* with nothing ready goes round again.                                    *)
(***************************************************************************)
ForgetReady(done, ready) == done

WithReady(done, ready) == done \cup ready

KeepReady(todo, ready) == todo

WithoutReady(todo, ready) == todo \ ready

AppendGroup ==
    /\ pc = "layering"
    /\ remaining # {}
    /\ LET ready == ReadyAmong(plan, remaining, completed) IN
           /\ ready # {}
           /\ groups' = Append(groups, ready)
           /\ completed' = WithReady(completed, ready)
           /\ remaining' = WithoutReady(remaining, ready)
    /\ UNCHANGED <<pc, plan, outcome>>

SpinWithNothingReady ==
    /\ pc = "layering"
    /\ remaining # {}
    /\ ReadyAmong(plan, remaining, completed) = {}
    /\ UNCHANGED vars

DetectCycle ==
    /\ pc = "layering"
    /\ remaining # {}
    /\ ReadyAmong(plan, remaining, completed) = {}
    /\ End("cycle")

(***************************************************************************)
(* After the loop the planner compares the number of subtasks with its own *)
(* limit.                                                                  *)
(***************************************************************************)
CheckLimit ==
    /\ pc = "layering"
    /\ remaining = {}
    /\ End(IF Len(plan) > MaxSubtasks THEN "too_many" ELSE "planned")

Terminated == pc = "done" /\ UNCHANGED vars

Next ==
    \/ RequestFails \/ RequestRaises \/ AnswerIsNotAPlan \/ AnswerIsAPlan
    \/ RejectPlan \/ AcceptPlan
    \/ AppendGroup \/ DetectCycle \/ CheckLimit
    \/ Terminated

Spec == Init /\ [][Next]_vars

(***************************************************************************)
(* plan() runs on one thread: whatever follows the request is done.  That  *)
(* the request returns is not assumed (httpx limits each read of the       *)
(* answer, not the answer).                                                *)
(***************************************************************************)
FairSpec ==
    Spec /\ WF_vars(RejectPlan \/ AcceptPlan \/ AppendGroup \/ DetectCycle \/
                   CheckLimit)

-----------------------------------------------------------------------------
Layered == pc = "layering" \/ outcome \in {"planned", "too_many", "cycle"}

(***************************************************************************)
(* The groups and remaining partition the plan: parallel_groups neither    *)
(* drops a subtask nor schedules one twice.                                *)
(***************************************************************************)
GroupsPartitionPlan ==
    Layered =>
        /\ UNION {groups[i] : i \in DOMAIN groups} = Ids(plan) \ remaining
        /\ \A i, j \in DOMAIN groups :
               i # j => groups[i] \cap groups[j] = {}

(***************************************************************************)
(* Every prerequisite of a grouped subtask is in a strictly earlier group, *)
(* so that no two members of one group depend on one another: this is what *)
(* lets ParallelAgent run a group concurrently.                            *)
(***************************************************************************)
DependenciesInEarlierGroups ==
    Layered =>
        \A i \in DOMAIN groups : \A s \in groups[i] :
            \A d \in DepsOf(plan, s) :
                \E j \in DOMAIN groups : j < i /\ d \in groups[j]

(***************************************************************************)
(* No subtask waits longer than it must: each member of a later group has  *)
(* a prerequisite in the group just before it.                             *)
(***************************************************************************)
GroupsAreEarliest ==
    Layered =>
        \A i \in DOMAIN groups \ {1} : \A s \in groups[i] :
            DepsOf(plan, s) \cap groups[i-1] # {}

(***************************************************************************)
(* The loop's verdict on cycles is exact: it rejects a plan as cyclic only *)
(* if some set of subtasks waits for itself, and what it lets through has  *)
(* no such set (each plan the agents receive is a ValidPlan).              *)
(***************************************************************************)
CycleVerdictIsExact ==
    /\ outcome = "cycle" => Cyclic(plan)
    /\ outcome \in {"planned", "too_many"} => ValidPlan(plan)

(***************************************************************************)
(* Once the model has answered plan() ends, whatever graph it wrote down.  *)
(***************************************************************************)
PlanningTerminates == (pc # "request") ~> (pc = "done")
=============================================================================
