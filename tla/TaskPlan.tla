------------------------------ MODULE TaskPlan ------------------------------
(***************************************************************************)
(* The dependency graph of agent/planner.py (SubtaskSpec, TaskPlan).       *)
(*                                                                         *)
(* A plan is a sequence of records [id, deps], in the order in which the   *)
(* planner's model listed the subtasks.  Instructions are free text that   *)
(* no control decision reads and are left out; depends_on is a set,        *)
(* because SubtaskSpec.validate_dependencies rejects repeated entries.     *)
(* The operators are defined for raw plans too, before validation, where   *)
(* an identifier may be repeated or a dependency unknown.                  *)
(***************************************************************************)
EXTENDS Naturals, Sequences, FiniteSets

(***************************************************************************)
(* Any subtask over the identifiers Ident, whatever validate_graph says.   *)
(***************************************************************************)
SubtaskSpec(Ident) == [id : Ident, deps : SUBSET Ident]

Ids(plan) == {plan[i].id : i \in DOMAIN plan}

DepsOf(plan, s) ==
    UNION {plan[i].deps : i \in {j \in DOMAIN plan : plan[j].id = s}}

Precedes(plan, s, t) ==
    \E i, j \in DOMAIN plan : i < j /\ plan[i].id = s /\ plan[j].id = t

(***************************************************************************)
(* The first member of a set of subtasks in plan order, as next(...) over  *)
(* a group picks it.  Mutated form: the last one.                          *)
(***************************************************************************)
LastInPlan(plan, S) ==
    CHOOSE s \in S : \A t \in S \ {s} : Precedes(plan, t, s)

FirstInPlan(plan, S) ==
    CHOOSE s \in S : \A t \in S \ {s} : Precedes(plan, s, t)

-----------------------------------------------------------------------------
(***************************************************************************)
(* TaskPlan.validate_graph, one operator per check it makes.               *)
(***************************************************************************)
IdsAreUnique(plan) ==
    \A i, j \in DOMAIN plan : plan[i].id = plan[j].id => i = j

NoSelfDependency(plan) ==
    \A i \in DOMAIN plan : plan[i].id \notin plan[i].deps

DependenciesKnown(plan) ==
    \A i \in DOMAIN plan : plan[i].deps \subseteq Ids(plan)

(***************************************************************************)
(* Mutated forms: a subtask is ready as soon as one prerequisite is done;  *)
(* only the first ready subtask is taken, so that nothing runs in parallel.*)
(***************************************************************************)
ReadyOnAnyDependency(plan, remaining, completed) ==
    {s \in remaining :
        DepsOf(plan, s) = {} \/ DepsOf(plan, s) \cap completed # {}}

ReadyOneAtATime(plan, remaining, completed) ==
    LET ready == {s \in remaining : DepsOf(plan, s) \subseteq completed}
    IN  {s \in ready : s = FirstInPlan(plan, ready)}

(***************************************************************************)
(* One iteration of TaskPlan.parallel_groups: the remaining subtasks whose *)
(* dependencies are all in completed.  The group keeps plan order, so a    *)
(* set stands for it.                                                      *)
(***************************************************************************)
ReadyAmong(plan, remaining, completed) ==
    {s \in remaining : DepsOf(plan, s) \subseteq completed}

Ready(plan, completed) == ReadyAmong(plan, Ids(plan) \ completed, completed)

(***************************************************************************)
(* The layers of TaskPlan.parallel_groups: CompletedBy(plan)[n] holds the  *)
(* members of the first n groups.  This closed form of the loop that        *)
(* TaskPlanner runs step by step gives the group of a subtask.             *)
(***************************************************************************)
CompletedBy(plan) ==
    LET upTo[n \in Nat] ==
            IF n = 0 THEN {}
            ELSE LET before == upTo[n-1] IN before \cup Ready(plan, before)
    IN  upTo

LayerOf(plan, s) ==
    CHOOSE n \in 1..Len(plan) :
        /\ s \in CompletedBy(plan)[n]
        /\ s \notin CompletedBy(plan)[n-1]

(***************************************************************************)
(* Reference definition of a cyclic graph, independent of the loop: some   *)
(* non-empty set of subtasks each of whose members waits for a member.     *)
(***************************************************************************)
Knot(plan, S) == S # {} /\ \A s \in S : DepsOf(plan, s) \cap S # {}

Cyclic(plan) == \E S \in SUBSET Ids(plan) : Knot(plan, S)

(***************************************************************************)
(* A TaskPlan object: what model_validate lets through, and so what        *)
(* TaskPlanner.plan hands to the agents.                                   *)
(***************************************************************************)
ValidPlan(plan) ==
    /\ plan # << >>
    /\ IdsAreUnique(plan)
    /\ NoSelfDependency(plan)
    /\ DependenciesKnown(plan)
    /\ ~Cyclic(plan)
=============================================================================
