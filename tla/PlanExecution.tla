--------------------------- MODULE PlanExecution ---------------------------
(***************************************************************************)
(* What the two orchestrated strategies promise about a plan, whichever    *)
(* way they run it: "Workers execute those subtasks in topological order   *)
(* so later workers can observe earlier changes" (README.md:124).          *)
(* ParallelAgent finishes a whole layer at a time, SequentialAgent one     *)
(* subtask at a time; both implement this specification.                   *)
(***************************************************************************)
EXTENDS TaskPlan

CONSTANT Plans

VARIABLES
    phase,      \* "planning", "executing", "completed" or "stopped"
    plan,
    done        \* the subtasks whose work is in the workspace for good

vars == <<phase, plan, done>>

Init ==
    /\ phase = "planning"
    /\ plan = << >>
    /\ done = {}

Accept ==
    /\ phase = "planning"
    /\ \E p \in Plans : ValidPlan(p) /\ plan' = p
    /\ phase' = "executing"
    /\ UNCHANGED done

(***************************************************************************)
(* Some subtasks whose prerequisites were all done before are done.        *)
(***************************************************************************)
FinishBatch ==
    /\ phase = "executing"
    /\ \E batch \in (SUBSET Ready(plan, done)) \ {{}} : done' = done \cup batch
    /\ UNCHANGED <<phase, plan>>

Succeed ==
    /\ phase = "executing"
    /\ done = Ids(plan)
    /\ phase' = "completed"
    /\ UNCHANGED <<plan, done>>

(***************************************************************************)
(* The run fails, for whatever reason, and stays where it is.              *)
(***************************************************************************)
Stop ==
    /\ phase \in {"planning", "executing"}
    /\ phase' = "stopped"
    /\ UNCHANGED <<plan, done>>

Next == Accept \/ FinishBatch \/ Succeed \/ Stop

Spec == Init /\ [][Next]_vars
=============================================================================
