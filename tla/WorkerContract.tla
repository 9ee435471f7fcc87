--------------------------- MODULE WorkerContract ---------------------------
(***************************************************************************)
(* What the orchestrated strategies rely on in the agent they run for a    *)
(* subtask: it ends with one of the statuses or with an exception, after   *)
(* at most MaxSteps answered model calls.  SingleAgent implements it step  *)
(* by step; the workers of ParallelAgent and SequentialAgent, whose steps  *)
(* are whole model calls with their tools, implement it too.               *)
(***************************************************************************)
EXTENDS Naturals

CONSTANT MaxSteps

VARIABLES
    state,      \* "idle", "queued", "running" or how the worker ended
    calls       \* model calls answered, with their tool calls executed

vars == <<state, calls>>

Init ==
    /\ state \in {"idle", "running"}
    /\ calls = 0

Begin ==
    /\ state \in {"idle", "queued"}
    /\ state' \in {"queued", "running"} \ {state}
    /\ UNCHANGED calls

Answer ==
    /\ state = "running"
    /\ calls < MaxSteps
    /\ calls' = calls + 1
    /\ state' = "completed"

UseTools ==
    /\ state = "running"
    /\ calls < MaxSteps
    /\ calls' = calls + 1
    /\ state' = IF calls' = MaxSteps THEN "max_steps" ELSE "running"

Fail ==
    /\ state = "running"
    /\ calls < MaxSteps
    /\ state' \in {"failed", "raised"}
    /\ UNCHANGED calls

Next == Begin \/ Answer \/ UseTools \/ Fail

Spec == Init /\ [][Next]_vars
=============================================================================
