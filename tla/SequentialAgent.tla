-------------------------- MODULE SequentialAgent --------------------------
(***************************************************************************)
(* SequentialAgent.run (agent/sequential.py): the planner's subtasks run   *)
(* one after the other, in the execution order of the plan, all in the     *)
(* workspace itself.  One step of a worker is one model call with the tool *)
(* calls it asks for, as in ParallelAgent.  The workspace is left out: no  *)
(* step of run reads or writes it, and what the tools of one subtask and   *)
(* the processes of another do to it side by side is AgentWorkspace's      *)
(* subject.                                                                *)
(***************************************************************************)
EXTENDS TaskPlan

CONSTANTS Ident, Plans, MaxSteps

ASSUME AgentAssumption ==
    /\ IsFiniteSet(Ident)
    /\ Plans \subseteq Seq(SubtaskSpec(Ident))
    /\ MaxSteps \in Nat \ {0}

VARIABLES
    pc,         \* "planning", "choosing", "working", "returned" or "raised"
    plan,
    answered,   \* whether the planner's model call was answered
    todo,       \* the rest of execution_order(), the current subtask included
    completed,  \* the list completed: the subtasks with a result, in order
    wstate,     \* each subtask's worker: "idle", "running", "completed",
                \* "raised" or Failing
    calls,      \* model calls answered to each worker
    status      \* "none", "completed" or Failing

vars == <<pc, plan, answered, todo, completed, wstate, calls, status>>

Failing == {"failed", "max_steps"}

Init ==
    /\ pc = "planning"
    /\ plan = << >>
    /\ answered = FALSE
    /\ todo = << >>
    /\ completed = << >>
    /\ wstate = [s \in Ident |-> "idle"]
    /\ calls = [s \in Ident |-> 0]
    /\ status = "none"

(***************************************************************************)
(* TaskPlan.execution_order: the layers one after the other, each in plan  *)
(* order; a subtask's place is the number of those that run before it.     *)
(* Mutated form: the order in which the model listed the subtasks.         *)
(***************************************************************************)
ListedOrder(p) == [i \in DOMAIN p |-> p[i].id]

RunsBefore(p, s, t) ==
    \/ LayerOf(p, s) < LayerOf(p, t)
    \/ LayerOf(p, s) = LayerOf(p, t) /\ Precedes(p, s, t)

ExecutionOrder(p) ==
    [i \in 1..Len(p) |->
        CHOOSE s \in Ids(p) :
            Cardinality({t \in Ids(p) : RunsBefore(p, t, s)}) = i - 1]

Return(result) == pc' = "returned" /\ status' = result

WorkVars == <<todo, completed, wstate, calls>>

-----------------------------------------------------------------------------
(***************************************************************************)
(* The planner call, as in ParallelAgent.                                  *)
(***************************************************************************)
PlanRequestFails ==
    /\ pc = "planning"
    /\ Return("failed")
    /\ UNCHANGED <<plan, answered, WorkVars>>

PlanRejected ==
    /\ pc = "planning"
    /\ answered' = TRUE
    /\ Return("failed")
    /\ UNCHANGED <<plan, WorkVars>>

PlanRaises ==
    /\ pc = "planning"
    /\ pc' = "raised"
    /\ UNCHANGED <<plan, answered, WorkVars, status>>

PlanAccepted ==
    /\ pc = "planning"
    /\ \E p \in Plans : ValidPlan(p) /\ plan' = p
    /\ answered' = TRUE
    /\ todo' = ExecutionOrder(plan')
    /\ pc' = "choosing"
    /\ UNCHANGED <<completed, wstate, calls, status>>

-----------------------------------------------------------------------------
(***************************************************************************)
(* The loop over the execution order.                                      *)
(***************************************************************************)
StartSubtask ==
    /\ pc = "choosing"
    /\ todo # << >>
    /\ wstate' = [wstate EXCEPT ![Head(todo)] = "running"]
    /\ pc' = "working"
    /\ UNCHANGED <<plan, answered, todo, completed, calls, status>>

(***************************************************************************)
(* The result is appended; unless the subtask completed it ends the run.   *)
(* Mutated form: the loop goes on after a failed subtask.                  *)
(***************************************************************************)
NeverStops(result) == FALSE

StopsAfter(result) == result # "completed"

EndSubtask(result) ==
    LET s == Head(todo) IN
    /\ wstate' = [wstate EXCEPT ![s] = result]
    /\ completed' = Append(completed, s)
    /\ todo' = Tail(todo)
    /\ IF StopsAfter(result)
       THEN Return(result)
       ELSE pc' = "choosing" /\ UNCHANGED status

(***************************************************************************)
(* The steps of the worker.  Mutated form: the loop stops only beyond its  *)
(* limit.                                                                  *)
(***************************************************************************)
BeyondLimit(n) == n > MaxSteps

AtLimit(n) == n = MaxSteps

WorkerAnswers ==
    /\ pc = "working"
    /\ calls' = [calls EXCEPT ![Head(todo)] = @ + 1]
    /\ EndSubtask("completed")
    /\ UNCHANGED <<plan, answered>>

WorkerUsesTools ==
    /\ pc = "working"
    /\ calls' = [calls EXCEPT ![Head(todo)] = @ + 1]
    /\ IF AtLimit(calls[Head(todo)] + 1)
       THEN EndSubtask("max_steps")
       ELSE UNCHANGED <<pc, todo, completed, wstate, status>>
    /\ UNCHANGED <<plan, answered>>

WorkerRequestFails ==
    /\ pc = "working"
    /\ EndSubtask("failed")
    /\ UNCHANGED <<plan, answered, calls>>

(***************************************************************************)
(* An exception SingleAgent.run does not catch leaves run, too.            *)
(***************************************************************************)
WorkerRaises ==
    /\ pc = "working"
    /\ pc' = "raised"
    /\ wstate' = [wstate EXCEPT ![Head(todo)] = "raised"]
    /\ UNCHANGED <<plan, answered, todo, completed, calls, status>>

Complete ==
    /\ pc = "choosing"
    /\ todo = << >>
    /\ Return("completed")
    /\ UNCHANGED <<plan, answered, WorkVars>>

Terminated == pc \in {"returned", "raised"} /\ UNCHANGED vars

Next ==
    \/ PlanRequestFails \/ PlanRejected \/ PlanRaises \/ PlanAccepted
    \/ StartSubtask
    \/ WorkerAnswers \/ WorkerUsesTools \/ WorkerRequestFails \/ WorkerRaises
    \/ Complete
    \/ Terminated

Spec == Init /\ [][Next]_vars

-----------------------------------------------------------------------------
Started == {s \in Ident : wstate[s] # "idle"}

(***************************************************************************)
(* "Workers execute those subtasks in topological order so later workers   *)
(* can observe earlier changes" (README.md:124-126): however the plan      *)
(* lists them, when a worker has started all its prerequisites have        *)
(* completed.                                                              *)
(***************************************************************************)
WorkersObserveEarlierChanges ==
    \A s \in Started : \A d \in DepsOf(plan, s) : wstate[d] = "completed"

(***************************************************************************)
(* The first subtask that does not complete is the last one to run and to  *)
(* be reported, and its status is the run's.                               *)
(***************************************************************************)
StopsAtFirstFailure ==
    \A s \in Ident :
        wstate[s] \in Failing =>
            /\ pc = "returned" /\ status = wstate[s]
            /\ s = completed[Len(completed)]
            /\ {completed[i] : i \in DOMAIN completed} = Started

Phase ==
    CASE pc = "planning" -> "planning"
      [] pc \in {"choosing", "working"} -> "executing"
      [] pc = "returned" /\ status = "completed" -> "completed"
      [] OTHER -> "stopped"

Execution == INSTANCE PlanExecution
    WITH phase <- Phase, done <- {s \in Ident : wstate[s] = "completed"}

(***************************************************************************)
(* SequentialAgent implements PlanExecution, a subtask at a time.          *)
(***************************************************************************)
ImplementsPlanExecution == Execution!Spec

WorkerOf(s) ==
    INSTANCE WorkerContract WITH state <- wstate[s], calls <- calls[s]

(***************************************************************************)
(* Each of its workers behaves as WorkerContract says an agent does.       *)
(***************************************************************************)
ImplementsWorkerContract ==
    /\ \A s \in Ident : WorkerOf(s)!Init
    /\ [][\A s \in Ident :
              [WorkerOf(s)!Next]_<<wstate[s], calls[s]>>]_vars
=============================================================================
