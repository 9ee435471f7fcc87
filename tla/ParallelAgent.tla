--------------------------- MODULE ParallelAgent ---------------------------
(***************************************************************************)
(* ParallelAgent.run (agent/parallel.py): the planner's subtasks run layer *)
(* by layer, each in a clone of the workspace on a thread of a pool, and   *)
(* the changes of a layer are merged before the next one starts.           *)
(*                                                                         *)
(* The main thread and the worker threads share nothing but the HTTP       *)
(* client: a worker's model calls and tools touch its own clone only, so   *)
(* one step of a worker is one model call with the tool calls it asks for. *)
(* What those tools do to the clone is any tree of WorkerTree; SingleAgent *)
(* has the loop itself.                                                    *)
(***************************************************************************)
EXTENDS TaskPlan, FileTree

CONSTANTS
    Ident,          \* subtask identifiers
    Plans,          \* plans the model may write; TaskPlanner validates them
    Parallelism,    \* ParallelAgent.parallelism
    MaxSteps,       \* max_steps of every worker
    InitialTree,    \* workspaces a run may start from
    WorkerTree      \* trees the tools may leave in a clone

ASSUME AgentAssumption ==
    /\ IsFiniteSet(Ident)
    /\ Plans \subseteq Seq(SubtaskSpec(Ident))
    /\ Parallelism \in Nat \ {0, 1}
    /\ MaxSteps \in Nat \ {0}
    /\ InitialTree \subseteq Tree
    /\ WorkerTree \subseteq Tree

VARIABLES
    pc,         \* the main thread: "planning", "grouping", "running",
                \* "merging", "returned" or "raised"
    plan,       \* planning.plan, << >> when there is none
    answered,   \* whether the planner's model call was answered
    done,       \* subtasks whose group is merged
    group,      \* the current group
    baseline,   \* the snapshot the group started from
    clone,      \* the clones that exist in the temporary directory
    wstate,     \* state of each subtask's worker
    calls,      \* model calls answered to each worker
    changes,    \* the change set of each finished worker
    reported,   \* subtasks whose results are in completed_groups
    ws,         \* the shared workspace
    pending,    \* paths the write loop has still to write
    status      \* the AgentStatus returned

vars == <<pc, plan, answered, done, group, baseline, clone, wstate, calls,
          changes, reported, ws, pending, status>>

planVars == <<plan, answered>>
workerVars == <<clone, wstate, calls, changes>>

Subtasks == Ids(plan)

Failing == {"failed", "max_steps"}
Ended == {"completed", "raised"} \cup Failing

TypeOK ==
    /\ pc \in {"planning", "grouping", "running", "merging", "returned",
               "raised"}
    /\ plan \in Plans \cup {<< >>}
    /\ answered \in BOOLEAN
    /\ done \subseteq Subtasks
    /\ group \subseteq Subtasks
    /\ baseline \in Files
    /\ \E S \in SUBSET Ident : clone \in [S -> Tree]
    /\ wstate \in [Ident -> {"idle", "queued", "running"} \cup Ended]
    /\ calls \in [Ident -> 0..MaxSteps]
    /\ changes \in [Ident -> ChangeSet]
    /\ reported \subseteq Subtasks
    /\ ws \in Tree
    /\ pending \subseteq Path
    /\ status \in {"none", "completed"} \cup Failing

NoClones == [s \in {} |-> Missing]

Init ==
    /\ pc = "planning"
    /\ plan = << >>
    /\ answered = FALSE
    /\ done = {}
    /\ group = {}
    /\ ws \in InitialTree
    /\ baseline = Capture(ws)
    /\ clone = NoClones
    /\ wstate = [s \in Ident |-> "idle"]
    /\ calls = [s \in Ident |-> 0]
    /\ changes = [s \in Ident |-> NoChanges]
    /\ reported = {}
    /\ pending = {}
    /\ status = "none"

Return(result) == pc' = "returned" /\ status' = result

Raise == pc' = "raised" /\ UNCHANGED status

-----------------------------------------------------------------------------
(***************************************************************************)
(* run: the planner call.  A PlanningError, for a failed request or for a  *)
(* rejected answer, returns a failed result without planning; anything     *)
(* else propagates.                                                        *)
(***************************************************************************)
PlanningFrame ==
    UNCHANGED <<done, group, baseline, workerVars, reported, ws, pending>>

PlanRequestFails ==
    /\ pc = "planning"
    /\ Return("failed")
    /\ UNCHANGED planVars /\ PlanningFrame

PlanRejected ==
    /\ pc = "planning"
    /\ answered' = TRUE
    /\ Return("failed")
    /\ UNCHANGED plan /\ PlanningFrame

PlanRaises ==
    /\ pc = "planning"
    /\ Raise
    /\ UNCHANGED planVars /\ PlanningFrame

PlanAccepted ==
    /\ pc = "planning"
    /\ \E p \in Plans : ValidPlan(p) /\ plan' = p
    /\ answered' = TRUE
    /\ pc' = "grouping"
    /\ UNCHANGED status /\ PlanningFrame

-----------------------------------------------------------------------------
(***************************************************************************)
(* _run_group up to the pool: snapshot the workspace, make the temporary   *)
(* directory, clone the workspace once per subtask, submit the subtasks.   *)
(* Nobody else writes the workspace meanwhile.  Mutated form: everything   *)
(* left of the plan is one group.                                          *)
(***************************************************************************)
RestOfPlan == Subtasks \ done

NextGroup == Ready(plan, done)

BeginGroup ==
    /\ pc = "grouping"
    /\ done # Subtasks
    /\ group' = NextGroup
    /\ baseline' = Capture(ws)
    /\ clone' = [s \in group' |-> ws]
    /\ wstate' = [s \in Ident |-> IF s \in group' THEN "queued" ELSE wstate[s]]
    /\ pc' = "running"
    /\ UNCHANGED <<planVars, done, calls, changes, reported, ws, pending,
                   status>>

(***************************************************************************)
(* The snapshot or a clone fails with an OSError: the context manager      *)
(* removes the temporary directory and the exception leaves run.           *)
(***************************************************************************)
SetupRaises ==
    /\ pc = "grouping"
    /\ done # Subtasks
    /\ Raise
    /\ UNCHANGED <<planVars, done, group, baseline, workerVars, reported, ws,
                   pending>>

-----------------------------------------------------------------------------
(***************************************************************************)
(* The pool: the threads take the submitted subtasks first in, first out.  *)
(***************************************************************************)
InState(S) == {s \in group : wstate[s] \in S}

StartWorker(s) ==
    /\ pc = "running"
    /\ s \in InState({"queued"})
    /\ s = FirstInPlan(plan, InState({"queued"}))
    /\ Cardinality(InState({"running"})) < Parallelism
    /\ wstate' = [wstate EXCEPT ![s] = "running"]
    /\ UNCHANGED <<pc, planVars, done, group, baseline, clone, calls, changes,
                   reported, ws, pending, status>>

WorkerFrame ==
    UNCHANGED <<pc, planVars, done, group, baseline, reported, ws, pending,
                status>>

(***************************************************************************)
(* The end of _run_subtask: the agent's status, then the difference        *)
(* between the clone and the baseline.                                     *)
(***************************************************************************)
EndWorker(s, result, tree) ==
    /\ wstate' = [wstate EXCEPT ![s] = result]
    /\ changes' =
           [changes EXCEPT ![s] = ChangesSince(Capture(tree), baseline)]

(***************************************************************************)
(* Mutated forms: the loop of the worker does not count its steps; it      *)
(* stops only beyond its limit.                                            *)
(***************************************************************************)
Uncounted(n) == n

Counted(n) == n + 1

BeyondLimit(n) == n > MaxSteps

AtLimit(n) == n = MaxSteps

(***************************************************************************)
(* A model call without tool calls ends the worker.                        *)
(***************************************************************************)
WorkerAnswers(s) ==
    /\ wstate[s] = "running"
    /\ calls' = [calls EXCEPT ![s] = Counted(@)]
    /\ EndWorker(s, "completed", clone[s])
    /\ UNCHANGED clone /\ WorkerFrame

(***************************************************************************)
(* A model call with tool calls: they run in the clone; at the last step   *)
(* the worker ends there.                                                  *)
(***************************************************************************)
WorkerUsesTools(s) ==
    /\ wstate[s] = "running"
    /\ calls' = [calls EXCEPT ![s] = Counted(@)]
    /\ \E tree \in WorkerTree :
           /\ clone' = [clone EXCEPT ![s] = tree]
           /\ IF AtLimit(Counted(calls[s]))
              THEN EndWorker(s, "max_steps", tree)
              ELSE UNCHANGED <<wstate, changes>>
    /\ WorkerFrame

WorkerRequestFails(s) ==
    /\ wstate[s] = "running"
    /\ EndWorker(s, "failed", clone[s])
    /\ UNCHANGED <<clone, calls>> /\ WorkerFrame

(***************************************************************************)
(* An exception SingleAgent.run does not catch (an httpx transport error), *)
(* or one of the final snapshot: the future holds it.                      *)
(***************************************************************************)
WorkerRaises(s) ==
    /\ wstate[s] = "running"
    /\ wstate' = [wstate EXCEPT ![s] = "raised"]
    /\ UNCHANGED <<clone, calls, changes>> /\ WorkerFrame

Worker(s) ==
    \/ StartWorker(s)
    \/ WorkerAnswers(s) \/ WorkerUsesTools(s)
    \/ WorkerRequestFails(s) \/ WorkerRaises(s)

-----------------------------------------------------------------------------
(***************************************************************************)
(* The end of _run_group: the pool is left only when every submitted       *)
(* subtask has ended, whatever happened to the others, and the temporary   *)
(* directory goes with the clones.  Mutated form: the first result that is *)
(* not a success ends the wait.                                            *)
(***************************************************************************)
FirstFailureEndsWait ==
    InState(Ended) = group \/ InState(Failing) # {}

GroupEnded == InState(Ended) = group

CollectFrame ==
    /\ clone' = NoClones
    /\ UNCHANGED <<planVars, done, group, baseline, wstate, calls, changes, ws>>

CollectRaised ==
    /\ pc = "running"
    /\ GroupEnded
    /\ InState({"raised"}) # {}
    /\ Raise
    /\ UNCHANGED <<reported, pending>> /\ CollectFrame

(***************************************************************************)
(* Back in run: the first failed subtask of the group, in plan order, ends *)
(* the run with its own status; nothing of the group is merged.  Mutated   *)
(* form: only a group in which no subtask completed counts as failed.      *)
(***************************************************************************)
NoneCompleted == InState({"completed"}) = {}

SomeFailed == InState(Failing) # {}

CollectFailure ==
    /\ pc = "running"
    /\ GroupEnded
    /\ InState({"raised"}) = {}
    /\ SomeFailed
    /\ Return(wstate[FirstInPlan(plan, InState(Failing))])
    /\ reported' = reported \cup group
    /\ UNCHANGED pending /\ CollectFrame

GroupChanges == {changes[s] : s \in group}

(***************************************************************************)
(* merge_change_sets, up to its write loop.                                *)
(***************************************************************************)
CollectConflict ==
    /\ pc = "running"
    /\ GroupEnded
    /\ InState({"raised"}) = {}
    /\ ~SomeFailed
    /\ Conflict(GroupChanges)
    /\ Return("failed")
    /\ reported' = reported \cup group
    /\ UNCHANGED pending /\ CollectFrame

StartMerge ==
    /\ pc = "running"
    /\ GroupEnded
    /\ InState({"raised"}) = {}
    /\ ~SomeFailed
    /\ ~Conflict(GroupChanges)
    /\ pc' = "merging"
    /\ reported' = reported \cup group
    /\ pending' = DOMAIN MergeOf(GroupChanges)
    /\ UNCHANGED status /\ CollectFrame

(***************************************************************************)
(* The write loop, one path per step.  An OSError, over the kind of an     *)
(* entry or for any other reason, is not a WorkspaceMergeError and leaves  *)
(* run.                                                                    *)
(***************************************************************************)
WritePath ==
    /\ pc = "merging"
    /\ pending # {}
    /\ LET p == FirstPath(pending) IN
           /\ CanWrite(ws, p)
           /\ ws' = WriteFile(ws, p, MergeOf(GroupChanges)[p])
           /\ pending' = pending \ {p}
    /\ UNCHANGED <<pc, planVars, done, group, baseline, workerVars, reported,
                   status>>

WriteRaises ==
    /\ pc = "merging"
    /\ pending # {}
    /\ LET p == FirstPath(pending) IN
           ws' \in FailedWrites(ws, p, MergeOf(GroupChanges)[p])
    /\ Raise
    /\ UNCHANGED <<planVars, done, group, baseline, workerVars, reported,
                   pending>>

FinishMerge ==
    /\ pc = "merging"
    /\ pending = {}
    /\ done' = done \cup group
    /\ pc' = "grouping"
    /\ UNCHANGED <<planVars, group, baseline, workerVars, reported, ws,
                   pending, status>>

Complete ==
    /\ pc = "grouping"
    /\ done = Subtasks
    /\ Return("completed")
    /\ UNCHANGED <<planVars, done, group, baseline, workerVars, reported, ws,
                   pending>>

PlannerReturns ==
    \/ PlanRequestFails \/ PlanRejected \/ PlanRaises \/ PlanAccepted

OwnStep ==
    \/ BeginGroup \/ SetupRaises
    \/ CollectRaised \/ CollectFailure \/ CollectConflict
    \/ StartMerge \/ WritePath \/ WriteRaises \/ FinishMerge
    \/ Complete

Main == PlannerReturns \/ OwnStep

Terminated == pc \in {"returned", "raised"} /\ UNCHANGED vars

Next == Main \/ (\E s \in Ident : Worker(s)) \/ Terminated

Spec == Init /\ [][Next]_vars

(***************************************************************************)
(* The operating system schedules the threads and its file operations      *)
(* return, so the main thread goes on whenever it waits for nobody, and a  *)
(* free thread of the pool takes the next subtask.  Nothing is assumed of  *)
(* a model request (httpx limits each read of the answer, not the answer)  *)
(* or of a tool call (CommandRunner: the second communicate is unlimited): *)
(* each may last for ever.                                                 *)
(***************************************************************************)
FairSpec ==
    /\ Spec
    /\ WF_vars(OwnStep)
    /\ \A s \in Ident : WF_vars(StartWorker(s))

-----------------------------------------------------------------------------
(***************************************************************************)
(* No lost update within a group: after its merge every file is what the   *)
(* workers of the group that changed it left in their clones, and a file   *)
(* none of them changed is what it was.                                    *)
(***************************************************************************)
GroupMergedExactly ==
    pc = "grouping" /\ group # {} =>
        \A p \in Path :
            LET owners == {s \in group : p \in DOMAIN changes[s]} IN
            IF owners = {}
            THEN Capture(ws)[p] = baseline[p]
            ELSE \A s \in owners : Capture(ws)[p] = changes[s][p]

(***************************************************************************)
(* A change of d is in files unless a subtask of a later layer that is     *)
(* merged too changed the same path.                                       *)
(***************************************************************************)
Shows(files, d) ==
    \A p \in DOMAIN changes[d] :
        \/ files[p] = changes[d][p]
        \/ \E t \in done :
               /\ p \in DOMAIN changes[t]
               /\ LayerOf(plan, t) > LayerOf(plan, d)

(***************************************************************************)
(* A worker starts from a clone with the work of its prerequisites in it:  *)
(* they are merged, and what it is compared with afterwards shows their    *)
(* changes.                                                                *)
(***************************************************************************)
WorkersSeePrerequisites ==
    pc = "running" =>
        \A s \in group : \A d \in DepsOf(plan, s) :
            d \in done /\ Shows(baseline, d)

(***************************************************************************)
(* A completed run lost nothing: every subtask of the plan completed, and  *)
(* its changes are in the workspace unless a later layer replaced them.    *)
(***************************************************************************)
CompletedRunKeepsAllWork ==
    status = "completed" =>
        /\ done = Subtasks
        /\ \A s \in Subtasks : wstate[s] = "completed" /\ Shows(Capture(ws), s)

(***************************************************************************)
(* A subtask that does not complete stops the plan: nothing of a later     *)
(* layer ever starts.                                                      *)
(***************************************************************************)
FailureStopsLaterLayers ==
    \A s, t \in Subtasks :
        /\ wstate[s] \in Failing \cup {"raised"}
        /\ LayerOf(plan, t) > LayerOf(plan, s)
        => wstate[t] = "idle"

(***************************************************************************)
(* The status returned is that of the earliest subtask of the plan that    *)
(* did not complete; a failed run in which all completed is a merge        *)
(* conflict, or had no plan.                                               *)
(***************************************************************************)
StatusIsEarliestFailure ==
    pc = "returned" =>
        LET failed == {s \in Subtasks : wstate[s] \in Failing} IN
        IF failed = {}
        THEN status = "failed" => plan = << >> \/ Conflict(GroupChanges)
        ELSE \E s \in failed :
                 /\ status = wstate[s]
                 /\ \A t \in failed \ {s} : Precedes(plan, s, t)

(***************************************************************************)
(* No worker outlives its group: while one is queued or running its clone  *)
(* exists, and none is left when the main thread has moved on (TaskRunner  *)
(* then verifies and removes the workspace).                               *)
(***************************************************************************)
NoWorkerOutlivesGroup ==
    \A s \in Ident :
        wstate[s] \in {"queued", "running"} =>
            pc = "running" /\ s \in DOMAIN clone

(***************************************************************************)
(* The workspace changes only while the agreed changes of a group are      *)
(* written: every worker of the group completed and no two of them         *)
(* disagree.                                                               *)
(***************************************************************************)
OnlyAgreedWorkIsWritten ==
    [][ws' # ws =>
           /\ \A s \in group : wstate[s] = "completed"
           /\ \A s, t \in group : \A p \in DOMAIN changes[s] \cap DOMAIN changes[t] :
                  changes[s][p] = changes[t][p]]_vars

(***************************************************************************)
(* What alone can keep run from ending: a request of the planner, or a     *)
(* model request or tool call of one worker, that never returns.  A group  *)
(* waits for nothing else, no worker goes round its loop for ever, and the *)
(* plan has finitely many groups.                                          *)
(***************************************************************************)
NeverReturns(s) ==
    /\ <>[](wstate[s] = "running")
    /\ <>[][~WorkerUsesTools(s)]_vars

RunTerminates ==
    \/ <>(pc \in {"returned", "raised"})
    \/ <>[](pc = "planning")
    \/ \E s \in Ident : NeverReturns(s)

(***************************************************************************)
(* "Each run produces a structured JSONL record containing: ... model-call *)
(* and tool-call counts; ... reported inference cost" (README.md:170-178): *)
(* every model call that was answered is among the model_calls of the      *)
(* result, the planner's if there is a plan and a worker's if its result   *)
(* is reported.                                                            *)
(***************************************************************************)
EveryCallIsReported ==
    pc = "returned" =>
        /\ answered => plan # << >>
        /\ \A s \in Ident : calls[s] > 0 => s \in reported
-----------------------------------------------------------------------------
(***************************************************************************)
(* Seen from outside, the run executes its plan in batches of ready        *)
(* subtasks.                                                               *)
(***************************************************************************)
Phase ==
    CASE pc = "planning" -> "planning"
      [] pc \in {"grouping", "running", "merging"} -> "executing"
      [] pc = "returned" /\ status = "completed" -> "completed"
      [] OTHER -> "stopped"

Execution == INSTANCE PlanExecution WITH phase <- Phase

WorkerOf(s) ==
    INSTANCE WorkerContract WITH state <- wstate[s], calls <- calls[s]

(***************************************************************************)
(* ParallelAgent implements PlanExecution: a subtask counts as done only   *)
(* after its prerequisites, and the run completes only with the whole plan *)
(* done.                                                                   *)
(***************************************************************************)
ImplementsPlanExecution == Execution!Spec

(***************************************************************************)
(* Each of its workers behaves as WorkerContract says an agent does; that  *)
(* SingleAgent does so too is what lets a worker's step be a whole model   *)
(* call.                                                                   *)
(***************************************************************************)
ImplementsWorkerContract ==
    /\ \A s \in Ident : WorkerOf(s)!Init
    /\ [][\A s \in Ident :
              [WorkerOf(s)!Next]_<<wstate[s], calls[s]>>]_vars
=============================================================================
