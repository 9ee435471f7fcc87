# A verification of agent-harness-bench

TLA+ modules that model the core of this repository, TLC configurations that
check them on small instances, and theorems with proofs for TLAPS. Paths below
are relative to `src/agent_harness/` unless they say otherwise.

The harness benchmarks three ways to let a language model work on a coding task:
one agent alone, subagents one after the other, subagents in parallel. What is
measured is worth something only if the machinery itself is right: that no
subagent's work is lost, that a later one really sees what an earlier one did,
that a result is judged by the task's own tests, that the log holds what ran,
and that the averages printed in the end are about those runs.

## 1. Inventory

| Component | State | Operations | Hard behaviour | Correct if |
|---|---|---|---|---|
| `agent/planner.py` | none between calls; the loop's `completed`, `remaining`, `groups` | one model call, parse, `validate_graph`, `parallel_groups`, `execution_order` | the graph is written by a model: cycles, unknown and repeated names | the loop ends on every graph, rejects exactly the cyclic ones and respects every dependency |
| `agent/merge.py` | the workspace's files | `capture`, `changes_since`, `clone_workspace`, `merge_change_sets` | several owners of one path, deletions, files against directories, errors half-way | no update is lost or invented; conflicts are rejected whatever the order |
| `agent/parallel.py` | clones, futures, completed groups, workspace | plan, then per layer: snapshot, clone, run on a thread pool, collect, merge | interleaving of workers, some failing or raising while others run | each layer sees the ones before it; nothing disputed or failed is written; only a call that never returns keeps the run from ending |
| `agent/sequential.py` | completed results | plan, then one agent per subtask | failure in the middle leaves half-done work | dependency order, stop at the first failure, each run reported once |
| `agent/single.py` | transcript, call and tool records, final answer | model call, tool dispatch, forced last step | several calls a message, missing ids, errors anywhere, the step limit | the transcript is well formed and the trace agrees with itself |
| `tools/command.py` | the command's process group, its output pipes | `run`: start, wait, time-out, kill, drain, truncate | processes that fork, leave the group, close or hold the output, outlive the command | a returned command is over; a call returns unless an escaped process holds its output |
| `tools/repository.py` | the files of a workspace | `read_file`, `write_file`, `replace_text`, `list_files`, `search_repo` | overlapping occurrences, line endings, lines at a page's edge, limits, a failed atomic write | an edit replaces exactly what was asked for; pages show every line once |
| `tools/dispatcher.py` | none | validate, call a tool, answer | a tool that refuses or raises | every call is answered |
| `workspace.py`, `runner.py` | workspaces on disk, snapshot of protected paths | `create`, `remove`, `provision`, `capture`, `restore`, `TaskRunner.run` | exceptions and crashes at every step; processes that go on beside the restore | a fresh copy each run, own tests at verification, cleaned up |
| `benchmark.py`, `suite.py`, `safety.py`, `cli.py` | the schedule; the output file's state | `run`, `benchmark`, `benchmark-suite`, budget and output checks, `analyze` | experiments killed and invoked again, with and without overwriting | results of two experiments do not mix; a finished one is complete |
| `llm/openrouter.py` | one HTTP stream and the message assembled from it | `complete` | deltas of several tool calls interleaved, events split over lines, streams cut off anywhere | what is returned is made of whole events, each tool call of its own deltas |
| `telemetry/records.py` | the JSONL log | `from_result`, `append` | a line is not written atomically; calls without usage or without time | one object a line; rates and totals of the calls they name |
| `analysis.py` | none | loading, summaries, comparison | missing values, zero baselines, strategies without records | averages over the right runs, views that agree |
| `plotting.py`, `integrations/` | none | charts; one strategy inside a Harbor container | | as the parts they use |
| `models.py`, `task_catalog.py`, `agent/worker.py` | none | validation, loading, prompts | | |

How they interact. `cli` calls `suite` or `benchmark`, which call
`TaskRunner.run` once per scheduled run and append its record to the log;
`analyze` reads the log later. `TaskRunner` provisions a workspace, snapshots the
protected paths, builds one of the three agents, lets it run, restores the
protected paths and runs the tests. `SequentialAgent` and `ParallelAgent` call the
planner and then run a `SingleAgent` per subtask, the one in the workspace itself,
the other in clones on threads; those threads share only the HTTP client. A
`SingleAgent` alternates model calls (`llm/openrouter.py`) and tool dispatches
(`tools/`).

There are two sources of concurrency: the thread pool of `ParallelAgent`, and the
processes that commands start and may leave behind, which share the files with
whatever the harness does next. The only state that survives a process of the
harness is the disk.

`PROJECT.json` lists the components with their status and the hazards, each at its
line.

## 2. Modules

| Module | Models | Kind |
|---|---|---|
| `TaskPlan` | a plan as a sequence of `[id, deps]`; the checks of `validate_graph`, one iteration of the layering, and the reference definitions: layers, cycles | operators |
| `TaskPlanner` | `TaskPlanner.plan`: request, validation, the layering loop one group a step, the limit | state machine |
| `FileTree` | trees with directories, snapshots, change sets, disagreement, one write | operators |
| `MergeChangeSets` | `merge_change_sets`, one change set and then one path a step | state machine |
| `PlanExecution` | what both orchestrated strategies promise: batches of subtasks whose prerequisites are done | abstract |
| `WorkerContract` | what they rely on in an agent: it ends, within its number of calls | abstract |
| `ParallelAgent` | `ParallelAgent.run`, main thread and workers; composes `TaskPlan` and `FileTree` | state machine |
| `SequentialAgent` | `SequentialAgent.run`; composes `TaskPlan` | state machine |
| `SingleAgent` | the model/tool loop with its transcript | state machine |
| `CommandRunner` | `CommandRunner.run` and the processes of its commands | state machine |
| `RepositoryTools` | the texts of files: refusals, pages, occurrences, replacement, and their references | operators |
| `AgentWorkspace` | the tools of an agent on one workspace, then the restore and the verification, beside processes left behind; composes `CommandRunner` and `RepositoryTools` | state machine |
| `ExperimentRuns` | invocations of the command line, crashes, workspaces and the log | state machine |
| `ModelStream` | one streamed completion: framing, parsing, assembly, time stamps, every end | state machine |
| `RunMetrics` | `RunRecord.from_result`, the summaries and the comparison | operators |
| `RunTelemetry` | from the stream to the comparison; composes `ModelStream` and `RunMetrics` | state machine |
| `StrategyLemmas` | proofs about `TaskPlan` and `FileTree`: least numbers, layers, trees and merges, for the proofs of the strategies and of the merge | proofs |
| `*Proofs` | proofs about the module they are named after; those about `CommandRunner` are in `AgentWorkspaceProofs` | proofs |
| `AgentRunProofs` | proofs about `SingleAgent`, and about the model calls of a run, its record and the analysis: `ModelStream`, `RunMetrics`, `RunTelemetry` | proofs |
| `MC*` | the instances for TLC | instances |

The refinements tie them together:

    SingleAgent -----------------> WorkerContract <----- workers of ParallelAgent
                                                  <----- workers of SequentialAgent
    ParallelAgent, SequentialAgent --------------> PlanExecution
    AgentWorkspace ------------------------------> CommandRunner

so the orchestrators may treat a worker's model call together with its tool calls
as one step: that step is what `SingleAgent` was shown to do. In the parallel run no
other worker touches its files meanwhile; in the sequential run the files are left
to `AgentWorkspace`.

### How state and actions correspond to the code

*Planner.* `completed`, `remaining` and `groups` are the locals of
`parallel_groups`; a group is a set because its order is the plan's. The validator
calls `parallel_groups` to reject cycles and the agents call it again; it is pure,
so one run of it is modelled. Instructions are free text and left out. A raw plan
may repeat a name or depend on an unknown one. Exceptions that are no
`OpenRouterError` pass through `plan()`; they are the outcome `raised`.

*Trees.* A path holds a content, `Directory` or nothing. A snapshot sees files only.
`WriteFile` makes missing parent directories and a deletion leaves empty ones
behind, as the code does; `CanWrite` is when the system calls do not raise over the
kind of an entry. `FailedWrites` are the trees a write that raises may leave: the
same tree, or, for a full disk or a refused permission, some of the parent
directories made and the file opened or cut short. The merge and the parallel run
take that step at any path (`WriteRaises`). The check that a target leaves the
workspace cannot fail without symbolic links and has no action.

*Parallel run.* `BeginGroup` is `_run_group` up to the submission of the futures:
nobody else writes the workspace then, so the snapshot and the clones are one step;
`SetupRaises` is its failure. `StartWorker` takes queued subtasks first in, first
out, at most `Parallelism` at a time. A worker ends by `WorkerAnswers`, at its last
step in `WorkerUsesTools`, by `WorkerRequestFails` or by `WorkerRaises`; the three
first end with the difference between its clone and the baseline. The `with` block
of the pool waits for all of them, hence `GroupEnded` in the `Collect...` actions,
which follow `future.result()`, the search for a failed result and the conflict
loop; the clones vanish there with the temporary directory. `WritePath` writes one
path, so that an error half-way is seen.

*Sequential run.* The same with one worker at a time, in the workspace itself.
`SequentialAgent.run` never looks at the files, and between two subtasks they need not
stay as they are: a process that a command of the first left behind may write them.
So the workspace is no part of this module; what tools and processes do to it side by
side is in `AgentWorkspace`.

*Single agent.* `messages` is the transcript after the two initial messages, with
the texts left out. A made-up call id is the pair of step and position; it is
assumed that no provider's id looks like one (`call-2-0`).

*Command runner.* A command is numbered; its number is its process group, which
`start_new_session=True` makes. `phase` is where `run` stands: "waiting" is the
first `communicate`, "draining" the second, which has no time-out. `output` holds
the processes that have the pipes open: `communicate` returns when that set is
empty and the leader has ended (`CommandOver`). `TimeOut` is `TimeoutExpired` with
`_terminate_process_group`: all of `Killed`, the command's group, are gone. A
process may `Fork` (its child inherits group and output), `LeaveGroup` (setsid),
`CloseOutput` or `Exit`, in any phase and also when no command runs. Of what was
written only the length that `_truncate` leaves is modelled.

*Agent's workspace.* The agent dispatches one call at a time (`Dispatching`), as
`SingleAgent` does. A call that is refused is answered "error" in one step. A
write is two steps: `BeginWrite` and `BeginReplace` go up to the temporary file of
`_write_atomic`, `ReplaceTarget` is `os.replace`, `WriteFails` an `OSError` before
it; `ProcessWrites`, which may also delete a file, may come between. `AgentEnds`,
`Restore`, `BeginVerification` and `Judge` are the end of `TaskRunner.run`,
`RestoreRaises` and `VerificationRaises` its exceptions. The restore goes through the
protected files one at a time: `RemovePath` is `_remove_path` on one of them (also on
those that were not there before the agent), `OpenTarget` and `WriteTarget` are the
truncation and the write of `write_bytes`, `RestoreReturns` its end; `restored` says
how far it has got with each. Processes act between any two of these steps, and what
they put into a file between the last two stays behind the text that is written
(`Overwritten`). The order of the files within a loop is left open. `RestoreRaises`
may stop it anywhere, also with a part of a text written; the making of directories
and the modes can only contribute such an error. A text is a sequence of pieces; `LF` and
`CRLF` are two of them. `read_text` translates the second into the first and
`write_text` leaves both alone, so that `replace_text` turns every line ending of a
file into LF.

*Experiments.* One process at a time works on one disk. `pc` follows
`TaskRunner.run`; `RunRaises` goes through the `finally` of `provision`; `Kill` may
strike before every step and leaves a copy or a removal half done. A record is
torn until the end of its line is out. A workspace carries the number of the
invocation that made it, so that a stale one is told from a fresh one.
`ProvisionRefused` is any refusal of `create` before its copy, whether or not the
destination is free. The restore is one step here, because nobody else is modelled in
this workspace.

*Stream.* The provider sends lines: `DataLine` (an event may take several),
`BlankLine`, which ends an event, and `SkippedLine` for comments and other fields;
`sent` and `partial` are history, the whole events sent and the one under way. The
end is `ConnectionCloses`, then `LastEvent` for data without a blank line behind
it, then `ReturnAtEnd`; or `[DONE]`, an error event, `HttpError`, or
`TransportRaises`. `Take` handles an event as the loop of `complete` does: usage,
the choice, the tool calls' deltas by index (`ApplyDelta`), and a stamp for each
event with output, from which the time to first token and the intervals are made.

*Telemetry.* `Recording` makes the record of a run from the streamed call and the
calls around it, for any task and strategy, `RunAborts` is a run without one.
`Analysing` is `analyze` on a log that also holds other lines, some of them blank or
torn. Values are integers, averages and ratios fractions, and `None` is a value that
was not reported.

## 3. Runs

| Run | Bounds | Shows |
|---|---|---|
| `planner` | all raw plans of up to two entries over three names; all graphs over three names; all without self-loops over four; one plan beyond the schema | the layering is exact and ends |
| `merge` | three owners, three paths of which one may be a directory over another, two contents, every baseline and every outcome | merges are exact; verdicts do not depend on order; a merge that raises, over a clash of kinds or any other error, is a prefix of the whole one |
| `parallel` | nine shapes of plan over three names (two of them invalid), pool of two, two steps a worker; a directory, a file in it and a file beside it, two contents | no lost work, visibility, failures, merges that raise, what alone keeps it from ending, both refinements |
| `sequential` | seven plans over three names (one of them cyclic), three steps a worker | order, stop, refinement |
| `single` | three steps, two calls a message, one provider id or none, two texts or none | transcript and trace |
| `tools` | three processes, a command of the agent and the verification; a file of the agent's, a protected one, one that may be added below the protected paths, and a path outside; texts with overlapping occurrences, CRLF, an unended last line, the empty text; pages of two lines, texts of up to five pieces | commands, edits, pages, the restore step by step beside processes, the state of the tests at verification |
| `experiments` | two tasks, two strategies, one repetition, and manual runs, workspaces retained or not; three invocations | log, workspaces, verdicts under crashes |
| `telemetry` | streams of up to three events, deltas of two tool calls, usage with and without cost; runs with calls before and after the streamed one; logs of up to four records over two tasks and two strategies, with and without the baseline, blank and torn lines | assembly, rates, the agreement of summaries and comparison |

Why the bounds suffice. A pool of two with three subtasks has a queued worker
beside a running and a finished one. Three owners are enough for an agreement with
one and a conflict with another; two contents and absence give every comparison.
Four names give a cycle behind an acyclic part and a join over different layers.
Three steps have a first, a middle and a forced last one. Three processes are a
leader, a child that is killed with it and one that escapes, and leave one that
is still there when the verification begins. A text `aaa` with the search `aa` has
more occurrences than disjoint ones; five pieces on pages of two lines have a full
page and a last one. Three invocations have one that is killed, one that meets its
remains, and one after that. Three events have two that belong to one tool call
with one of another between them. The bounds are constants of the modules, except
that `MaxCommands`, `MaxInvocations` and `MaxEvents` bound behaviours that are
unbounded in the code.

`CHECK_DEADLOCK` is on in every run: the ends of a behaviour are explicit actions
(`Terminated`, `NothingLeft`), so a state from which nothing else leads on would be
reported.

Four more runs end in a violation, each of a sentence of the repository that the
code does not keep:

- `merge_all_or_nothing`: a merge can raise with a part of the changes written
  (`agent/merge.py:142`).
- `calls_reported`: the planner's call is not counted when its plan is rejected
  (README of the repository, lines 170-178).
- `workspaces_removed`: a copy that fails half-way stays (README, lines 156-158).
- `one_object_per_line`: after a torn line the next record of `run` continues it
  (`telemetry/records.py:231`).

### Fairness

Fairness is assumed of the harness's own steps only. A model request may last for
ever (httpx limits each read of the answer, not the answer), and so may a command: the
second `communicate` of `run` has no limit. The liveness properties therefore say what
alone can keep a run from ending.

- `TaskPlanner`: weak fairness of everything after the request. One thread, no
  waiting. `PlanningTerminates`: once the model has answered, `plan()` ends.
- `ParallelAgent`: weak fairness of the main thread where it waits for nobody
  (`OwnStep`), and of `StartWorker`, which stays enabled for the first queued subtask
  while a thread is free: the operating system schedules runnable threads. Nothing is
  assumed of the planner's request and of a worker's model requests and tool calls.
  `RunTerminates`: the run ends, or the planner's request never returns, or some one
  worker's call never does (`NeverReturns`: it runs for ever and makes no step).
- `ExperimentRuns`: weak fairness of what the harness does between an agent and a
  verification (`OwnStep`). Nothing is assumed of `AgentReturns`, `Verify`, `Kill` or
  of further invocations. `InvocationEnds`: an invocation ends, or it stays in an agent
  or in a verification for ever.
- `AgentWorkspace`: weak fairness of `Harness`, the steps the harness takes by
  itself: a time-out expires, `communicate` returns when there is nothing left to
  read. Nothing is assumed of the processes, which need never exit.
  `CommandReturns`: a call of `run` returns, unless a descendant that escaped into a
  session of its own holds the output for ever. This is what the tool call of
  `RunTerminates` and the verification of `InvocationEnds` can wait for.

`RecordsAreVerifiedByOwnTests` is about commands that leave nobody behind;
`VerificationStartsFromOwnTests` says exactly which processes can break it: what a step
of the restore leaves in a protected file changes before the verification only while
one is alive that had closed its output and was in no expired group.

### Seen in the code, claimed by nobody

- `replace_text` turns CRLF into LF in the whole file, also where nothing was
  replaced (`tools/repository.py:292`).
- Between the reading of a file and `os.replace` a process left behind may write
  it; its update is lost. The hazard is listed without a property.
- With `max_output_chars` smaller than the marker, truncated output is the marker
  alone and longer than the limit (`TruncationKeepsLimit` has the exact statement).
- A task whose test time-out is above the runner's maximum is refused only after
  the agent has run (`tools/command.py:241`), and test output that is no UTF-8 ends the
  experiment without the run's record (`tools/command.py:113`). Nothing promises the
  record: both are listed as hazards without a property.
- A delta with `"index": null` raises a `TypeError` that is no `OpenRouterError`
  (`TransportRaises` covers it).
- A call whose output came in one event adds its tokens to a run's output rate and
  no time (`RateLiesBetweenItsCalls` excludes it).

## 4. Proofs

Each holds for every value of the constants that the named assumptions admit. The
assumptions say what constructors, validators and schemas enforce, and no more.

### The planner (`TaskPlannerProofs`)

`PlansAssumption`, `LimitsAssumption`.

- `TypeCorrect`: `TypeOK` is inductive by itself.
- `LoopIsCorrect`: the invariant `LoopInv /\ VerdictInv`. While the loop runs, and
  when it has been left, `completed` is the union of the groups, `remaining` its
  complement, the groups are disjoint, each prerequisite is in an earlier group,
  and `KnotFree(completed)`: no member of a set of subtasks that waits for itself
  has ever been completed. The last part is what makes the verdict exact. It is
  inductive because a ready subtask has its dependencies in `completed`, while a
  member of a knot has one in the knot. Without it an empty `remaining` would not
  exclude a cycle.
- `GroupsPartition`, `GroupsRespectDependencies`, `CycleVerdict`: the properties
  `GroupsPartitionPlan`, `DependenciesInEarlierGroups`, `CycleVerdictIsExact`,
  each from the invariant. For the converse half of the last one, when nothing is
  ready the remaining subtasks are themselves a knot.
- `LayersAreEarliest`: `EarliestInv` adds that what remains now was not ready
  before the last group was formed, so a subtask waits for the group just before
  its own.

### Layers (`StrategyLemmas`)

`PlansAssumption`. A plan's layers are defined by recursion (`CompletedBy`), and
three facts make them usable for every plan.

- `CompletedByRecurrence`: the recursive function satisfies its equation. The
  library states this with an operator as parameter; here it is proved for this
  function, as the limit of its approximations, from `LeastNat`.
- `LayersAreFew`: a valid plan is completed after as many layers as it has
  subtasks, because a layer that adds nothing leaves a knot (`SomethingIsReady`) and
  every other one adds a member (`LayersGrow`). Thus `LayerOf` chooses a layer that
  exists (`LayerIsPlace`) and `DependencyIsEarlier`.
- `ReadyIsNextLayer`: what is ready once the first `n` layers are completed is the
  layer `n + 1`. This ties the loop of the strategies to the definition by layers.

### Trees and merges (`StrategyLemmas`, `MergeChangeSetsProofs`)

From `PathAssumption`: snapshots, differences, merges and writes keep their types
(`WriteFileType`, `FailedWritesType`: a write takes a tree to a tree, whether it raises
or not);
`WriteFileChangesOneFile`: the directories a write makes take no file's place, so
the snapshot afterwards differs at one path at most; `MergeOfAgrees`: without a
conflict the merge of any number of change sets says of a path what each of its
owners says. `LeastNat` (from the library's well-founded induction) is why
`FirstPath` finds the path the loop takes.

For any number of owners the invariant of `MergeChangeSets` is a conjunction:
`ReadInv` (the change sets read so far do not disagree), `MergedInv` (what was
collected is what they say), `PhaseInv` and `TreeInv` (a path already written holds
its merged content, every other file the baseline's). The last is inductive
because a write changes one file only, and because `Rank` visits a directory before
what is in it; it also allows one path, that of a write that raised, to be left
otherwise (`RaiseKeepsInv`). `WantedIsMerged` says that what was collected for a path is
what its owners want. Results: `MergesAreExact`, `RejectionsAreExact` and
`FailedMergesArePrefixes`.

### The parallel run (`ParallelAgentProofs`)

`AgentAssumption`, `PathAssumption`.

- `ThreadInv` says how the threads fit the main thread: a queued or running worker
  belongs to the current group, the pool is then still open and the clones of the
  whole group exist; a worker that has not started has no calls and a running one
  has some left; a worker that has moved at all is of the current group or merged.
  `TypeOK` is not inductive without it (a worker at its limit must not count on).
  `TypeOK /\ ThreadInv` is inductive because a new group is disjoint from what is
  done. Results: `TypeCorrect`, `WorkersStayInGroup`.
- `MergeInv` adds the workspace: it is the baseline while workers run, and in the
  write loop it is the baseline with the merged change at every path already
  written; there everybody completed and nobody disagrees. Results:
  `MergesAreExact` (`GroupMergedExactly`) and `WritesAreAgreed`
  (`OnlyAgreedWorkIsWritten`).
- `PlanInv` adds the plan: it is valid while it is executed, and the group is what
  is ready and not empty (`SomethingIsReady`: otherwise what is left is a knot).
  With it every step is one of `PlanExecution` or a stutter:
  `RunImplementsPlanExecution`.
- `WorkersImplementContract`: from `ThreadInv`, every step takes each worker along
  a step of `WorkerContract`.
- `StatusIsOfEarliest`: `FailureInv` says that a subtask that failed is one of the
  current group, which is never merged, and that nothing has failed while there is
  no plan; `FirstInPlanIsMember` finds the one that is reported, again with
  `LeastNat`.
- `LayerInv` says that what is done is always the union of the first layers and the
  group the next one; so whoever has moved is of a layer no later than that of the
  group, and only a member of the group can have failed. Result: `FailureStopsPlan`
  (`FailureStopsLaterLayers`).
- `WorkInv` follows the work: of each subtask that is done, every change is in the
  workspace unless a subtask of a later layer that is done too changed the path
  (`Shows`). It is inductive because a merge changes only paths that the group owns,
  and all of the group are in a later layer than what was done (`MergeShowsWork`).
  Results: `PrerequisitesAreSeen` (`WorkersSeePrerequisites`) and `NoWorkIsLost`
  (`CompletedRunKeepsAllWork`).

### The sequential run (`SequentialAgentProofs`)

`AgentAssumption`.

- `ExecutionOrder` is stated by ranks: a subtask's place is the number of those
  that run before it, in an earlier layer or at an earlier place of the plan. This
  relation is a strict order (`RunsBeforeIsOrder`), so ranks are different and fill
  the places (a counting argument with the library's injections between finite
  sets): `OrderIsSorted`, and with `DependencyIsEarlier`, `OrderIsTopological`.
- `LoopIsCorrect` is the invariant. `QueueInv`: what has been completed and what is
  to do are the two halves of the execution order. `WorkerInv`: the states of the
  workers along it, completed before the cut, the run's status at it, idle behind.
  Neither is inductive alone: where the worker at the head of the queue stands is
  known from the first, that nobody else moves from the second.
- Results: `EarlierChangesAreObserved` (`WorkersObserveEarlierChanges`),
  `FirstFailureIsLast` (`StopsAtFirstFailure`), the refinement
  `RunImplementsPlanExecution` (the subtask begun is ready, because its dependencies
  are before it in the order) and `WorkersImplementContract`.

### The single agent (`AgentRunProofs`)

`SingleAgentAssumption`. `CountInv` ties steps to model calls. `TranscriptInv`
(`AnsweredOrPending`, `Owned`) says that every message with tool calls is followed
by their responses in order, except the last one, whose calls not yet answered are
exactly the pending ones. `IdInv` says that a made-up id recorded so far names the
step it was made in, that a request is for a new step, and that the calls still
pending stand at later positions than those recorded in the same step. Results:
`TranscriptIsAnswered`, `MadeUpIdsAreUnique`, and `AgentImplementsContract`, the
refinement on which the two strategies rest. `TraceInv` says at every moment that
the final answer is the latest text and that no step before the last is forced, and
at the end that the loop and the trace agree on the number of calls: `ResultsAgree`
(`TraceIsConsistent`).

### Commands and the workspace (`AgentWorkspaceProofs`)

`CommandAssumption`, `ToolsAssumption`, `WorkspaceAssumption`. A text is a sequence
over `Piece`, of which only the two line endings are known.

- `RunnerInv`: who holds output is alive (`HoldersRun`), groups are numbers of
  commands that were started (`NumbersAreUsed`), nobody alive is in the group of an
  expired command (`ExpiredAreGone`), an idle runner's last command is over
  (`IdleIsOver`). `ExpiredAreGone` is inductive because a process gets into a group
  only by being started or by being forked in it: it never re-enters one. Result:
  `ReturnedIsOver`. `TruncationKeepsLimit` is arithmetic.
- `WorkspaceImplementsRunner`: every step of `AgentWorkspace` is one of
  `CommandRunner` or leaves its variables alone, so that its theorem carries over
  (`ReturnedIsOverInWorkspace`).
- `OwnTestsAreVerified` needs `StageInv` (once the agent has ended no write is under
  way, and until the verification starts no command is) and `RestoreInv` (the restore
  begins when the agent has ended, writes only what the snapshot has, and is through
  with every file when the verification is next: `RestoreIsKept`). No step of the
  restore tampers with a file (`RestoreIsFaithful`: what it writes into a file that is
  still as it was opened is the whole text); nobody but a process can, and one that is
  there then holds no output and is in no expired group (`StepIsUndisturbed`).
- `str.count` and `str.replace` are recursive functions. `RecursionHasSolution` says
  once that an equation in which a value depends only on values of lower rank has a
  solution (were there none up to some rank, take the least); from it follow the
  equations of `StartsFrom`, `ReplaceFrom` and the library's `FlattenSeq`.
  `StartsAreOccurrences`: the listed occurrences do not overlap, every other
  occurrence overlaps one of them, and no choice of disjoint ones has more; position
  by position from the right. `ReplaceIsSubstitution`: replacing from the left what is
  listed is substituting it all at once; what has been substituted up to a position,
  followed by what is replaced from there on, stays the same text. Together with
  `TextsInv` (files and snapshot hold texts, an edit under way keeps what was read and
  asked for): `EditsAreExact`.
- `LinesAreOrdered`, `EveryLineIsThere`: line numbers never go back and skip none, so
  a text can be cut after any line (`LinesEndSomewhere`). A page lies between two cuts
  (`PageIsBetweenCuts`), pages lie next to each other (`CutsTile`), and the last ends
  with the text (`PagesCoverTheLines`): `PagesShowTheFile`.

### Model calls and records (`AgentRunProofs`)

`StreamAssumption`, `MetricsAssumption`: what `_parse_usage` and the checks of the
deltas leave of any JSON, and times that a monotonic clock gives. The steps of
`RunTelemetry` move the stream, leave it alone, or forget it (`StepOfStream`); the
invariants below hold through all of them.

- `FramesInv`: while the client reads, the lines it keeps are those sent of one
  event, all of them or the first half, and the events it has parsed are those sent.
  It needs that a half does not parse and that the line after a half completes it
  (`BegunEvent`, `NextLine`). Result: `FramingIsLossless` (`EventsSurviveFraming`).
- `MessageInv` says that, as long as nothing failed, the buffers of the tool calls
  are the calls that the deltas so far describe (`CallsDescribed`), that content and
  reasoning are joined from the events, and the usage is the last. `FlattenSeq` and
  `FoldLeft` are recursive: `Flattening` and `FoldHasValues` give their equations,
  again from `RecursionHasSolution`. The step is one delta: `ApplyingOneMore`, because a
  delta changes the call of its own index only (`CallOfMore`) and an index new so far
  has nothing described (`CallOfNoDelta`); then all deltas of an event
  (`ApplyingIsDescribing`), then an event. Result: `MessagesAreAssembled`
  (`CallsAreAssembled`).
- `TimesInv`: stamps do not run back and are not later than the clock, so that the
  result of a call is one of `ModelCalls`; `CallInv`: the record is made of the run's
  calls. A total is a sum (`TotalIsSum`), and if numerators vanish wherever
  denominators do, the quotient of two sums is between two of the quotients
  (`QuotientOfSums`, by `Mediant` one part after the other). Result: `RatesAreMeans`
  (`RateLiesBetweenItsCalls`).
- `LoadedInv`: what the analysis has loaded are records (`IsRunRecord`: the tasks
  and strategies are known ones, the wall time is a number, a cost may be missing)
  and the baseline is among them, whatever task and strategy the run was of. The
  analysis sums over groups of records, and `AmongIsRestriction` is the one fact
  about groups: what is summed over the members of a set is what is summed over all,
  if the others count nothing. It goes up the records one by one, as do the facts
  about sums (`TotalsAddUp`, `TotalOfOneMore`). With it every column of a summary is
  what its records add (`SummaryColumns`, `ColumnIsWeight`), and each record is
  counted under exactly one task (`TasksAddUp`); so the summaries by task add up to
  those by strategy (`ColumnsAddUp`). The comparison is arithmetic of fractions
  (`RatioOf`, `SpeedupIsChange`). Result: `SummariesAgree` (`AnalysisAgrees`).

### Experiments (`ExperimentRunsProofs`)

`TypeInv` first. `StaleWorkspaceNeverReused` is inductive together with it
(`RunsHaveTheirOwnCopy`). `VerdictInv` follows the task's own tests from the fresh
copy into the snapshot, from there back into the workspace, and into the verdict;
what the agent does to them comes in between (`OwnTestsJudge`). `TurnInv` says what
an invocation has before it: a manual run is alone in the queue (`ManualTurn`), an
experiment's queue is the rest of its schedule and the log holds whole records of
exactly what came before (`ExperimentTurn`), which is so at the beginning because
`prepare_output_file` hands it an empty log. Results: `LogKeepsToSchedule`,
`FinishedIsRecorded`.

The type invariants of `TaskPlanner`, `ParallelAgent`, `CommandRunner`,
`ExperimentRuns`, `SingleAgent` and `MergeChangeSets` are proved and therefore in
no run.

### Every step leaves fewer

The runs check on small instances that plans, runs and invocations end. That every
fair behaviour ends is beyond the prover; what the code's own control contributes to
it is not. For each machine `StepsAhead` counts the steps it may still take, from the
state alone, and a theorem says that there are never more than a number known from
the constants, and that every step which changes anything leaves fewer. Such a
behaviour cannot go on for ever, however the threads interleave and whatever fails.

| Theorem | `StepsAhead` counts | at most |
| --- | --- | --- |
| `TaskPlannerProofs!PlanningIsBounded` | the phases of `plan()`, the subtasks that remain | entries of the plan + 3 |
| `MergeChangeSetsProofs!MergeIsBounded` | change sets not read, paths not written | owners + paths + 2 |
| `ParallelAgentProofs!RunIsBounded` | phases, transitions of the workers, model calls, groups to merge, paths to write | 2 + subtasks * (5 + model calls + paths) |
| `SequentialAgentProofs!RunIsBounded` | subtasks to do, with their model calls | 2 + subtasks * (model calls + 1) |
| `AgentRunProofs!AgentIsBounded` | model calls, tool calls pending | model calls * (tool calls + 1) |
| `ExperimentRunsProofs!InvocationsAreBounded` | runs of the schedule, with the stage of the current one | 8 * runs + 1 |

- They rest on the inductive invariants above: a layer takes a subtask away because
  what is ready is not empty, a worker cannot go back to `queued` because its group is
  merged before the next one, a run's queue is the rest of its schedule. The parallel
  measure is a sum of sizes of sets; `NothingComesBack` says that none of them grows
  and `SomethingIsDone` that one loses a member (`FewerLeft`).
- `PoolNeverStalls` is the other half of the main thread's wait: while the group has
  not ended, somebody runs, or the first queued worker finds a free place. It needs
  that the whole group was submitted (`SubmittedInv`).
- In `ExperimentRuns` the edits of an agent are excepted (`AgentEdits`): how many there
  are is the agent's matter, and `AgentIsBounded` bounds it there. The number of tool
  calls in a message is a constant of the model (`MaxCalls`) that the code does not
  limit; the theorem holds for each value of it. `CommandRunner` has no such bound: the
  processes of a command may fork as they please.

### Only model-checked

- Liveness (`PlanningTerminates`, `RunTerminates`, `InvocationEnds`,
  `CommandReturns`) is out of the prover's reach: that the steps counted above are
  taken rests on fairness. Every invariant and every action property of the runs, and
  each refinement, is a theorem.

## 5. Not modelled

- Symbolic links, file modes, directories as targets of the tools, files that are
  no UTF-8 text. Trees hold regular files and directories.
- Two invocations that share a workspace root. With generated run ids they meet only
  in the task directory (`workspace.py:250`, listed as a hazard).
- The results of `list_files` and `search_repo` (what they refuse is modelled), and
  the serialisation of responses.
- The prompts (`agent/worker.py`, the planner's and the agents') and the parsing of
  the planner's JSON: the answer is any raw plan.
- The request's payload and headers, and the rounding of floating-point numbers.
- Argument parsing, printing, the dry run, the command `tasks`, the CSV files and
  the plots: input and output without a decision the rest depends on.
- The Harbor adapter: it keeps no state and runs the agent, the tools and the client
  that are modelled.

## 6. Plan

The order followed what the benchmark's validity rests on: planner and merge, the
strategies, the runs; then what they were built on, commands, tools and the stream;
then what is made of the results. What is left, in order of use:

1. `ExperimentRuns` with two processes on one workspace root: `create` and `remove`
   interleaved in the task directory.
2. Symbolic links in `FileTree`: clones that resolve them, snapshots that skip them.
3. The results of `list_files` and `search_repo` with their limits.
4. The Harbor adapter's reading of the harness's summary.
