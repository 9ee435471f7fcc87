--------------------------- MODULE ExperimentRuns ---------------------------
(***************************************************************************)
(* Invocations of the command line and what they leave on disk: the        *)
(* workspaces (workspace.py), the run log (telemetry/records.py) and the   *)
(* runs between them (runner.py, benchmark.py, suite.py, safety.py).       *)
(*                                                                         *)
(* "benchmark" and "benchmark-suite" run a whole schedule under a fixed    *)
(* experiment id, "run" one manual run.  The process may be killed at any  *)
(* step; memory is lost, the disk stays.  A workspace is abstracted to     *)
(* what a later run could trip over, the files under protected_paths to    *)
(* whether they are the task's own.                                        *)
(***************************************************************************)
EXTENDS Naturals, Sequences

CONSTANTS
    Tasks,          \* the suite's tasks, in order
    Strategies,     \* config.strategies, in order
    Repetitions,
    ManualRuns,     \* run ids given to the command "run"
    MaxInvocations  \* bound: invocations in a behaviour

ASSUME RunsAssumption ==
    /\ Tasks \in Seq(STRING) /\ Tasks # << >>
    /\ Strategies \in Seq(STRING) /\ Strategies # << >>
    /\ Repetitions \in Nat \ {0}
    /\ MaxInvocations \in Nat

VARIABLES
    pc,         \* "idle": no process; else the step the process is at
    queue,      \* runs left to this invocation, the current one included
    overwrite,  \* --overwrite-output of this invocation
    retain,     \* --retain-workspace of this invocation
    failing,    \* an exception is on its way out through the finally clause
    tests,      \* the protected files of the current workspace
    snapshot,   \* VerifierSnapshot
    agent,      \* status of the agent's result
    verdict,    \* the verification: the tests it ran, and whether they passed
    workspaces, \* workspace directories on disk, with the invocation they are of
    log,        \* the run log: whole records, and torn ones without a newline
    invocations,
    ended       \* how the last invocation ended

vars == <<pc, queue, overwrite, retain, failing, tests, snapshot, agent,
          verdict, workspaces, log, invocations, ended>>

(***************************************************************************)
(* The loops of BenchmarkSuiteRunner.run and BenchmarkRunner.run: tasks,   *)
(* then strategies, then repetitions; the run id holds all three.          *)
(***************************************************************************)
Schedule ==
    LET nS == Len(Strategies)
    IN  [i \in 1..Len(Tasks) * nS * Repetitions |->
            << Tasks[(i - 1) \div (nS * Repetitions) + 1],
               Strategies[(((i - 1) \div Repetitions) % nS) + 1],
               ((i - 1) % Repetitions) + 1 >>]

RunId == {Schedule[i] : i \in DOMAIN Schedule} \cup ManualRuns

Statuses == {"completed", "failed", "max_steps"}

Absent == [state |-> "absent", by |-> 0]

Record == [run : RunId, whole : BOOLEAN, tests : {"own", "changed"},
           passed : BOOLEAN]

TypeOK ==
    /\ pc \in {"idle", "preparing", "provisioning", "capturing", "working",
               "restoring", "verifying", "removing", "recording", "writing"}
    /\ queue \in Seq(RunId)
    /\ pc = "idle" <=> queue = << >>
    /\ overwrite \in BOOLEAN
    /\ retain \in BOOLEAN
    /\ failing \in BOOLEAN
    /\ tests \in {"own", "changed"}
    /\ snapshot \in {"own", "changed"}
    /\ agent \in Statuses
    /\ verdict \in [tests : {"own", "changed"}, succeeded : BOOLEAN]
    /\ workspaces \in [RunId -> [state : {"absent", "partial", "whole"},
                                 by : 0..MaxInvocations]]
    /\ log \in Seq(Record)
    /\ invocations \in 0..MaxInvocations
    /\ ended \in {"none", "refused", "aborted", "killed", "finished"}

(***************************************************************************)
(* The locals of a run before anything is assigned to them.                *)
(***************************************************************************)
NoVerdict == [tests |-> "own", succeeded |-> FALSE]

Init ==
    /\ pc = "idle"
    /\ queue = << >>
    /\ overwrite = FALSE
    /\ retain = FALSE
    /\ failing = FALSE
    /\ tests = "own"
    /\ snapshot = "own"
    /\ agent = "completed"
    /\ verdict = NoVerdict
    /\ workspaces = [r \in RunId |-> Absent]
    /\ log = << >>
    /\ invocations = 0
    /\ ended = "none"

Options == <<overwrite, retain>>

RunVars == <<failing, tests, snapshot, agent, verdict>>

ForgetRun ==
    /\ failing' = FALSE
    /\ tests' = "own"
    /\ snapshot' = "own"
    /\ agent' = "completed"
    /\ verdict' = NoVerdict

(***************************************************************************)
(* The process ends, and its memory with it: main() turns some exceptions  *)
(* into an exit code, but no invocation goes on after one.                 *)
(***************************************************************************)
EndAs(how) ==
    /\ pc' = "idle"
    /\ ended' = how
    /\ queue' = << >>
    /\ ForgetRun
    /\ UNCHANGED <<Options, invocations>>

-----------------------------------------------------------------------------
(***************************************************************************)
(* The commands, up to their first run.  Bad arguments, a missing key or   *)
(* validate_run_budget stop an invocation before it touches the disk; only *)
(* the experiments call prepare_output_file.                               *)
(***************************************************************************)
Begin(at, runs) ==
    /\ pc = "idle"
    /\ invocations < MaxInvocations
    /\ invocations' = invocations + 1
    /\ pc' = at
    /\ queue' = runs
    /\ retain' \in BOOLEAN
    /\ ended' = "none"
    /\ UNCHANGED <<RunVars, workspaces, log>>

InvokeExperiment ==
    /\ overwrite' \in BOOLEAN
    /\ Begin("preparing", Schedule)

InvokeRun ==
    /\ UNCHANGED overwrite
    /\ \E r \in ManualRuns : Begin("provisioning", <<r>>)

RefuseRun ==
    /\ pc = "idle"
    /\ ManualRuns # {}
    /\ invocations < MaxInvocations
    /\ invocations' = invocations + 1
    /\ ended' = "refused"
    /\ UNCHANGED <<pc, queue, Options, RunVars, workspaces, log>>

RefuseExperiment ==
    /\ pc = "preparing"
    /\ EndAs("refused")
    /\ UNCHANGED <<workspaces, log>>

(***************************************************************************)
(* Mutated form: an output file with data in it is appended to.            *)
(***************************************************************************)
AcceptAnyOutput == TRUE

OutputUsable == log = << >> \/ overwrite

PrepareOutput ==
    /\ pc = "preparing"
    /\ OutputUsable
    /\ log' = IF overwrite THEN << >> ELSE log
    /\ pc' = "provisioning"
    /\ UNCHANGED <<queue, Options, RunVars, workspaces, invocations, ended>>

OutputRefused ==
    /\ pc = "preparing"
    /\ ~OutputUsable
    /\ EndAs("refused")
    /\ UNCHANGED <<workspaces, log>>

-----------------------------------------------------------------------------
Current == Head(queue)

Put(state) ==
    workspaces' =
        [workspaces EXCEPT ![Current] = [state |-> state, by |-> invocations]]

DestinationFree == workspaces[Current].state = "absent"

ProvisionFrame ==
    /\ tests' = "own"
    /\ pc' = "capturing"
    /\ UNCHANGED <<queue, Options, failing, snapshot, agent, verdict, log,
                   invocations, ended>>

(***************************************************************************)
(* WorkspaceManager.create copies the source into a directory that must    *)
(* not exist.  Mutated form: an existing directory is taken over.          *)
(***************************************************************************)
ProvisionAnywhere ==
    /\ pc = "provisioning"
    /\ IF DestinationFree THEN Put("whole") ELSE UNCHANGED workspaces
    /\ ProvisionFrame

Provision ==
    /\ pc = "provisioning"
    /\ DestinationFree
    /\ Put("whole")
    /\ ProvisionFrame

(***************************************************************************)
(* Mutated form: the run is tried again.                                   *)
(***************************************************************************)
ProvisionRetried ==
    /\ pc = "provisioning"
    /\ ~DestinationFree
    /\ UNCHANGED vars

(***************************************************************************)
(* What create() refuses before it copies: an existing destination, but    *)
(* also a source that is missing or overlaps the root, or a run id that is *)
(* no single path component.                                               *)
(***************************************************************************)
ProvisionRefused ==
    /\ pc = "provisioning"
    /\ EndAs("aborted")
    /\ UNCHANGED <<workspaces, log>>

(***************************************************************************)
(* The copy stops half-way with an OSError.  provision() calls create()    *)
(* before its try statement, so nothing removes what was copied.           *)
(***************************************************************************)
ProvisionFails ==
    /\ pc = "provisioning"
    /\ DestinationFree
    /\ Put("partial")
    /\ EndAs("aborted")
    /\ UNCHANGED log

-----------------------------------------------------------------------------
(***************************************************************************)
(* TaskRunner.run inside the workspace.                                    *)
(***************************************************************************)
WithinRun == UNCHANGED <<queue, Options, workspaces, log, invocations, ended>>

Capture ==
    /\ pc = "capturing"
    /\ snapshot' = tests
    /\ pc' = "working"
    /\ WithinRun /\ UNCHANGED <<failing, tests, agent, verdict>>

(***************************************************************************)
(* The tools keep off the protected paths, but a command or the merge of a *)
(* clone may change them.  What a process that outlives its command does   *)
(* to the workspace after the agent's end is not modelled.                 *)
(***************************************************************************)
AgentEdits ==
    /\ pc = "working"
    /\ tests' \in {"own", "changed"}
    /\ WithinRun /\ UNCHANGED <<pc, failing, snapshot, agent, verdict>>

AgentReturns ==
    /\ pc = "working"
    /\ agent' \in Statuses
    /\ pc' = "restoring"
    /\ WithinRun /\ UNCHANGED <<failing, tests, snapshot, verdict>>

(***************************************************************************)
(* Mutated form: the protected files are left as the agent left them.      *)
(***************************************************************************)
NothingRestored == tests

Restored == snapshot

Restore ==
    /\ pc = "restoring"
    /\ tests' = Restored
    /\ pc' = "verifying"
    /\ WithinRun /\ UNCHANGED <<failing, snapshot, agent, verdict>>

Verify ==
    /\ pc = "verifying"
    /\ \E ok \in BOOLEAN : verdict' = [tests |-> tests, succeeded |-> ok]
    /\ pc' = "removing"
    /\ WithinRun /\ UNCHANGED <<failing, tests, snapshot, agent>>

(***************************************************************************)
(* Whatever raises inside the with statement goes through its finally.     *)
(***************************************************************************)
RunRaises ==
    /\ pc \in {"capturing", "working", "restoring", "verifying"}
    /\ failing' = TRUE
    /\ pc' = "removing"
    /\ WithinRun /\ UNCHANGED <<tests, snapshot, agent, verdict>>

(***************************************************************************)
(* The finally clause of provision(), and WorkspaceManager.remove.         *)
(***************************************************************************)
Cleaned ==
    IF retain THEN workspaces ELSE [workspaces EXCEPT ![Current] = Absent]

Remove ==
    /\ pc = "removing"
    /\ ~failing
    /\ workspaces' = Cleaned
    /\ pc' = "recording"
    /\ UNCHANGED <<queue, Options, RunVars, log, invocations, ended>>

RemoveAndAbort ==
    /\ pc = "removing"
    /\ failing
    /\ workspaces' = Cleaned
    /\ EndAs("aborted")
    /\ UNCHANGED log

(***************************************************************************)
(* rmtree stops half-way with an OSError.                                  *)
(***************************************************************************)
RemoveFails ==
    /\ pc = "removing"
    /\ ~retain
    /\ Put("partial")
    /\ EndAs("aborted")
    /\ UNCHANGED log

-----------------------------------------------------------------------------
(***************************************************************************)
(* JsonlRunWriter.append: the line goes out in one write or in several.    *)
(***************************************************************************)
Passed == agent = "completed" /\ verdict.succeeded

NewRecord(whole) ==
    [run |-> Current, whole |-> whole, tests |-> verdict.tests,
     passed |-> Passed]

BeginAppend ==
    /\ pc = "recording"
    /\ log' = Append(log, NewRecord(FALSE))
    /\ pc' = "writing"
    /\ UNCHANGED <<queue, Options, RunVars, workspaces, invocations, ended>>

(***************************************************************************)
(* The rest of the line is out; the loops go on with the next run.         *)
(* Mutated form: the last run of the schedule is left out.                 *)
(***************************************************************************)
AllButOneDone == Len(queue) <= 2

LastOfQueue == Len(queue) = 1

FinishAppend ==
    /\ pc = "writing"
    /\ log' = [log EXCEPT ![Len(log)] = NewRecord(TRUE)]
    /\ IF LastOfQueue
       THEN EndAs("finished")
       ELSE /\ queue' = Tail(queue)
            /\ pc' = "provisioning"
            /\ ForgetRun
            /\ UNCHANGED <<Options, invocations, ended>>
    /\ UNCHANGED workspaces

(***************************************************************************)
(* The file cannot be opened, or the disk is full after a part of the line.*)
(***************************************************************************)
AppendFails ==
    /\ pc \in {"recording", "writing"}
    /\ EndAs("aborted")
    /\ UNCHANGED <<workspaces, log>>

(***************************************************************************)
(* The process is killed.  A copy or a removal under way stays half done.  *)
(***************************************************************************)
Kill ==
    /\ pc # "idle"
    /\ EndAs("killed")
    /\ \/ UNCHANGED workspaces
       \/ /\ \/ pc = "provisioning" /\ workspaces[Current].state = "absent"
             \/ pc = "removing" /\ ~retain
          /\ Put("partial")
    /\ UNCHANGED log

Terminated == pc = "idle" /\ invocations = MaxInvocations /\ UNCHANGED vars

OwnStep ==
    \/ RefuseExperiment \/ PrepareOutput \/ OutputRefused
    \/ Provision \/ ProvisionRefused \/ ProvisionFails
    \/ Capture \/ Restore
    \/ Remove \/ RemoveAndAbort \/ RemoveFails
    \/ BeginAppend \/ FinishAppend \/ AppendFails

Program ==
    \/ OwnStep
    \/ AgentEdits \/ AgentReturns \/ Verify \/ RunRaises

Next ==
    \/ InvokeExperiment \/ InvokeRun \/ RefuseRun
    \/ Program
    \/ Kill
    \/ Terminated

Spec == Init /\ [][Next]_vars

(***************************************************************************)
(* The harness goes on whenever it waits for nobody.  Nothing is assumed   *)
(* of the agent and of the verification, each of which may wait for ever   *)
(* (for a model's answer, or in the second communicate of a command), and  *)
(* nobody has to invoke or kill anything.                                  *)
(***************************************************************************)
FairSpec == Spec /\ WF_vars(OwnStep)

-----------------------------------------------------------------------------
(***************************************************************************)
(* A run works in a copy made by its own invocation, never in what a       *)
(* killed or failed one left under the same run id.                        *)
(***************************************************************************)
StaleWorkspaceNeverReused ==
    pc \in {"capturing", "working", "restoring", "verifying"} =>
        workspaces[Current] = [state |-> "whole", by |-> invocations]

(***************************************************************************)
(* "Protect existing benchmark results from accidental mixing"             *)
(* (safety.py:33): whatever was killed and invoked again, a record of an   *)
(* experiment stands at its place in the log, with whole records of the    *)
(* runs before it, each once and in order; manual runs only follow them.   *)
(***************************************************************************)
LogFollowsSchedule ==
    \A i \in DOMAIN log :
        log[i].run \notin ManualRuns =>
            /\ i \in DOMAIN Schedule
            /\ log[i].run = Schedule[i]
            /\ \A j \in 1..(i - 1) : log[j].whole /\ log[j].run = Schedule[j]

(***************************************************************************)
(* A command that finished has recorded what it was to run: its last       *)
(* record is whole, and that of an experiment closes the whole schedule.   *)
(***************************************************************************)
FinishedExperimentIsRecorded ==
    ended = "finished" =>
        LET last == log[Len(log)] IN
        last.whole /\ (last.run \notin ManualRuns => Len(log) = Len(Schedule))

(***************************************************************************)
(* Every recorded run was judged by the task's own tests, whatever the     *)
(* agent did to them.                                                      *)
(***************************************************************************)
RecordsAreVerifiedByOwnTests == \A i \in DOMAIN log : log[i].tests = "own"

(***************************************************************************)
(* What alone can keep an invocation from ending is an agent or a          *)
(* verification that never does: no failure makes it wait or go round.     *)
(***************************************************************************)
InvocationEnds ==
    \/ (pc # "idle") ~> (pc = "idle")
    \/ <>[](pc = "working")
    \/ <>[](pc = "verifying")

(***************************************************************************)
(* "temporary workspaces are removed unless retention is explicitly        *)
(* enabled" (README.md:156-158), for an invocation that was not killed.    *)
(***************************************************************************)
WorkspacesAreRemoved ==
    ended \in {"finished", "aborted"} /\ ~retain =>
        \A r \in RunId : workspaces[r].by # invocations

(***************************************************************************)
(* "Append exactly one JSON object" (telemetry/records.py:231): the line   *)
(* that a finished command appended holds its record and nothing else.     *)
(***************************************************************************)
AppendedLineIsOneObject ==
    ended = "finished" /\ Len(log) > 1 => log[Len(log)-1].whole
=============================================================================
