------------------------ MODULE ExperimentRunsProofs ------------------------
(***************************************************************************)
(* For every suite, set of strategies, number of repetitions and history   *)
(* of killed, refused and repeated invocations: a run works in a copy of   *)
(* its own, is judged by the task's own tests, and an experiment's log     *)
(* follows its schedule.                                                   *)
(***************************************************************************)
EXTENDS ExperimentRuns, SequenceTheorems, TLAPS

Total == Len(Tasks) * Len(Strategies) * Repetitions

-----------------------------------------------------------------------------
(***************************************************************************)
(* The schedule is a sequence of run ids that is not empty.                *)
(***************************************************************************)
LEMMA TotalIsPositive == Total \in Nat \ {0}
<1>1. Len(Tasks) \in Nat \ {0} /\ Len(Strategies) \in Nat \ {0}
  BY RunsAssumption, EmptySeq
<1>2. ASSUME NEW a \in Nat \ {0}, NEW b \in Nat \ {0}
      PROVE  a * b \in Nat \ {0}
  BY <1>2, SMT
<1>3. Len(Tasks) * Len(Strategies) \in Nat \ {0}
  BY <1>1, <1>2
<1> QED
  BY <1>2, <1>3, RunsAssumption DEF Total

(***************************************************************************)
(* One run id for every task, strategy and repetition.                     *)
(***************************************************************************)
LEMMA ScheduleIsASeq ==
    /\ Schedule \in Seq(RunId)
    /\ DOMAIN Schedule = 1..Total
    /\ Len(Schedule) = Total
    /\ Schedule # << >>
<1>1. DOMAIN Schedule = 1..Total
  BY DEF Schedule, Total
<1>2. \A i \in 1..Total : Schedule[i] \in RunId
  BY <1>1 DEF RunId
<1>3. Schedule = [i \in 1..Total |-> Schedule[i]]
  BY DEF Schedule, Total
<1>4. Schedule \in [1..Total -> RunId]
  BY <1>2, <1>3
<1>5. Schedule \in Seq(RunId)
  BY <1>4, TotalIsPositive, SeqDef
<1>6. Len(Schedule) = Total
  BY <1>1, <1>5, TotalIsPositive, LenProperties
<1> QED
  BY <1>1, <1>5, <1>6, TotalIsPositive, EmptySeq

-----------------------------------------------------------------------------
(***************************************************************************)
(* Types, and the record that a run is appending.                          *)
(***************************************************************************)
Appending == pc = "writing" => log # << >> /\ log[Len(log)].run = Current

TypeInv == TypeOK /\ Appending

(***************************************************************************)
(* While a command runs, the queue has a first run and a rest.             *)
(***************************************************************************)
LEMMA CurrentIsARun ==
    ASSUME TypeOK, pc # "idle"
    PROVE  /\ Current \in RunId
           /\ Len(queue) \in Nat \ {0}
           /\ Tail(queue) \in Seq(RunId)
           /\ ~LastOfQueue => Tail(queue) # << >>
           /\ Len(Tail(queue)) = Len(queue) - 1
           /\ Current = queue[1]
           /\ \A i \in 1..(Len(queue) - 1) : Tail(queue)[i] = queue[i + 1]
<1>1. queue \in Seq(RunId) /\ queue # << >>
  BY DEF TypeOK
<1>2. Len(queue) \in Nat \ {0}
  BY <1>1, EmptySeq
<1>3. /\ Head(queue) \in RunId
      /\ Head(queue) = queue[1]
      /\ Tail(queue) \in Seq(RunId)
      /\ Len(Tail(queue)) = Len(queue) - 1
      /\ \A i \in 1..Len(Tail(queue)) : Tail(queue)[i] = queue[i + 1]
  BY <1>1, HeadTailProperties
<1>4. ~LastOfQueue => Tail(queue) # << >>
  BY <1>2, <1>3, EmptySeq DEF LastOfQueue
<1> QED
  BY <1>2, <1>3, <1>4 DEF Current

(***************************************************************************)
(* What is appended is a record, torn or whole.                            *)
(***************************************************************************)
LEMMA RecordsAreRecords ==
    ASSUME TypeOK, pc # "idle", NEW whole \in BOOLEAN
    PROVE  NewRecord(whole) \in Record
<1>1. agent \in Statuses /\ verdict \in [tests : {"own", "changed"}, succeeded : BOOLEAN]
  BY DEF TypeOK
<1> QED
  BY <1>1, CurrentIsARun DEF NewRecord, Record, Passed

(***************************************************************************)
(* A torn record is added at the end; the log before it stays.             *)
(***************************************************************************)
LEMMA BeginAppendLog ==
    ASSUME TypeOK, BeginAppend
    PROVE  /\ log' \in Seq(Record)
           /\ Len(log') = Len(log) + 1
           /\ Len(log) \in Nat
           /\ log' # << >>
           /\ log'[Len(log')] = NewRecord(FALSE)
           /\ \A i \in 1..Len(log) : log'[i] = log[i]
<1>1. NewRecord(FALSE) \in Record
  BY RecordsAreRecords DEF BeginAppend
<1>2. log \in Seq(Record) /\ log' = Append(log, NewRecord(FALSE))
  BY DEF TypeOK, BeginAppend
<1>3. /\ log' \in Seq(Record)
      /\ Len(log') = Len(log) + 1
      /\ \A i \in 1..Len(log) : log'[i] = log[i]
      /\ log'[Len(log) + 1] = NewRecord(FALSE)
  <2> DEFINE torn == NewRecord(FALSE)
  <2>1. torn \in Record /\ log \in Seq(Record) /\ log' = Append(log, torn)
    BY <1>1, <1>2
  <2> HIDE DEF torn
  <2>2. /\ log' \in Seq(Record)
        /\ Len(log') = Len(log) + 1
        /\ \A i \in 1..Len(log) : log'[i] = log[i]
        /\ log'[Len(log) + 1] = torn
    BY <2>1, AppendProperties
  <2> QED
    BY <2>2 DEF torn
<1>4. Len(log) \in Nat
  BY <1>2, LenProperties
<1>5. log' # << >>
  BY <1>3, <1>4, EmptySeq
<1> QED
  BY <1>3, <1>4, <1>5

(***************************************************************************)
(* The last record becomes whole; the others stay.                         *)
(***************************************************************************)
LEMMA FinishAppendLog ==
    ASSUME TypeInv, FinishAppend
    PROVE  /\ log' \in Seq(Record)
           /\ Len(log) \in Nat \ {0}
           /\ Len(log') = Len(log)
           /\ log' # << >>
           /\ log'[Len(log)] = NewRecord(TRUE)
           /\ \A i \in 1..Len(log) : i # Len(log) => log'[i] = log[i]
<1>1. NewRecord(TRUE) \in Record
  BY RecordsAreRecords DEF FinishAppend, TypeInv
<1>2. log \in Seq(Record) /\ log # << >>
  BY DEF TypeInv, TypeOK, Appending, FinishAppend
<1>3. Len(log) \in Nat \ {0} /\ Len(log) \in 1..Len(log)
  BY <1>2, EmptySeq
<1>4. log' = [log EXCEPT ![Len(log)] = NewRecord(TRUE)]
  BY DEF FinishAppend
<1>5. /\ log' \in Seq(Record)
      /\ Len(log') = Len(log)
      /\ \A i \in 1..Len(log) :
             log'[i] = IF i = Len(log) THEN NewRecord(TRUE) ELSE log[i]
  <2> DEFINE i == Len(log)
             e == NewRecord(TRUE)
  <2>1. i \in 1..Len(log) /\ e \in Record
    BY <1>1, <1>3
  <2> HIDE DEF i, e
  <2>2. /\ [log EXCEPT ![i] = e] \in Seq(Record)
        /\ Len([log EXCEPT ![i] = e]) = Len(log)
        /\ \A j \in 1..Len(log) :
               [log EXCEPT ![i] = e][j] = IF j = i THEN e ELSE log[j]
    BY <1>2, <2>1, ExceptSeq
  <2> QED
    BY <1>4, <2>2 DEF i, e
<1>6. log' # << >>
  BY <1>3, <1>5, EmptySeq
<1> QED
  BY <1>3, <1>5, <1>6

(***************************************************************************)
(* An empty disk and an empty log are in the types.                        *)
(***************************************************************************)
LEMMA InitialTypes == Init => TypeInv
<1> USE DEF Init, TypeInv, TypeOK, Appending, NoVerdict, Absent, Statuses
<1>1. ASSUME Init
      PROVE  workspaces \in [RunId -> [state : {"absent", "partial", "whole"},
                                       by : 0..MaxInvocations]]
  BY <1>1, RunsAssumption
<1>2. Init => invocations \in 0..MaxInvocations
  BY RunsAssumption
<1>3. Init => queue \in Seq(RunId) /\ log \in Seq(Record)
  OBVIOUS
<1>4. Init => verdict \in [tests : {"own", "changed"}, succeeded : BOOLEAN]
  OBVIOUS
<1> QED
  BY <1>1, <1>2, <1>3, <1>4

(***************************************************************************)
(* What an invocation does before its first run, and the end of a process. *)
(***************************************************************************)
LEMMA CommandTypes ==
    ASSUME TypeInv,
           \/ InvokeExperiment \/ InvokeRun \/ RefuseRun
           \/ RefuseExperiment \/ PrepareOutput \/ OutputRefused
    PROVE  TypeInv'
<1> USE RunsAssumption
        DEF TypeInv, TypeOK, Appending, RunVars, Options, ForgetRun,
            NoVerdict, EndAs, Statuses
<1>1. CASE InvokeExperiment
  BY <1>1, ScheduleIsASeq DEF InvokeExperiment, Begin
<1>2. CASE InvokeRun
  <2>1. PICK r \in ManualRuns : Begin("provisioning", <<r>>)
    BY <1>2 DEF InvokeRun
  <2>2. r \in RunId
    BY DEF RunId
  <2>3. <<r>> \in Seq(RunId) /\ <<r>> # << >>
    BY <2>2
  <2> QED
    BY <1>2, <2>1, <2>3 DEF InvokeRun, Begin
<1>3. CASE RefuseRun
  <2>1. queue' \in Seq(RunId) /\ log' \in Seq(Record)
    BY <1>3 DEF RefuseRun
  <2> QED
    BY <1>3, <2>1 DEF RefuseRun
<1>4. CASE RefuseExperiment
  <2>1. queue' \in Seq(RunId) /\ log' \in Seq(Record)
    BY <1>4 DEF RefuseExperiment
  <2> QED
    BY <1>4, <2>1 DEF RefuseExperiment
<1>5. CASE PrepareOutput
  <2>1. queue' \in Seq(RunId) /\ log' \in Seq(Record)
    BY <1>5 DEF PrepareOutput
  <2> QED
    BY <1>5, <2>1 DEF PrepareOutput
<1>6. CASE OutputRefused
  <2>1. queue' \in Seq(RunId) /\ log' \in Seq(Record)
    BY <1>6 DEF OutputRefused
  <2> QED
    BY <1>6, <2>1 DEF OutputRefused
<1> QED
  BY <1>1, <1>2, <1>3, <1>4, <1>5, <1>6

(***************************************************************************)
(* A workspace that is put on disk is in the types.                        *)
(***************************************************************************)
LEMMA PutTypes ==
    ASSUME TypeOK, pc # "idle", NEW s \in {"absent", "partial", "whole"}, Put(s)
    PROVE  workspaces' \in [RunId -> [state : {"absent", "partial", "whole"},
                                      by : 0..MaxInvocations]]
BY CurrentIsARun DEF TypeOK, Put

(***************************************************************************)
(* So is the disk without the workspace of the current run.                *)
(***************************************************************************)
LEMMA CleanedTypes ==
    ASSUME TypeOK, pc # "idle"
    PROVE  Cleaned \in [RunId -> [state : {"absent", "partial", "whole"},
                                  by : 0..MaxInvocations]]
<1>1. Absent \in [state : {"absent", "partial", "whole"}, by : 0..MaxInvocations]
  BY RunsAssumption DEF Absent
<1> QED
  BY <1>1, CurrentIsARun DEF TypeOK, Cleaned

(***************************************************************************)
(* The steps that make and remove workspaces keep the types.               *)
(***************************************************************************)
LEMMA WorkspaceTypes ==
    ASSUME TypeInv,
           \/ Provision \/ ProvisionRefused \/ ProvisionFails
           \/ Remove \/ RemoveAndAbort \/ RemoveFails \/ Kill
    PROVE  TypeInv'
<1> USE RunsAssumption
        DEF TypeInv, TypeOK, Appending, RunVars, Options, ForgetRun,
            NoVerdict, EndAs, Statuses
<1>1. CASE Provision
  BY <1>1, PutTypes DEF Provision, ProvisionFrame
<1>2. CASE ProvisionRefused
  <2>1. queue' \in Seq(RunId) /\ log' \in Seq(Record)
    BY <1>2 DEF ProvisionRefused
  <2> QED
    BY <1>2, <2>1 DEF ProvisionRefused
<1>3. CASE ProvisionFails
  <2>1. queue' \in Seq(RunId) /\ log' \in Seq(Record)
    BY <1>3 DEF ProvisionFails
  <2> QED
    BY <1>3, <2>1, PutTypes DEF ProvisionFails
<1>4. CASE Remove
  <2>1. queue' \in Seq(RunId) /\ log' \in Seq(Record)
    BY <1>4 DEF Remove
  <2> QED
    BY <1>4, <2>1, CleanedTypes DEF Remove
<1>5. CASE RemoveAndAbort
  <2>1. queue' \in Seq(RunId) /\ log' \in Seq(Record)
    BY <1>5 DEF RemoveAndAbort
  <2> QED
    BY <1>5, <2>1, CleanedTypes DEF RemoveAndAbort
<1>6. CASE RemoveFails
  <2>1. queue' \in Seq(RunId) /\ log' \in Seq(Record)
    BY <1>6 DEF RemoveFails
  <2> QED
    BY <1>6, <2>1, PutTypes DEF RemoveFails
<1>7. CASE Kill
  <2>1. queue' \in Seq(RunId) /\ log' \in Seq(Record)
    BY <1>7 DEF Kill
  <2> QED
    BY <1>7, <2>1, PutTypes DEF Kill
<1> QED
  BY <1>1, <1>2, <1>3, <1>4, <1>5, <1>6, <1>7

(***************************************************************************)
(* The steps of a run in its workspace keep the types.                     *)
(***************************************************************************)
LEMMA RunTypes ==
    ASSUME TypeInv,
           \/ Capture \/ AgentEdits \/ AgentReturns \/ Restore \/ Verify
           \/ RunRaises
    PROVE  TypeInv'
<1> USE DEF TypeInv, TypeOK, Appending, WithinRun, Options, Statuses
<1>1. CASE Capture
  BY <1>1 DEF Capture
<1>2. CASE AgentEdits
  BY <1>2 DEF AgentEdits
<1>3. CASE AgentReturns
  BY <1>3 DEF AgentReturns
<1>4. CASE Restore
  BY <1>4 DEF Restore, Restored
<1>5. CASE Verify
  BY <1>5 DEF Verify
<1>6. CASE RunRaises
  BY <1>6 DEF RunRaises
<1> QED
  BY <1>1, <1>2, <1>3, <1>4, <1>5, <1>6

(***************************************************************************)
(* The steps of the append keep the types.                                 *)
(***************************************************************************)
LEMMA AppendTypes ==
    ASSUME TypeInv, BeginAppend \/ FinishAppend \/ AppendFails
    PROVE  TypeInv'
<1> USE RunsAssumption
        DEF TypeInv, TypeOK, Appending, RunVars, Options, ForgetRun,
            NoVerdict, EndAs, Statuses
<1>1. CASE BeginAppend
  <2>1. queue' = queue /\ log'[Len(log')].run = Current
    BY <1>1, BeginAppendLog DEF BeginAppend, NewRecord
  <2>2. log' \in Seq(Record) /\ log' # << >>
    BY <1>1, BeginAppendLog
  <2>3. Appending'
    BY <2>1, <2>2 DEF Current
  <2>4. pc = "recording" /\ pc' = "writing"
    BY <1>1 DEF BeginAppend
  <2>5. UNCHANGED <<queue, Options, RunVars, workspaces, invocations, ended>>
    BY <1>1 DEF BeginAppend
  <2>6. TypeOK'
    BY <2>2, <2>4, <2>5
  <2> QED
    BY <2>3, <2>6
<1>2. CASE FinishAppend
  <2>1. log' \in Seq(Record)
    BY <1>2, FinishAppendLog
  <2>2. ForgetRun /\ UNCHANGED <<Options, workspaces, invocations>>
    BY <1>2 DEF FinishAppend
  <2>3. /\ pc' \in {"idle", "provisioning"}
        /\ ended' \in {ended, "finished"}
    BY <1>2 DEF FinishAppend
  <2>4. CASE LastOfQueue
    <3>1. pc' = "idle" /\ queue' = << >>
      BY <1>2, <2>4 DEF FinishAppend
    <3>2. queue' \in Seq(RunId)
      BY <3>1
    <3> QED
      BY <2>1, <2>2, <2>3, <3>1, <3>2
  <2>5. CASE ~LastOfQueue
    <3>1. pc' = "provisioning" /\ queue' = Tail(queue)
      BY <1>2, <2>5 DEF FinishAppend
    <3>2. queue' \in Seq(RunId) /\ queue' # << >>
      BY <1>2, <2>5, <3>1, CurrentIsARun DEF FinishAppend
    <3> QED
      BY <2>1, <2>2, <2>3, <3>1, <3>2
  <2> QED
    BY <2>4, <2>5
<1>3. CASE AppendFails
  <2>1. queue' \in Seq(RunId) /\ log' \in Seq(Record)
    BY <1>3 DEF AppendFails
  <2> QED
    BY <1>3, <2>1 DEF AppendFails
<1> QED
  BY <1>1, <1>2, <1>3

(***************************************************************************)
(* The types, and that a record is being appended only for the current run.*)
(***************************************************************************)
THEOREM TypesAreInvariant == Spec => []TypeInv
<1>1. TypeInv /\ [Next]_vars => TypeInv'
  <2> SUFFICES ASSUME TypeInv, [Next]_vars PROVE TypeInv'
    OBVIOUS
  <2>1. CASE UNCHANGED vars
    BY <2>1 DEF vars, TypeInv, TypeOK, Appending, Current
  <2>2. CASE Terminated
    BY <2>2 DEF Terminated, vars, TypeInv, TypeOK, Appending, Current
  <2> QED
    BY <2>1, <2>2, CommandTypes, WorkspaceTypes, RunTypes, AppendTypes
       DEF Next, Program, OwnStep
<1> QED
  BY <1>1, InitialTypes, PTL DEF Spec

(***************************************************************************)
(* What is on disk, in the log and in the schedule stays in its types.     *)
(***************************************************************************)
THEOREM TypeCorrect == Spec => []TypeOK
BY TypesAreInvariant, PTL DEF TypeInv

-----------------------------------------------------------------------------
(***************************************************************************)
(* The workspace of a run was made by its own invocation, because no step  *)
(* of a run but the first and the last touches it, and the first refuses   *)
(* what it finds.                                                          *)
(***************************************************************************)
LEMMA OwnCopyStep ==
    ASSUME TypeInv, StaleWorkspaceNeverReused, [Next]_vars
    PROVE  StaleWorkspaceNeverReused'
<1> USE DEF StaleWorkspaceNeverReused, Current
<1>1. CASE InvokeExperiment \/ InvokeRun \/ RefuseRun
  BY <1>1 DEF InvokeExperiment, InvokeRun, RefuseRun, Begin
<1>2. CASE RefuseExperiment \/ PrepareOutput \/ OutputRefused
  BY <1>2 DEF RefuseExperiment, PrepareOutput, OutputRefused, EndAs
<1>3. CASE Provision
  <2>1. /\ workspaces' = [workspaces EXCEPT ![Head(queue)] =
                             [state |-> "whole", by |-> invocations]]
        /\ UNCHANGED <<queue, invocations>>
    BY <1>3 DEF Provision, ProvisionFrame, Put
  <2>2. Head(queue) \in RunId /\ DOMAIN workspaces = RunId
    BY <1>3, CurrentIsARun DEF Provision, TypeInv, TypeOK
  <2> QED
    BY <2>1, <2>2
<1>4. CASE ProvisionRefused \/ ProvisionFails
  BY <1>4 DEF ProvisionRefused, ProvisionFails, EndAs
<1>5. CASE Capture \/ AgentEdits \/ AgentReturns \/ Restore
  BY <1>5 DEF Capture, AgentEdits, AgentReturns, Restore, WithinRun
<1>6. CASE Verify \/ RunRaises
  BY <1>6 DEF Verify, RunRaises
<1>7. CASE Remove \/ RemoveAndAbort \/ RemoveFails
  BY <1>7 DEF Remove, RemoveAndAbort, RemoveFails, EndAs
<1>8. CASE BeginAppend \/ FinishAppend \/ AppendFails
  BY <1>8 DEF BeginAppend, FinishAppend, AppendFails, EndAs
<1>9. CASE Kill
  BY <1>9 DEF Kill, EndAs
<1>10. CASE Terminated \/ UNCHANGED vars
  BY <1>10 DEF Terminated, vars
<1> QED
  BY <1>1, <1>2, <1>3, <1>4, <1>5, <1>6, <1>7, <1>8, <1>9, <1>10
     DEF Next, Program, OwnStep

(***************************************************************************)
(* A run works in a copy made by its own invocation, never in what an      *)
(* earlier one left under the same run id.                                 *)
(***************************************************************************)
THEOREM RunsHaveTheirOwnCopy == Spec => []StaleWorkspaceNeverReused
<1>1. Init => StaleWorkspaceNeverReused
  BY DEF Init, StaleWorkspaceNeverReused
<1> QED
  BY <1>1, OwnCopyStep, TypesAreInvariant, PTL DEF Spec

-----------------------------------------------------------------------------
(***************************************************************************)
(* The task's own tests pass from the fresh copy into the snapshot, from   *)
(* there back into the workspace, and into the verdict; whatever the agent *)
(* does to them comes in between.                                          *)
(***************************************************************************)
VerdictInv ==
    /\ pc \in {"capturing", "verifying"} => tests = "own"
    /\ pc \in {"working", "restoring"} => snapshot = "own"
    /\ verdict.tests = "own"
    /\ RecordsAreVerifiedByOwnTests

(***************************************************************************)
(* Every step keeps what is known of the tests.                            *)
(***************************************************************************)
LEMMA VerdictStep ==
    ASSUME TypeInv, VerdictInv, [Next]_vars
    PROVE  VerdictInv'
<1>0. log \in Seq(Record) /\ DOMAIN log = 1..Len(log)
  BY LenProperties DEF TypeInv, TypeOK
<1> USE DEF VerdictInv
<1>1. CASE \/ InvokeExperiment \/ InvokeRun \/ RefuseRun \/ Provision
           \/ Remove
  BY <1>1 DEF InvokeExperiment, InvokeRun, RefuseRun, Begin, RunVars,
              Provision, ProvisionFrame, Remove, RecordsAreVerifiedByOwnTests
<1>2. CASE PrepareOutput
  BY <1>2 DEF PrepareOutput, RunVars, RecordsAreVerifiedByOwnTests
<1>3. CASE Capture \/ AgentEdits \/ AgentReturns
  BY <1>3 DEF Capture, AgentEdits, AgentReturns, WithinRun,
              RecordsAreVerifiedByOwnTests
<1>4. CASE Restore \/ Verify \/ RunRaises
  BY <1>4 DEF Restore, Restored, Verify, RunRaises, WithinRun,
              RecordsAreVerifiedByOwnTests
<1>5. CASE \/ RefuseExperiment \/ OutputRefused \/ ProvisionRefused
           \/ ProvisionFails \/ RemoveAndAbort \/ RemoveFails
           \/ AppendFails \/ Kill
  BY <1>5 DEF RefuseExperiment, OutputRefused, ProvisionRefused,
              ProvisionFails, RemoveAndAbort, RemoveFails, AppendFails, Kill,
              EndAs, ForgetRun, NoVerdict, RecordsAreVerifiedByOwnTests
<1>6. CASE BeginAppend
  <2>1. RecordsAreVerifiedByOwnTests'
    <3>1. DOMAIN log' = 1..(Len(log) + 1)
      BY <1>6, BeginAppendLog, LenProperties DEF TypeInv
    <3>2. log'[Len(log) + 1].tests = "own"
      BY <1>6, BeginAppendLog DEF TypeInv, NewRecord
    <3> QED
      BY <1>0, <1>6, <3>1, <3>2, BeginAppendLog
         DEF TypeInv, RecordsAreVerifiedByOwnTests
  <2> QED
    BY <1>6, <2>1 DEF BeginAppend, RunVars
<1>7. CASE FinishAppend
  <2>1. RecordsAreVerifiedByOwnTests'
    <3>1. DOMAIN log' = 1..Len(log)
      BY <1>7, FinishAppendLog, LenProperties
    <3>2. log'[Len(log)].tests = "own"
      BY <1>7, FinishAppendLog DEF NewRecord
    <3> QED
      BY <1>0, <1>7, <3>1, <3>2, FinishAppendLog
         DEF RecordsAreVerifiedByOwnTests
  <2>2. pc' \in {"idle", "provisioning"} /\ ForgetRun
    BY <1>7 DEF FinishAppend, EndAs
  <2> QED
    BY <2>1, <2>2 DEF ForgetRun, NoVerdict
<1>8. CASE Terminated \/ UNCHANGED vars
  BY <1>8 DEF Terminated, vars, RecordsAreVerifiedByOwnTests
<1> QED
  BY <1>1, <1>2, <1>3, <1>4, <1>5, <1>6, <1>7, <1>8 DEF Next, Program, OwnStep

(***************************************************************************)
(* Every recorded run was judged by the task's own tests.                  *)
(***************************************************************************)
THEOREM OwnTestsJudge == Spec => []RecordsAreVerifiedByOwnTests
<1>1. Init => VerdictInv
  BY DEF Init, VerdictInv, NoVerdict, RecordsAreVerifiedByOwnTests
<1>2. VerdictInv => RecordsAreVerifiedByOwnTests
  BY DEF VerdictInv
<1> QED
  BY <1>1, <1>2, VerdictStep, TypesAreInvariant, PTL DEF Spec

-----------------------------------------------------------------------------
(***************************************************************************)
(* The log.  While an experiment runs, its queue is the rest of the        *)
(* schedule and the log holds whole records of what came before, which are *)
(* Done many; a manual run has a queue of one.                             *)
(***************************************************************************)
Done == Total - Len(queue)

ManualTurn == LastOfQueue /\ Current \in ManualRuns

ExperimentTurn ==
    /\ Len(queue) <= Total
    /\ \A i \in 1..Len(queue) : queue[i] = Schedule[Done + i]
    /\ Len(log) = IF pc = "writing" THEN Done + 1 ELSE Done
    /\ \A j \in 1..Done : log[j].whole /\ log[j].run = Schedule[j]

TurnInv ==
    /\ pc = "preparing" => queue = Schedule
    /\ pc \notin {"idle", "preparing"} => ManualTurn \/ ExperimentTurn
    /\ pc # "idle" => ended = "none"

LogInv == TurnInv /\ LogFollowsSchedule /\ FinishedExperimentIsRecorded

(***************************************************************************)
(* The indices of the log.                                                 *)
(***************************************************************************)
LEMMA LogIndices ==
    ASSUME TypeOK
    PROVE  Len(log) \in Nat /\ DOMAIN log = 1..Len(log)
BY LenProperties DEF TypeOK

(***************************************************************************)
(* The steps that leave the log alone.                                     *)
(***************************************************************************)
LEMMA LogStays ==
    ASSUME TypeInv, LogInv, log' = log,
           ended' # "finished" \/ ended' = ended
    PROVE  LogFollowsSchedule' /\ FinishedExperimentIsRecorded'
BY DEF LogInv, LogFollowsSchedule, FinishedExperimentIsRecorded, Schedule

(***************************************************************************)
(* A command that is given leaves the log alone and starts with its own    *)
(* queue.                                                                  *)
(***************************************************************************)
LEMMA CommandStepsKeepLogInv ==
    ASSUME TypeInv, LogInv, InvokeExperiment \/ InvokeRun \/ RefuseRun
    PROVE  LogInv'
<1>1. log' = log /\ ended' # "finished"
  BY DEF InvokeExperiment, InvokeRun, RefuseRun, Begin
<1>2. TurnInv'
  <2>1. CASE InvokeExperiment
    BY <2>1 DEF InvokeExperiment, Begin, TurnInv, Schedule
  <2>2. CASE InvokeRun
    <3>1. PICK r \in ManualRuns : Begin("provisioning", <<r>>)
      BY <2>2 DEF InvokeRun
    <3>2. pc' = "provisioning" /\ ended' = "none" /\ queue' = <<r>>
      BY <3>1 DEF Begin
    <3>3. Len(queue') = 1 /\ Head(queue') = r
      BY <3>2
    <3> QED
      BY <3>2, <3>3 DEF TurnInv, ManualTurn, LastOfQueue, Current
  <2>3. CASE RefuseRun
    BY <2>3 DEF RefuseRun, TurnInv
  <2> QED
    BY <2>1, <2>2, <2>3
<1> QED
  BY <1>1, <1>2, LogStays DEF LogInv

(***************************************************************************)
(* prepare_output_file hands an empty log to the whole schedule.           *)
(***************************************************************************)
LEMMA PreparationKeepsLogInv ==
    ASSUME TypeInv, LogInv, PrepareOutput
    PROVE  LogInv'
<1>1. log' = << >> /\ queue' = Schedule /\ pc' = "provisioning"
  BY DEF PrepareOutput, OutputUsable, LogInv, TurnInv
<1>2. ended' = "none"
  BY DEF PrepareOutput, LogInv, TurnInv
<1>3. Len(queue') = Total /\ Len(log') = 0 /\ DOMAIN log' = {}
  BY <1>1, ScheduleIsASeq
<1>4. Done' = 0
  BY <1>3, TotalIsPositive DEF Done, Total
<1>5. ExperimentTurn'
  BY <1>1, <1>3, <1>4, TotalIsPositive DEF ExperimentTurn, Total, Schedule
<1> QED
  BY <1>1, <1>2, <1>3, <1>5
     DEF LogInv, TurnInv, LogFollowsSchedule, FinishedExperimentIsRecorded

(***************************************************************************)
(* Within a run neither the queue nor the log changes.                     *)
(***************************************************************************)
LEMMA RunStepsKeepLogInv ==
    ASSUME TypeInv, LogInv,
           UNCHANGED <<queue, log, ended>>,
           pc \notin {"idle", "preparing", "writing"},
           pc' \notin {"idle", "preparing", "writing"}
    PROVE  LogInv'
<1>1. TurnInv'
  BY DEF LogInv, TurnInv, ManualTurn, LastOfQueue, Current, ExperimentTurn,
         Done, Total, Schedule
<1> QED
  BY <1>1, LogStays DEF LogInv

(***************************************************************************)
(* A command that ends without having finished leaves the log as it is.    *)
(***************************************************************************)
LEMMA EndKeepsLogInv ==
    ASSUME TypeInv, LogInv, log' = log, pc' = "idle", ended' # "finished"
    PROVE  LogInv'
BY LogStays DEF LogInv, TurnInv

(***************************************************************************)
(* A record is appended.                                                   *)
(***************************************************************************)
LEMMA BeginAppendKeepsLogInv ==
    ASSUME TypeInv, LogInv, BeginAppend
    PROVE  LogInv'
<1>1. /\ pc = "recording" /\ pc' = "writing"
      /\ UNCHANGED <<queue, ended>>
      /\ ended = "none"
  BY DEF BeginAppend, LogInv, TurnInv
<1>2. /\ Len(log) \in Nat /\ DOMAIN log = 1..Len(log)
      /\ Len(log') = Len(log) + 1 /\ DOMAIN log' = 1..(Len(log) + 1)
      /\ \A i \in 1..Len(log) : log'[i] = log[i]
      /\ log'[Len(log) + 1].run = Current
  BY BeginAppendLog, LogIndices, LenProperties DEF TypeInv, NewRecord
<1>3. Len(queue) \in Nat \ {0} /\ Current = queue[1]
  BY <1>1, CurrentIsARun DEF TypeInv
<1>4. CASE ManualTurn
  <2>1. ManualTurn'
    BY <1>1, <1>4 DEF ManualTurn, LastOfQueue, Current
  <2>2. LogFollowsSchedule'
    <3>1. Current \in ManualRuns /\ LogFollowsSchedule
      BY <1>4 DEF ManualTurn, LogInv
    <3> SUFFICES ASSUME NEW i \in 1..(Len(log) + 1),
                        log'[i].run \notin ManualRuns
                 PROVE  /\ i \in DOMAIN Schedule
                        /\ log'[i].run = Schedule[i]
                        /\ \A j \in 1..(i - 1) :
                               log'[j].whole /\ log'[j].run = Schedule[j]
      BY <1>2 DEF LogFollowsSchedule, Schedule
    <3>2. Len(log) \in Nat
      BY <1>2
    <3>3. i # Len(log) + 1
      BY <1>2, <3>1
    <3>4. i \in 1..Len(log) /\ \A j \in 1..(i - 1) : j \in 1..Len(log)
      BY <3>2, <3>3
    <3> QED
      BY <1>2, <3>1, <3>4 DEF LogFollowsSchedule
  <2> QED
    BY <1>1, <2>1, <2>2 DEF LogInv, TurnInv, FinishedExperimentIsRecorded
<1>5. CASE ExperimentTurn
  <2>1. /\ Done \in Nat /\ Done + 1 \in 1..Total /\ Done' = Done
        /\ Len(log) = Done
    BY <1>1, <1>3, <1>5, TotalIsPositive DEF Done, ExperimentTurn, Total
  <2>2. Current = Schedule[Done + 1]
    BY <1>3, <1>5 DEF ExperimentTurn
  <2>3. ExperimentTurn'
    BY <1>1, <1>2, <1>5, <2>1 DEF ExperimentTurn, Total, Schedule
  <2>4. LogFollowsSchedule'
    <3> SUFFICES ASSUME NEW i \in 1..(Done + 1), log'[i].run \notin ManualRuns
                 PROVE  /\ i \in 1..Total
                        /\ log'[i].run = Schedule[i]
                        /\ \A j \in 1..(i - 1) :
                               log'[j].whole /\ log'[j].run = Schedule[j]
      BY <1>2, <2>1, ScheduleIsASeq DEF LogFollowsSchedule, Schedule
    <3>1. i \in 1..Total /\ (i \in 1..Done \/ i = Done + 1)
      BY <2>1, TotalIsPositive
    <3>2. log'[i].run = Schedule[i]
      BY <1>2, <1>5, <2>1, <2>2, <3>1 DEF ExperimentTurn
    <3>3. \A j \in 1..Done : log'[j].whole /\ log'[j].run = Schedule[j]
      BY <1>2, <1>5, <2>1 DEF ExperimentTurn
    <3> QED
      BY <2>1, <3>1, <3>2, <3>3
  <2> QED
    BY <1>1, <2>3, <2>4 DEF LogInv, TurnInv, FinishedExperimentIsRecorded
<1> QED
  BY <1>1, <1>4, <1>5 DEF LogInv, TurnInv

(***************************************************************************)
(* The record that is finished is the next of the schedule, and the last   *)
(* one finishes the command.                                               *)
(***************************************************************************)
LEMMA FinishAppendKeepsLogInv ==
    ASSUME TypeInv, LogInv, FinishAppend
    PROVE  LogInv'
<1>1. pc = "writing" /\ ended = "none"
  BY DEF FinishAppend, LogInv, TurnInv
<1>2. /\ Len(log) \in Nat \ {0} /\ DOMAIN log = 1..Len(log)
      /\ Len(log') = Len(log) /\ DOMAIN log' = 1..Len(log)
      /\ \A i \in 1..Len(log) : i # Len(log) => log'[i] = log[i]
      /\ log[Len(log)].run = Current
      /\ log'[Len(log)].run = Current /\ log'[Len(log)].whole
  <2>1. /\ log' \in Seq(Record)
        /\ Len(log) \in Nat \ {0} /\ Len(log') = Len(log)
        /\ log'[Len(log)] = NewRecord(TRUE)
        /\ \A i \in 1..Len(log) : i # Len(log) => log'[i] = log[i]
    BY FinishAppendLog
  <2>2. DOMAIN log = 1..Len(log) /\ DOMAIN log' = 1..Len(log)
    BY <2>1, LogIndices, LenProperties DEF TypeInv
  <2>3. log[Len(log)].run = Current
    BY <1>1 DEF TypeInv, Appending
  <2>4. NewRecord(TRUE).run = Current /\ NewRecord(TRUE).whole
    BY DEF NewRecord
  <2> QED
    BY <2>1, <2>2, <2>3, <2>4
<1>3. \A i \in 1..Len(log) :
          /\ log'[i].run = log[i].run
          /\ log[i].whole => log'[i].whole
  BY <1>2
<1>4. /\ Len(queue) \in Nat \ {0} /\ Current = queue[1]
      /\ Len(Tail(queue)) = Len(queue) - 1
      /\ \A i \in 1..(Len(queue) - 1) : Tail(queue)[i] = queue[i + 1]
  BY <1>1, CurrentIsARun DEF TypeInv
<1>5. LogFollowsSchedule'
  <2> SUFFICES ASSUME NEW i \in 1..Len(log), log'[i].run \notin ManualRuns
               PROVE  /\ i \in 1..Total
                      /\ log'[i].run = Schedule[i]
                      /\ \A j \in 1..(i - 1) :
                             log'[j].whole /\ log'[j].run = Schedule[j]
    BY <1>2, ScheduleIsASeq DEF LogFollowsSchedule, Schedule
  <2>1. /\ i \in 1..Total
        /\ log[i].run = Schedule[i]
        /\ \A j \in 1..(i - 1) : log[j].whole /\ log[j].run = Schedule[j]
    BY <1>2, <1>3, ScheduleIsASeq DEF LogInv, LogFollowsSchedule
  <2>2. \A j \in 1..(i - 1) : j \in 1..Len(log)
    <3>1. Len(log) \in Nat
      BY <1>2
    <3> QED
      BY <3>1
  <2> QED
    BY <1>3, <2>1, <2>2
<1>6. ManualTurn \/ ExperimentTurn
  BY <1>1 DEF LogInv, TurnInv
<1>7. CASE LastOfQueue
  <2>1. pc' = "idle" /\ ended' = "finished"
    BY <1>7 DEF FinishAppend, EndAs
  <2>2. Current \notin ManualRuns => Len(log) = Total
    BY <1>1, <1>6, <1>7, TotalIsPositive
       DEF ManualTurn, ExperimentTurn, LastOfQueue, Done
  <2>3. FinishedExperimentIsRecorded'
    <3>1. (Len(Schedule) = Total)'
      BY ScheduleIsASeq DEF Schedule, Total
    <3>2. Total' = Total
      BY DEF Total
    <3> QED
      BY <1>2, <2>2, <3>1, <3>2 DEF FinishedExperimentIsRecorded
  <2> QED
    BY <1>5, <2>1, <2>3 DEF LogInv, TurnInv
<1>8. CASE ~LastOfQueue
  <2>1. pc' = "provisioning" /\ queue' = Tail(queue) /\ ended' = "none"
    BY <1>1, <1>8 DEF FinishAppend
  <2>2. ExperimentTurn
    BY <1>6, <1>8 DEF ManualTurn
  <2>3. /\ Done \in Nat /\ Done' = Done + 1 /\ Len(log) = Done + 1
        /\ Len(queue') = Len(queue) - 1 /\ Len(queue') <= Total
    BY <1>1, <1>4, <2>1, <2>2, TotalIsPositive
       DEF ExperimentTurn, Done, Total
  <2>4. \A i \in 1..Len(queue') : queue'[i] = Schedule[Done' + i]
    <3> TAKE i \in 1..Len(queue')
    <3>1. i \in 1..(Len(queue) - 1) /\ i + 1 \in 1..Len(queue)
      BY <1>4, <2>3
    <3>2. queue'[i] = queue[i + 1]
      BY <1>4, <2>1, <3>1
    <3>3. queue[i + 1] = Schedule[Done + (i + 1)]
      BY <2>2, <3>1 DEF ExperimentTurn
    <3>4. Done + (i + 1) = Done' + i
      BY <2>3, <3>1
    <3> QED
      BY <3>2, <3>3, <3>4
  <2>5. \A j \in 1..Done' : log'[j].whole /\ log'[j].run = Schedule[j]
    <3> TAKE j \in 1..Done'
    <3>1. CASE j = Done + 1
      <4>1. Current = Schedule[Done + 1]
        BY <1>4, <2>2 DEF ExperimentTurn
      <4> QED
        BY <1>2, <2>3, <3>1, <4>1
    <3>2. CASE j \in 1..Done
      BY <1>3, <2>2, <2>3, <3>2 DEF ExperimentTurn
    <3> QED
      BY <2>3, <3>1, <3>2
  <2>6. ExperimentTurn'
    BY <1>2, <2>1, <2>3, <2>4, <2>5 DEF ExperimentTurn, Total, Schedule
  <2> QED
    BY <1>5, <2>1, <2>6 DEF LogInv, TurnInv, FinishedExperimentIsRecorded
<1> QED
  BY <1>7, <1>8

(***************************************************************************)
(* Every step keeps what is known of the log.                              *)
(***************************************************************************)
LEMMA LogStep ==
    ASSUME TypeInv, LogInv, [Next]_vars
    PROVE  LogInv'
<1>1. CASE \/ RefuseExperiment \/ OutputRefused \/ ProvisionRefused
           \/ ProvisionFails \/ RemoveAndAbort \/ RemoveFails
           \/ AppendFails \/ Kill
  BY <1>1, EndKeepsLogInv
     DEF RefuseExperiment, OutputRefused, ProvisionRefused, ProvisionFails,
         RemoveAndAbort, RemoveFails, AppendFails, Kill, EndAs
<1>2. CASE Provision \/ Remove
  BY <1>2, RunStepsKeepLogInv DEF Provision, ProvisionFrame, Remove
<1>3. CASE \/ Capture \/ AgentEdits \/ AgentReturns \/ Restore \/ Verify
           \/ RunRaises
  BY <1>3, RunStepsKeepLogInv
     DEF Capture, AgentEdits, AgentReturns, Restore, Verify, RunRaises, WithinRun
<1>4. CASE Terminated \/ UNCHANGED vars
  <2>1. UNCHANGED <<pc, queue, log, ended>>
    BY <1>4 DEF Terminated, vars
  <2>2. TurnInv'
    BY <2>1 DEF LogInv, TurnInv, ManualTurn, LastOfQueue, Current,
                ExperimentTurn, Done, Total, Schedule
  <2> QED
    BY <2>1, <2>2, LogStays DEF LogInv
<1> QED
  BY <1>1, <1>2, <1>3, <1>4, CommandStepsKeepLogInv, PreparationKeepsLogInv,
     BeginAppendKeepsLogInv, FinishAppendKeepsLogInv
     DEF Next, Program, OwnStep

(***************************************************************************)
(* LogInv is an invariant, whatever is killed and invoked again.           *)
(***************************************************************************)
LEMMA LogIsInvariant == Spec => []LogInv
<1>1. Init => LogInv
  BY DEF Init, LogInv, TurnInv, LogFollowsSchedule,
         FinishedExperimentIsRecorded
<1> QED
  BY <1>1, LogStep, TypesAreInvariant, PTL DEF Spec

(***************************************************************************)
(* Whatever was killed, refused and invoked again: a record of an          *)
(* experiment stands at its place in the log, behind whole records of the  *)
(* runs before it.                                                         *)
(***************************************************************************)
THEOREM LogKeepsToSchedule == Spec => []LogFollowsSchedule
BY LogIsInvariant, PTL DEF LogInv

(***************************************************************************)
(* A command that finished has recorded all it was to run.                 *)
(***************************************************************************)
THEOREM FinishedIsRecorded == Spec => []FinishedExperimentIsRecorded
BY LogIsInvariant, PTL DEF LogInv

-----------------------------------------------------------------------------
(***************************************************************************)
(* The most steps an invocation has still before it, those of its agents   *)
(* left out: eight for each run it has to do.                              *)
(***************************************************************************)
StepsOfRun ==
    CASE pc = "provisioning" -> 8 [] pc = "capturing" -> 7
      [] pc = "working" -> 6      [] pc = "restoring" -> 5
      [] pc = "verifying" -> 4    [] pc = "removing" -> 3
      [] pc = "recording" -> 2    [] pc = "writing" -> 1

StepsAhead ==
    CASE pc = "idle" -> 0
      [] pc = "preparing" -> 8 * Len(queue) + 1
      [] OTHER -> 8 * (Len(queue) - 1) + StepsOfRun

(***************************************************************************)
(* The safety half of InvocationEnds: once invoked, a command has at most  *)
(* eight steps for each run of the schedule and one before it, and each of *)
(* its steps leaves fewer, but for what its agents do before they return:  *)
(* no refusal, failure or exception takes it back to a run it has done.    *)
(***************************************************************************)
THEOREM InvocationsAreBounded ==
    Spec => /\ [](StepsAhead \in 0..(8 * Len(Schedule) + 1))
            /\ [][pc = "idle" \/ AgentEdits \/ StepsAhead' < StepsAhead]_vars
<1>1. ASSUME TypeInv, LogInv
      PROVE  /\ pc # "idle" => Len(queue) \in 1..Len(Schedule)
             /\ Len(Schedule) \in Nat
  <2>1. Len(Schedule) = Total /\ Total \in Nat \ {0}
    BY ScheduleIsASeq, TotalIsPositive
  <2>2. pc # "idle" => Len(queue) \in Nat \ {0}
    BY <1>1, CurrentIsARun DEF TypeInv
  <2>3. pc # "idle" => Len(queue) <= Total
    BY <1>1, <2>1
       DEF LogInv, TurnInv, ManualTurn, LastOfQueue, ExperimentTurn
  <2>4. QED
    BY <2>1, <2>2, <2>3
<1>2. TypeInv /\ LogInv => StepsAhead \in 0..(8 * Len(Schedule) + 1)
  <2> SUFFICES ASSUME TypeInv, LogInv
               PROVE  StepsAhead \in 0..(8 * Len(Schedule) + 1)
    OBVIOUS
  <2>1. pc \notin {"idle", "preparing"} => StepsOfRun \in 1..8
    BY DEF StepsOfRun, TypeInv, TypeOK
  <2>2. QED
    BY <1>1, <2>1 DEF StepsAhead
<1>3. ASSUME TypeInv, LogInv, Next, pc # "idle", ~AgentEdits, ~UNCHANGED vars
      PROVE  StepsAhead' < StepsAhead
  <2>0. /\ Len(queue) \in Nat \ {0}
        /\ pc \notin {"idle", "preparing"} => StepsOfRun \in 1..8
        /\ Len(Tail(queue)) = Len(queue) - 1
    <3>1. queue \in Seq(RunId) /\ Len(queue) \in Nat \ {0}
      BY <1>3, CurrentIsARun DEF TypeInv, TypeOK
    <3>2. queue # << >>
      BY <3>1
    <3>3. Len(Tail(queue)) = Len(queue) - 1
      BY <3>1, <3>2, HeadTailProperties
    <3>4. QED
      BY <1>3, <3>1, <3>3 DEF StepsOfRun, TypeInv, TypeOK
  <2>1. StepsAhead > 0
    BY <1>3, <2>0 DEF StepsAhead
  <2>2. ASSUME pc' = "idle" PROVE StepsAhead' < StepsAhead
    BY <2>1, <2>2 DEF StepsAhead
  <2>3. CASE \/ RefuseExperiment \/ OutputRefused \/ ProvisionRefused
             \/ ProvisionFails \/ RemoveAndAbort \/ RemoveFails \/ AppendFails
             \/ Kill
    BY <2>2, <2>3 DEF RefuseExperiment, OutputRefused, ProvisionRefused,
       ProvisionFails, RemoveAndAbort, RemoveFails, AppendFails, Kill, EndAs
  <2>4. CASE PrepareOutput
    BY <2>0, <2>4 DEF PrepareOutput, StepsAhead, StepsOfRun
  <2>5. CASE \/ Provision \/ Capture \/ AgentReturns \/ Restore \/ Verify
             \/ RunRaises \/ Remove \/ BeginAppend
    <3>1. /\ queue' = queue
          /\ <<pc, pc'>> \in {<<"provisioning", "capturing">>,
                 <<"capturing", "working">>, <<"working", "restoring">>,
                 <<"restoring", "verifying">>, <<"verifying", "removing">>,
                 <<"capturing", "removing">>, <<"working", "removing">>,
                 <<"restoring", "removing">>, <<"removing", "recording">>,
                 <<"recording", "writing">>}
      BY <2>5 DEF Provision, ProvisionFrame, Capture, AgentReturns, Restore,
         Verify, RunRaises, Remove, BeginAppend, WithinRun
    <3>2. /\ StepsAhead = 8 * (Len(queue) - 1) + StepsOfRun
          /\ StepsAhead' = 8 * (Len(queue) - 1) + StepsOfRun'
      BY <3>1 DEF StepsAhead
    <3>3. StepsOfRun \in 1..8 /\ StepsOfRun' \in 1..8 /\ StepsOfRun' < StepsOfRun
      BY <3>1 DEF StepsOfRun
    <3>4. QED
      BY <2>0, <3>2, <3>3
  <2>6. CASE FinishAppend
    <3>1. CASE LastOfQueue
      BY <2>2, <2>6, <3>1 DEF FinishAppend, EndAs
    <3>2. CASE ~LastOfQueue
      <4>1. /\ pc = "writing" /\ pc' = "provisioning"
            /\ Len(queue') = Len(queue) - 1
        BY <2>0, <2>6, <3>2 DEF FinishAppend
      <4>2. QED
        BY <2>0, <4>1 DEF StepsAhead, StepsOfRun
    <3>3. QED
      BY <3>1, <3>2
  <2>7. QED
    BY <1>3, <2>3, <2>4, <2>5, <2>6
       DEF Next, Program, OwnStep, Terminated, InvokeExperiment, InvokeRun, Begin,
           RefuseRun
<1>4. TypeInv /\ LogInv /\ [Next]_vars
          => [pc = "idle" \/ AgentEdits \/ StepsAhead' < StepsAhead]_vars
  BY <1>3
<1>5. QED
  BY <1>2, <1>4, TypesAreInvariant, LogIsInvariant, PTL DEF Spec
=============================================================================
