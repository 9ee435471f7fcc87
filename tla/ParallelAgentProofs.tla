------------------------- MODULE ParallelAgentProofs -------------------------
(***************************************************************************)
(* For every set of subtasks, plans, workspaces and limits: the workers    *)
(* never outlive their group, nothing but agreed and complete work is      *)
(* written, a merge is exact, and the run implements PlanExecution.        *)
(***************************************************************************)
EXTENDS ParallelAgent, StrategyLemmas

-----------------------------------------------------------------------------
(***************************************************************************)
(* A plan, or none, is a sequence of subtasks with known names.            *)
(***************************************************************************)
LEMMA PlanType ==
    ASSUME NEW p \in Plans \cup {<< >>}
    PROVE  p \in Seq(SubtaskSpec(Ident)) /\ Ids(p) \subseteq Ident
<1>1. CASE p \in Plans
  <2>1. p \in Seq(SubtaskSpec(Ident))
    BY <1>1, AgentAssumption
  <2>2. \A i \in DOMAIN p : p[i] \in SubtaskSpec(Ident)
    BY <2>1
  <2>3. QED
    BY <2>1, <2>2 DEF Ids, SubtaskSpec
<1>2. CASE p = << >>
  <2>1. p \in Seq(SubtaskSpec(Ident)) /\ DOMAIN p = {}
    BY <1>2
  <2>2. QED
    BY <2>1 DEF Ids
<1>3. QED
  BY <1>1, <1>2

(***************************************************************************)
(* How the threads and the main thread fit together.  TypeOK is not        *)
(* inductive without it: a worker counts a call only while it is running.  *)
(***************************************************************************)
ThreadInv ==
    /\ pc = "running" => clone \in [group -> Tree]
    /\ \A s \in Ident : wstate[s] \in {"queued", "running"} =>
           pc = "running" /\ s \in group
    /\ \A s \in Ident : wstate[s] \in {"idle", "queued"} => calls[s] = 0
    /\ \A s \in Ident : wstate[s] = "running" => calls[s] < MaxSteps
    /\ \A s \in Ident : wstate[s] # "idle" => s \in done \cup group
    /\ pc = "planning" => done = {} /\ group = {} /\ reported = {}
    /\ pc = "grouping" => group \subseteq done
    /\ pc = "merging" => pending \subseteq DOMAIN MergeOf(GroupChanges)

-----------------------------------------------------------------------------
(***************************************************************************)
(* A run starts with no group and idle workers.                            *)
(***************************************************************************)
LEMMA InitInv == Init => TypeOK /\ ThreadInv
<1> SUFFICES ASSUME Init PROVE TypeOK /\ ThreadInv
  OBVIOUS
<1>1. ws \in Tree /\ baseline \in Files
  BY AgentAssumption, CaptureType DEF Init
<1>2. NoChanges \in ChangeSet
  BY DEF NoChanges, ChangeSet
<1>3. clone \in [{} -> Tree]
  BY DEF Init, NoClones
<1>4. MaxSteps \in Nat
  BY AgentAssumption
<1>5. TypeOK
  <2>1. calls \in [Ident -> 0..MaxSteps] /\ changes \in [Ident -> ChangeSet]
    BY <1>2, <1>4 DEF Init
  <2>2. QED
    BY <1>1, <1>3, <2>1 DEF Init, TypeOK, Failing, Ended
<1>6. ThreadInv
  BY DEF Init, ThreadInv
<1>7. QED
  BY <1>5, <1>6

(***************************************************************************)
(* The end of a worker leaves its state and its change set in their types. *)
(***************************************************************************)
LEMMA EndWorkerType ==
    ASSUME TypeOK, NEW s \in Ident, NEW result \in Ended, NEW tree \in Tree,
           EndWorker(s, result, tree)
    PROVE  /\ wstate' \in [Ident -> {"idle", "queued", "running"} \cup Ended]
           /\ changes' \in [Ident -> ChangeSet]
<1>1. ChangesSince(Capture(tree), baseline) \in ChangeSet
  BY CaptureType, ChangesSinceType DEF TypeOK
<1>2. QED
  BY <1>1 DEF EndWorker, TypeOK

(***************************************************************************)
(* Every step keeps the types.                                             *)
(***************************************************************************)
LEMMA TypePreserved ==
    TypeOK /\ ThreadInv /\ [Next]_vars => TypeOK'
<1> SUFFICES ASSUME TypeOK, ThreadInv, [Next]_vars PROVE TypeOK'
  OBVIOUS
<1>0. /\ plan \in Seq(SubtaskSpec(Ident)) /\ Ids(plan) \subseteq Ident
      /\ group \subseteq Ident
  BY PlanType DEF TypeOK, Subtasks
<1>c. \A s \in Ident : wstate[s] = "running" =>
          [calls EXCEPT ![s] = Counted(@)] \in [Ident -> 0..MaxSteps]
  BY AgentAssumption DEF ThreadInv, TypeOK, Counted
<1>g. GroupChanges \in SUBSET ChangeSet
  BY <1>0 DEF GroupChanges, TypeOK
<1>1. CASE PlanRequestFails
  BY <1>1 DEF PlanRequestFails, PlanningFrame, Return, planVars, workerVars,
     TypeOK, Subtasks, Failing
<1>2. CASE PlanRejected
  BY <1>2 DEF PlanRejected, PlanningFrame, Return, planVars, workerVars,
     TypeOK, Subtasks, Failing
<1>3. CASE PlanRaises
  BY <1>3 DEF PlanRaises, PlanningFrame, Raise, planVars, workerVars,
     TypeOK, Subtasks
<1>4. CASE PlanAccepted
  <2>1. /\ plan' \in Plans /\ answered' = TRUE /\ pc' = "grouping"
        /\ done' = {} /\ group' = {} /\ reported' = {}
        /\ UNCHANGED <<baseline, clone, wstate, calls, changes, ws, pending,
                       status>>
    BY <1>4 DEF PlanAccepted, PlanningFrame, workerVars, ThreadInv
  <2>2. QED
    BY <2>1 DEF TypeOK, Subtasks
<1>5. CASE BeginGroup
  <2>1. group' \subseteq Subtasks
    BY <1>5 DEF BeginGroup, NextGroup, Ready, ReadyAmong, Subtasks
  <2>2. baseline' \in Files
    BY <1>5, CaptureType DEF BeginGroup, TypeOK
  <2>3. group' \in SUBSET Ident /\ clone' \in [group' -> Tree]
    BY <1>0, <1>5, <2>1 DEF BeginGroup, TypeOK, Subtasks
  <2>4. wstate' \in [Ident -> {"idle", "queued", "running"} \cup Ended]
    BY <1>5 DEF BeginGroup, TypeOK
  <2>5. QED
    BY <1>5, <2>1, <2>2, <2>3, <2>4 DEF BeginGroup, planVars, TypeOK, Subtasks
<1>6. CASE SetupRaises
  BY <1>6 DEF SetupRaises, Raise, planVars, workerVars, TypeOK, Subtasks
<1>7. ASSUME NEW s \in Ident, StartWorker(s) PROVE TypeOK'
  BY <1>7 DEF StartWorker, planVars, TypeOK, Subtasks, Ended
<1>8. ASSUME NEW s \in Ident, WorkerAnswers(s) PROVE TypeOK'
  <2>1. pc = "running" /\ s \in group /\ clone[s] \in Tree
    BY <1>8 DEF WorkerAnswers, ThreadInv
  <2>2. /\ wstate' \in [Ident -> {"idle", "queued", "running"} \cup Ended]
        /\ changes' \in [Ident -> ChangeSet]
    BY <1>8, <2>1, EndWorkerType DEF WorkerAnswers, Ended
  <2>3. calls' \in [Ident -> 0..MaxSteps]
    BY <1>8, <1>c DEF WorkerAnswers
  <2>4. QED
    BY <1>8, <2>2, <2>3
       DEF WorkerAnswers, WorkerFrame, planVars, TypeOK, Subtasks
<1>9. ASSUME NEW s \in Ident, WorkerUsesTools(s) PROVE TypeOK'
  <2>1. pc = "running" /\ s \in group /\ clone \in [group -> Tree]
    BY <1>9 DEF WorkerUsesTools, ThreadInv
  <2>2. PICK tree \in WorkerTree :
            /\ clone' = [clone EXCEPT ![s] = tree]
            /\ IF AtLimit(Counted(calls[s]))
               THEN EndWorker(s, "max_steps", tree)
               ELSE UNCHANGED <<wstate, changes>>
    BY <1>9 DEF WorkerUsesTools
  <2>3. tree \in Tree
    BY AgentAssumption
  <2>4. clone' \in [group -> Tree] /\ group \in SUBSET Ident
    BY <1>0, <2>1, <2>2, <2>3
  <2>5. /\ wstate' \in [Ident -> {"idle", "queued", "running"} \cup Ended]
        /\ changes' \in [Ident -> ChangeSet]
    <3>1. CASE AtLimit(Counted(calls[s]))
      BY <2>2, <2>3, <3>1, EndWorkerType DEF Ended, Failing
    <3>2. CASE ~AtLimit(Counted(calls[s]))
      BY <2>2, <3>2 DEF TypeOK
    <3>3. QED
      BY <3>1, <3>2
  <2>6. calls' \in [Ident -> 0..MaxSteps]
    BY <1>9, <1>c DEF WorkerUsesTools
  <2>7. QED
    BY <1>9, <2>4, <2>5, <2>6
       DEF WorkerUsesTools, WorkerFrame, planVars, TypeOK, Subtasks
<1>10. ASSUME NEW s \in Ident, WorkerRequestFails(s) PROVE TypeOK'
  <2>1. pc = "running" /\ s \in group /\ clone[s] \in Tree
    BY <1>10 DEF WorkerRequestFails, ThreadInv
  <2>2. /\ wstate' \in [Ident -> {"idle", "queued", "running"} \cup Ended]
        /\ changes' \in [Ident -> ChangeSet]
    BY <1>10, <2>1, EndWorkerType DEF WorkerRequestFails, Ended, Failing
  <2>3. QED
    BY <1>10, <2>2
       DEF WorkerRequestFails, WorkerFrame, planVars, TypeOK, Subtasks
<1>11. ASSUME NEW s \in Ident, WorkerRaises(s) PROVE TypeOK'
  BY <1>11 DEF WorkerRaises, WorkerFrame, planVars, TypeOK, Subtasks, Ended
<1>12. CASE CollectRaised
  BY <1>12 DEF CollectRaised, CollectFrame, Raise, planVars, NoClones, TypeOK, Subtasks
<1>13. CASE CollectFailure
  <2>1. FirstInPlan(plan, InState(Failing)) \in InState(Failing)
    BY <1>0, <1>13, FirstInPlanIsMember
       DEF CollectFailure, SomeFailed, InState, TypeOK, Subtasks
  <2>2. status' \in Failing
    BY <1>13, <2>1 DEF CollectFailure, Return, InState
  <2>3. QED
    BY <1>13, <2>2
       DEF CollectFailure, CollectFrame, Return, planVars, NoClones, TypeOK,
           Subtasks
<1>14. CASE CollectConflict
  BY <1>14 DEF CollectConflict, CollectFrame, Return, planVars, NoClones, TypeOK, Subtasks, Failing
<1>15. CASE StartMerge
  <2>1. pending' \subseteq Path
    BY <1>15, <1>g, MergeOfType DEF StartMerge
  <2>2. QED
    BY <1>15, <2>1
       DEF StartMerge, CollectFrame, planVars, NoClones, TypeOK, Subtasks
<1>16. CASE WritePath
  <2> DEFINE p == FirstPath(pending)
  <2>1. p \in pending /\ p \in Path /\ CanWrite(ws, p)
    BY <1>16, FirstPathIsPending DEF WritePath, TypeOK
  <2>2. MergeOf(GroupChanges)[p] \in Content \cup {Missing}
    BY <1>16, <1>g, <2>1, MergeOfType DEF WritePath, ThreadInv
  <2>3. ws' \in Tree
    BY <1>16, <2>1, <2>2, WriteFileType DEF WritePath, TypeOK
  <2>4. QED
    BY <1>16, <2>3 DEF WritePath, planVars, workerVars, TypeOK, Subtasks
<1>17. CASE WriteRaises
  <2>1. FirstPath(pending) \in Path
    BY <1>17, FirstPathIsPending DEF WriteRaises, TypeOK
  <2>2. ws' \in Tree
    BY <1>17, <2>1, FailedWritesType DEF WriteRaises, TypeOK
  <2>3. QED
    BY <1>17, <2>2
       DEF WriteRaises, Raise, planVars, workerVars, TypeOK, Subtasks
<1>18. CASE FinishMerge
  BY <1>18 DEF FinishMerge, planVars, workerVars, TypeOK, Subtasks
<1>19. CASE Complete
  BY <1>19 DEF Complete, Return, planVars, workerVars, TypeOK, Subtasks
<1>20. CASE UNCHANGED vars
  BY <1>20 DEF vars, TypeOK, Subtasks
<1>21. QED
  BY <1>1, <1>2, <1>3, <1>4, <1>5, <1>6, <1>7, <1>8, <1>9, <1>10, <1>11,
     <1>12, <1>13, <1>14, <1>15, <1>16, <1>17, <1>18, <1>19, <1>20
     DEF Next, Main, PlannerReturns, OwnStep, Worker, Terminated

(***************************************************************************)
(* Every step keeps ThreadInv: a new group is disjoint from what is done,  *)
(* so its members are idle and have no calls; the pool is left only when   *)
(* no worker is queued or running.                                         *)
(***************************************************************************)
LEMMA ThreadInvPreserved ==
    TypeOK /\ ThreadInv /\ [Next]_vars => ThreadInv'
<1> SUFFICES ASSUME TypeOK, ThreadInv, [Next]_vars PROVE ThreadInv'
  OBVIOUS
<1>0. /\ plan \in Seq(SubtaskSpec(Ident)) /\ Ids(plan) \subseteq Ident
      /\ group \subseteq Ident
  BY PlanType DEF TypeOK, Subtasks
<1>1. CASE PlanRequestFails
  BY <1>1 DEF PlanRequestFails, PlanningFrame, Return, planVars, workerVars,
     ThreadInv
<1>2. CASE PlanRejected
  BY <1>2 DEF PlanRejected, PlanningFrame, Return, workerVars, ThreadInv
<1>3. CASE PlanRaises
  BY <1>3 DEF PlanRaises, PlanningFrame, Raise, planVars, workerVars, ThreadInv
<1>4. CASE PlanAccepted
  BY <1>4 DEF PlanAccepted, PlanningFrame, workerVars, ThreadInv
<1>5. CASE BeginGroup
  <2>1. /\ pc = "grouping" /\ pc' = "running" /\ done' = done
        /\ group' = {s \in Subtasks \ done : DepsOf(plan, s) \subseteq done}
        /\ clone' = [s \in group' |-> ws] /\ ws \in Tree /\ calls' = calls
        /\ wstate' = [s \in Ident |->
                         IF s \in group' THEN "queued" ELSE wstate[s]]
    BY <1>5 DEF BeginGroup, NextGroup, Ready, ReadyAmong, Subtasks, TypeOK
  <2>2. \A s \in group' : s \in Ident /\ s \notin done
    BY <1>0, <2>1 DEF Subtasks
  <2>3. \A s \in group' : wstate[s] = "idle" /\ calls[s] = 0
    BY <2>1, <2>2 DEF ThreadInv
  <2>4. \A s \in Ident : wstate[s] \notin {"queued", "running"}
    BY <2>1 DEF ThreadInv
  <2>5. clone' \in [group' -> Tree]
    BY <2>1
  <2>6. \A s \in Ident : wstate'[s] # "idle" => s \in done' \cup group'
    BY <2>1 DEF ThreadInv
  <2>7. \A s \in Ident : wstate'[s] \in {"idle", "queued"} => calls'[s] = 0
    BY <2>1, <2>3 DEF ThreadInv
  <2>8. \A s \in Ident : wstate'[s] # "running"
    BY <2>1, <2>4
  <2>9. \A s \in Ident : wstate'[s] \in {"queued", "running"} =>
            s \in group'
    BY <2>1, <2>4
  <2>10. QED
    BY <2>1, <2>5, <2>6, <2>7, <2>8, <2>9 DEF ThreadInv
<1>6. CASE SetupRaises
  BY <1>6 DEF SetupRaises, Raise, workerVars, ThreadInv
<1>7. ASSUME NEW s \in Ident, StartWorker(s) PROVE ThreadInv'
  <2>1. /\ pc = "running" /\ s \in group /\ wstate[s] = "queued"
        /\ wstate' = [wstate EXCEPT ![s] = "running"]
        /\ UNCHANGED <<pc, group, clone, calls, done, reported>>
    BY <1>7 DEF StartWorker, InState
  <2>2. calls[s] = 0 /\ 0 < MaxSteps
    BY <2>1, AgentAssumption DEF ThreadInv
  <2>3. QED
    BY <2>1, <2>2 DEF ThreadInv, TypeOK
<1>8. ASSUME NEW s \in Ident, WorkerAnswers(s) PROVE ThreadInv'
  <2>1. /\ pc = "running" /\ s \in group /\ wstate[s] = "running"
        /\ wstate' = [wstate EXCEPT ![s] = "completed"]
        /\ calls' = [calls EXCEPT ![s] = Counted(@)]
        /\ UNCHANGED <<pc, group, clone, done, reported>>
    BY <1>8 DEF WorkerAnswers, WorkerFrame, EndWorker, ThreadInv
  <2>2. QED
    BY <2>1 DEF ThreadInv, TypeOK
<1>9. ASSUME NEW s \in Ident, WorkerUsesTools(s) PROVE ThreadInv'
  <2>1. /\ pc = "running" /\ s \in group /\ wstate[s] = "running"
        /\ calls' = [calls EXCEPT ![s] = Counted(@)]
        /\ UNCHANGED <<pc, group, done, reported>>
    BY <1>9 DEF WorkerUsesTools, WorkerFrame, ThreadInv
  <2>2. PICK tree \in WorkerTree :
            /\ clone' = [clone EXCEPT ![s] = tree]
            /\ IF AtLimit(Counted(calls[s]))
               THEN EndWorker(s, "max_steps", tree)
               ELSE UNCHANGED <<wstate, changes>>
    BY <1>9 DEF WorkerUsesTools
  <2>3. clone' \in [group -> Tree]
    BY <2>1, <2>2, AgentAssumption DEF ThreadInv
  <2>4. \/ wstate' = [wstate EXCEPT ![s] = "max_steps"]
        \/ wstate' = wstate /\ calls[s] + 1 < MaxSteps
    <3>1. calls[s] \in Nat /\ calls[s] < MaxSteps /\ MaxSteps \in Nat
      BY <2>1, AgentAssumption DEF ThreadInv, TypeOK
    <3>2. QED
      BY <2>2, <3>1 DEF EndWorker, AtLimit, Counted
  <2>5. QED
    BY <2>1, <2>3, <2>4 DEF ThreadInv, TypeOK, Counted
<1>10. ASSUME NEW s \in Ident, WorkerRequestFails(s) PROVE ThreadInv'
  <2>1. /\ pc = "running" /\ s \in group /\ wstate[s] = "running"
        /\ wstate' = [wstate EXCEPT ![s] = "failed"]
        /\ UNCHANGED <<pc, group, clone, calls, done, reported>>
    BY <1>10 DEF WorkerRequestFails, WorkerFrame, EndWorker, ThreadInv
  <2>2. QED
    BY <2>1 DEF ThreadInv, TypeOK
<1>11. ASSUME NEW s \in Ident, WorkerRaises(s) PROVE ThreadInv'
  <2>1. /\ pc = "running" /\ s \in group /\ wstate[s] = "running"
        /\ wstate' = [wstate EXCEPT ![s] = "raised"]
        /\ UNCHANGED <<pc, group, clone, calls, done, reported>>
    BY <1>11 DEF WorkerRaises, WorkerFrame, ThreadInv
  <2>2. QED
    BY <2>1 DEF ThreadInv, TypeOK
<1>e. ASSUME GroupEnded, pc = "running"
      PROVE  \A s \in Ident : wstate[s] \notin {"queued", "running"}
  BY <1>e DEF GroupEnded, InState, Ended, Failing, ThreadInv
<1>12. CASE CollectRaised
  BY <1>12, <1>e DEF CollectRaised, CollectFrame, Raise, ThreadInv
<1>13. CASE CollectFailure
  BY <1>13, <1>e DEF CollectFailure, CollectFrame, Return, ThreadInv
<1>14. CASE CollectConflict
  BY <1>14, <1>e DEF CollectConflict, CollectFrame, Return, ThreadInv
<1>15. CASE StartMerge
  <2>1. GroupChanges' = GroupChanges
    BY <1>15 DEF StartMerge, CollectFrame, GroupChanges
  <2>2. MergeOf(GroupChanges)' = MergeOf(GroupChanges)
    BY <2>1
  <2>3. QED
    BY <1>15, <1>e, <2>2 DEF StartMerge, CollectFrame, ThreadInv
<1>16. CASE WritePath
  <2>1. MergeOf(GroupChanges)' = MergeOf(GroupChanges)
    BY <1>16 DEF WritePath, workerVars, GroupChanges
  <2>2. QED
    BY <1>16, <2>1 DEF WritePath, workerVars, ThreadInv
<1>17. CASE WriteRaises
  BY <1>17 DEF WriteRaises, Raise, workerVars, ThreadInv
<1>18. CASE FinishMerge
  BY <1>18 DEF FinishMerge, workerVars, ThreadInv
<1>19. CASE Complete
  BY <1>19 DEF Complete, Return, workerVars, ThreadInv
<1>20. CASE UNCHANGED vars
  <2>1. MergeOf(GroupChanges)' = MergeOf(GroupChanges)
    BY <1>20 DEF vars, GroupChanges
  <2>2. QED
    BY <1>20, <2>1 DEF vars, ThreadInv
<1>21. QED
  BY <1>1, <1>2, <1>3, <1>4, <1>5, <1>6, <1>7, <1>8, <1>9, <1>10, <1>11,
     <1>12, <1>13, <1>14, <1>15, <1>16, <1>17, <1>18, <1>19, <1>20
     DEF Next, Main, PlannerReturns, OwnStep, Worker, Terminated

(***************************************************************************)
(* The state of ParallelAgent.run stays in its types.                      *)
(***************************************************************************)
THEOREM TypeCorrect == Spec => []TypeOK
<1>1. Spec => [](TypeOK /\ ThreadInv)
  BY InitInv, TypePreserved, ThreadInvPreserved, PTL DEF Spec
<1>2. QED
  BY <1>1, PTL

(***************************************************************************)
(* Threads and main thread fit together throughout.                        *)
(***************************************************************************)
LEMMA ThreadsCorrect == Spec => []ThreadInv
<1>1. Spec => [](TypeOK /\ ThreadInv)
  BY InitInv, TypePreserved, ThreadInvPreserved, PTL DEF Spec
<1>2. QED
  BY <1>1, PTL

(***************************************************************************)
(* However many subtasks and threads there are, no worker of _run_group    *)
(* runs without its clone or after the main thread has left the pool.      *)
(***************************************************************************)
THEOREM WorkersStayInGroup == Spec => []NoWorkerOutlivesGroup
<1>1. ThreadInv => NoWorkerOutlivesGroup
  BY DEF ThreadInv, NoWorkerOutlivesGroup
<1>2. QED
  BY <1>1, ThreadsCorrect, PTL

-----------------------------------------------------------------------------
(***************************************************************************)
(* The merge: while the workers run the workspace is what the baseline     *)
(* recorded, and the write loop takes it path by path to the merged        *)
(* changes.                                                                *)
(***************************************************************************)
AllCompleted == \A s \in group : wstate[s] = "completed"

Merged(left) ==
    [p \in Path |-> IF p \in DOMAIN MergeOf(GroupChanges) \ left
                    THEN MergeOf(GroupChanges)[p] ELSE baseline[p]]

MergeInv ==
    /\ pc = "running" => Capture(ws) = baseline
    /\ pc = "merging" =>
           AllCompleted /\ ~Conflict(GroupChanges) /\ Capture(ws) = Merged(pending)
    /\ pc = "grouping" /\ group # {} =>
           ~Conflict(GroupChanges) /\ Capture(ws) = Merged({})

(***************************************************************************)
(* Every step keeps what is known of the workspace.                        *)
(***************************************************************************)
LEMMA MergeInvPreserved ==
    TypeOK /\ ThreadInv /\ MergeInv /\ [Next]_vars => MergeInv'
<1> SUFFICES ASSUME TypeOK, ThreadInv, MergeInv, [Next]_vars PROVE MergeInv'
  OBVIOUS
<1>0. group \subseteq Ident /\ GroupChanges \in SUBSET ChangeSet
  BY PlanType DEF TypeOK, Subtasks, GroupChanges
<1>s. ASSUME pc' \notin {"running", "merging", "grouping"} PROVE MergeInv'
  BY <1>s DEF MergeInv
<1>r. ASSUME pc = "running", pc' = "running", UNCHANGED <<ws, baseline>>
      PROVE  MergeInv'
  BY <1>r DEF MergeInv, Capture
<1>1. CASE PlanRequestFails \/ PlanRejected \/ PlanRaises
  BY <1>1, <1>s DEF PlanRequestFails, PlanRejected, PlanRaises, Return, Raise
<1>2. CASE PlanAccepted
  BY <1>2 DEF PlanAccepted, PlanningFrame, ThreadInv, MergeInv
<1>3. CASE BeginGroup
  BY <1>3 DEF BeginGroup, MergeInv, Capture
<1>4. CASE SetupRaises \/ CollectRaised \/ WriteRaises
  BY <1>4, <1>s DEF SetupRaises, CollectRaised, WriteRaises, Raise
<1>5. CASE CollectFailure \/ CollectConflict \/ Complete
  BY <1>5, <1>s DEF CollectFailure, CollectConflict, Complete, Return
<1>6. ASSUME NEW s \in Ident, StartWorker(s) PROVE MergeInv'
  BY <1>6, <1>r DEF StartWorker
<1>7. ASSUME NEW s \in Ident,
             WorkerAnswers(s) \/ WorkerUsesTools(s)
                 \/ WorkerRequestFails(s) \/ WorkerRaises(s)
      PROVE  MergeInv'
  <2>1. pc = "running" /\ UNCHANGED <<pc, ws, baseline>>
    BY <1>7 DEF WorkerAnswers, WorkerUsesTools, WorkerRequestFails,
       WorkerRaises, WorkerFrame, ThreadInv
  <2>2. QED
    BY <2>1, <1>r
<1>8. CASE StartMerge
  <2>1. /\ pc = "running" /\ pc' = "merging"
        /\ pending' = DOMAIN MergeOf(GroupChanges)
        /\ ~Conflict(GroupChanges)
        /\ UNCHANGED <<ws, baseline, group, changes, wstate>>
    BY <1>8 DEF StartMerge, CollectFrame
  <2>2. AllCompleted
    BY <1>8 DEF StartMerge, GroupEnded, SomeFailed, InState, Ended, AllCompleted
  <2>3. Capture(ws) = baseline /\ baseline \in [Path -> Content \cup {Missing}]
    BY <2>1 DEF MergeInv, TypeOK, Files
  <2>4. Merged(DOMAIN MergeOf(GroupChanges)) = baseline
    BY <2>3 DEF Merged
  <2>5. AllCompleted' /\ GroupChanges' = GroupChanges /\ Capture(ws)' = Capture(ws)
    BY <2>1, <2>2 DEF AllCompleted, GroupChanges, Capture
  <2>6. Merged(pending)' = Merged(DOMAIN MergeOf(GroupChanges))
    BY <2>1, <2>5 DEF Merged
  <2>7. Conflict(GroupChanges)' = Conflict(GroupChanges)
    BY <2>5
  <2>8. QED
    BY <2>1, <2>3, <2>4, <2>5, <2>6, <2>7 DEF MergeInv
<1>9. CASE WritePath
  <2> DEFINE M == MergeOf(GroupChanges)
             p == FirstPath(pending)
  <2>1. /\ pc = "merging" /\ pc' = "merging" /\ CanWrite(ws, p)
        /\ ws' = WriteFile(ws, p, M[p]) /\ pending' = pending \ {p}
        /\ UNCHANGED <<baseline, group, changes, wstate>>
    BY <1>9 DEF WritePath, workerVars
  <2>2. /\ p \in pending /\ p \in Path /\ p \in DOMAIN M
        /\ M[p] \in Content \cup {Missing}
    BY <1>0, <1>9, <2>1, FirstPathIsPending, MergeOfType
       DEF WritePath, TypeOK, ThreadInv
  <2>3. Capture(ws') = [Capture(ws) EXCEPT ![p] = M[p]]
    BY <2>1, <2>2, WriteFileChangesOneFile DEF TypeOK
  <2>4. Capture(ws) = Merged(pending) /\ AllCompleted /\ ~Conflict(GroupChanges)
    BY <2>1 DEF MergeInv
  <2>5. Capture(ws') = Merged(pending \ {p})
    <3>1. [Merged(pending) EXCEPT ![p] = M[p]] = Merged(pending \ {p})
      BY <2>2 DEF Merged
    <3>2. QED
      BY <2>3, <2>4, <3>1
  <2>6. AllCompleted' /\ GroupChanges' = GroupChanges
    BY <2>1, <2>4 DEF AllCompleted, GroupChanges
  <2>7. Merged(pending)' = Merged(pending \ {p})
    BY <2>1, <2>6 DEF Merged
  <2>8. Conflict(GroupChanges)' = Conflict(GroupChanges)
    BY <2>6
  <2>9. Capture(ws)' = Capture(ws')
    BY DEF Capture
  <2>10. QED
    BY <2>1, <2>4, <2>5, <2>6, <2>7, <2>8, <2>9 DEF MergeInv
<1>10. CASE FinishMerge
  <2>1. /\ pc = "merging" /\ pc' = "grouping" /\ pending = {}
        /\ UNCHANGED <<ws, baseline, group, changes>>
    BY <1>10 DEF FinishMerge, workerVars
  <2>2. ~Conflict(GroupChanges) /\ Capture(ws) = Merged({})
    BY <2>1 DEF MergeInv
  <2>3. GroupChanges' = GroupChanges /\ Capture(ws)' = Capture(ws)
    BY <2>1 DEF GroupChanges, Capture
  <2>4. Merged({})' = Merged({})
    BY <2>1, <2>3 DEF Merged
  <2>5. Conflict(GroupChanges)' = Conflict(GroupChanges)
    BY <2>3
  <2>6. QED
    BY <2>1, <2>2, <2>3, <2>4, <2>5 DEF MergeInv
<1>11. CASE UNCHANGED vars
  <2>1. UNCHANGED <<pc, ws, baseline, group, changes, wstate, pending>>
    BY <1>11 DEF vars
  <2>2. GroupChanges' = GroupChanges /\ Capture(ws)' = Capture(ws)
    BY <2>1 DEF GroupChanges, Capture
  <2>3. Merged(pending)' = Merged(pending) /\ Merged({})' = Merged({})
    BY <2>1, <2>2 DEF Merged
  <2>4. Conflict(GroupChanges)' = Conflict(GroupChanges)
    BY <2>2
  <2>5. AllCompleted' = AllCompleted
    BY <2>1 DEF AllCompleted
  <2>6. QED
    BY <2>1, <2>2, <2>3, <2>4, <2>5 DEF MergeInv
<1>12. QED
  BY <1>1, <1>2, <1>3, <1>4, <1>5, <1>6, <1>7, <1>8, <1>9, <1>10, <1>11
     DEF Next, Main, PlannerReturns, OwnStep, Worker, Terminated

(***************************************************************************)
(* What is known of the workspace holds throughout.                        *)
(***************************************************************************)
LEMMA MergeCorrect == Spec => [](TypeOK /\ ThreadInv /\ MergeInv)
<1>1. Init => MergeInv
  BY DEF Init, MergeInv
<1>2. QED
  BY <1>1, InitInv, TypePreserved, ThreadInvPreserved, MergeInvPreserved, PTL
     DEF Spec

(***************************************************************************)
(* After merge_change_sets the workspace holds exactly what the workers of *)
(* the group changed, for every number of workers, paths and contents.     *)
(***************************************************************************)
THEOREM MergesAreExact == Spec => []GroupMergedExactly
<1>1. ASSUME TypeOK, MergeInv PROVE GroupMergedExactly
  <2> SUFFICES ASSUME pc = "grouping", group # {}, NEW p \in Path
               PROVE  LET owners == {s \in group : p \in DOMAIN changes[s]} IN
                      IF owners = {}
                      THEN Capture(ws)[p] = baseline[p]
                      ELSE \A s \in owners : Capture(ws)[p] = changes[s][p]
    BY DEF GroupMergedExactly
  <2> DEFINE M == MergeOf(GroupChanges)
             owners == {s \in group : p \in DOMAIN changes[s]}
  <2>1. GroupChanges \in SUBSET ChangeSet
    BY <1>1, PlanType DEF TypeOK, Subtasks, GroupChanges
  <2>2. /\ ~Conflict(GroupChanges)
        /\ Capture(ws)[p] = IF p \in DOMAIN M THEN M[p] ELSE baseline[p]
    BY <1>1 DEF MergeInv, Merged
  <2>3. CASE owners = {}
    <3>1. DOMAIN M = UNION {DOMAIN c : c \in GroupChanges}
      BY <2>1, MergeOfType
    <3>2. \A c \in GroupChanges : p \notin DOMAIN c
      BY <2>3 DEF GroupChanges
    <3>3. p \notin DOMAIN M
      BY <3>1, <3>2
    <3>4. QED
      BY <2>2, <2>3, <3>3
  <2>4. ASSUME NEW s \in owners PROVE Capture(ws)[p] = changes[s][p]
    <3>1. changes[s] \in GroupChanges /\ p \in DOMAIN changes[s]
      BY DEF GroupChanges
    <3>2. p \in DOMAIN M /\ M[p] = changes[s][p]
      BY <2>1, <2>2, <3>1, MergeOfAgrees
    <3>3. QED
      BY <2>2, <3>2
  <2>5. QED
    BY <2>3, <2>4
<1>2. QED
  BY <1>1, MergeCorrect, PTL

(***************************************************************************)
(* A step that changes the workspace writes changes on which the completed *)
(* workers of the group agree.                                             *)
(***************************************************************************)
THEOREM WritesAreAgreed == Spec => OnlyAgreedWorkIsWritten
<1> DEFINE Agreed ==
        /\ \A s \in group : wstate[s] = "completed"
        /\ \A s, t \in group :
               \A p \in DOMAIN changes[s] \cap DOMAIN changes[t] :
                   changes[s][p] = changes[t][p]
<1>1. ASSUME MergeInv, ThreadInv, [Next]_vars PROVE [ws' # ws => Agreed]_vars
  <2>1. CASE WritePath \/ WriteRaises
    <3>1. AllCompleted /\ ~Conflict(GroupChanges)
      BY <1>1, <2>1 DEF WritePath, WriteRaises, MergeInv
    <3>2. QED
      BY <3>1 DEF AllCompleted, Conflict, Disagree, GroupChanges
  <2>2. CASE ws' = ws
    BY <2>2
  <2>3. WritePath \/ WriteRaises \/ ws' = ws
    BY <1>1 DEF Next, Main, PlannerReturns, OwnStep, Worker, Terminated, vars,
       PlanRequestFails, PlanRejected, PlanRaises, PlanAccepted,
       PlanningFrame, BeginGroup,
       SetupRaises, CollectRaised, CollectFailure, CollectConflict, StartMerge,
       CollectFrame, WriteRaises, FinishMerge, Complete, StartWorker,
       WorkerAnswers, WorkerUsesTools, WorkerRequestFails, WorkerRaises,
       WorkerFrame
  <2>4. QED
    BY <2>1, <2>2, <2>3
<1>2. QED
  BY <1>1, MergeCorrect, PTL DEF Spec, OnlyAgreedWorkIsWritten

-----------------------------------------------------------------------------
(***************************************************************************)
(* What the run carries from the planner to the end of the plan.           *)
(***************************************************************************)
Executing == pc \in {"grouping", "running", "merging"}

PlanInv ==
    /\ Executing => ValidPlan(plan)
    /\ pc \in {"running", "merging"} => group = Ready(plan, done) /\ group # {}
    /\ status = "completed" => pc = "returned"

(***************************************************************************)
(* Every step keeps what is known of the plan.                             *)
(***************************************************************************)
LEMMA PlanInvPreserved ==
    TypeOK /\ ThreadInv /\ PlanInv /\ [Next]_vars => PlanInv'
<1> SUFFICES ASSUME TypeOK, ThreadInv, PlanInv, [Next]_vars PROVE PlanInv'
  OBVIOUS
<1>k. ASSUME UNCHANGED <<plan, done, group, status>>,
             \/ pc' = pc
             \/ pc = "running" /\ pc' = "merging"
      PROVE  PlanInv'
  BY <1>k DEF PlanInv, Executing
<1>1. CASE PlanRequestFails \/ PlanRejected
  BY <1>1 DEF PlanRequestFails, PlanRejected, Return, PlanInv, Executing
<1>2. CASE PlanRaises \/ SetupRaises \/ CollectRaised \/ WriteRaises
  BY <1>2 DEF PlanRaises, SetupRaises, CollectRaised, WriteRaises, Raise,
     PlanInv, Executing
<1>3. CASE PlanAccepted
  BY <1>3 DEF PlanAccepted, PlanInv, Executing
<1>4. CASE BeginGroup
  <2>1. /\ pc = "grouping" /\ pc' = "running" /\ done # Ids(plan)
        /\ group' = Ready(plan, done) /\ done \subseteq Ids(plan)
        /\ UNCHANGED <<plan, done, status>>
    BY <1>4 DEF BeginGroup, NextGroup, planVars, Subtasks, TypeOK
  <2>2. ValidPlan(plan) /\ status # "completed"
    BY <2>1 DEF PlanInv, Executing
  <2>3. Ready(plan, done) # {}
    BY <2>1, <2>2, SomethingIsReady
  <2>4. QED
    BY <2>1, <2>2, <2>3 DEF PlanInv, Executing
<1>5. ASSUME NEW s \in Ident, StartWorker(s) PROVE PlanInv'
  BY <1>5, <1>k DEF StartWorker, planVars
<1>6. ASSUME NEW s \in Ident,
             WorkerAnswers(s) \/ WorkerUsesTools(s)
                 \/ WorkerRequestFails(s) \/ WorkerRaises(s)
      PROVE  PlanInv'
  BY <1>6, <1>k DEF WorkerAnswers, WorkerUsesTools, WorkerRequestFails,
     WorkerRaises, WorkerFrame, planVars
<1>7. CASE CollectFailure \/ CollectConflict \/ Complete
  BY <1>7 DEF CollectFailure, CollectConflict, Complete, Return, PlanInv,
     Executing
<1>8. CASE StartMerge
  BY <1>8, <1>k DEF StartMerge, CollectFrame, planVars
<1>9. CASE WritePath
  BY <1>9, <1>k DEF WritePath, planVars
<1>10. CASE FinishMerge
  BY <1>10 DEF FinishMerge, planVars, PlanInv, Executing
<1>11. CASE UNCHANGED vars
  BY <1>11, <1>k DEF vars
<1>12. QED
  BY <1>1, <1>2, <1>3, <1>4, <1>5, <1>6, <1>7, <1>8, <1>9, <1>10, <1>11
     DEF Next, Main, PlannerReturns, OwnStep, Worker, Terminated

(***************************************************************************)
(* PlanExecution reads a plan as this module does.                         *)
(***************************************************************************)
LEMMA SamePlanOperators ==
    ASSUME NEW p, NEW completed
    PROVE  /\ Execution!Ids(p) = Ids(p)
           /\ Execution!Ready(p, completed) = Ready(p, completed)
           /\ Execution!ValidPlan(p) <=> ValidPlan(p)
<1>1. Execution!Ids(p) = Ids(p)
  BY DEF Execution!Ids, Ids
<1>2. \A s : Execution!DepsOf(p, s) = DepsOf(p, s)
  BY DEF Execution!DepsOf, DepsOf
<1>3. Execution!Ready(p, completed) = Ready(p, completed)
  BY <1>1, <1>2 DEF Execution!Ready, Execution!ReadyAmong, Ready, ReadyAmong
<1>4. Execution!Cyclic(p) <=> Cyclic(p)
  BY <1>1, <1>2 DEF Execution!Cyclic, Execution!Knot, Cyclic, Knot
<1>5. /\ Execution!IdsAreUnique(p) <=> IdsAreUnique(p)
      /\ Execution!NoSelfDependency(p) <=> NoSelfDependency(p)
      /\ Execution!DependenciesKnown(p) <=> DependenciesKnown(p)
  BY <1>1 DEF Execution!IdsAreUnique, IdsAreUnique,
     Execution!NoSelfDependency, NoSelfDependency,
     Execution!DependenciesKnown, DependenciesKnown
<1>6. QED
  BY <1>1, <1>3, <1>4, <1>5 DEF Execution!ValidPlan, ValidPlan

(***************************************************************************)
(* Each step of the run is one of PlanExecution or changes nothing there.  *)
(***************************************************************************)
LEMMA StepRefinesExecution ==
    TypeOK /\ ThreadInv /\ PlanInv /\ [Next]_vars
        => [Execution!Next]_<<Phase, plan, done>>
<1> SUFFICES ASSUME TypeOK, ThreadInv, PlanInv, [Next]_vars
             PROVE  [Execution!Next]_<<Phase, plan, done>>
  OBVIOUS
<1>p. /\ pc = "planning" => Phase = "planning"
      /\ Executing => Phase = "executing"
  BY DEF Phase, Executing
<1>n. /\ pc' = "raised" /\ status' # "completed" => Phase' = "stopped"
      /\ pc' = "returned" /\ status' # "completed" => Phase' = "stopped"
      /\ pc' = "returned" /\ status' = "completed" => Phase' = "completed"
      /\ Executing' => Phase' = "executing"
  BY DEF Phase, Executing
<1>s. ASSUME pc \in {"planning", "grouping", "running", "merging"},
             Phase' = "stopped", UNCHANGED <<plan, done>>
      PROVE  Execution!Stop
  BY <1>s, <1>p DEF Execution!Stop, Executing
<1>k. ASSUME UNCHANGED <<plan, done>>, Executing, Executing'
      PROVE  UNCHANGED <<Phase, plan, done>>
  BY <1>k, <1>p, <1>n
<1>1. CASE PlanRequestFails \/ PlanRejected
  <2>1. Execution!Stop
    BY <1>1, <1>n, <1>s DEF PlanRequestFails, PlanRejected, Return,
       PlanningFrame, planVars
  <2>2. QED
    BY <2>1 DEF Execution!Next
<1>2. CASE PlanRaises \/ SetupRaises \/ CollectRaised \/ WriteRaises
  <2>1. /\ pc' = "raised" /\ status' = status /\ UNCHANGED <<plan, done>>
        /\ pc \in {"planning", "grouping", "running", "merging"}
    BY <1>2 DEF PlanRaises, SetupRaises, CollectRaised, WriteRaises, Raise,
       PlanningFrame, CollectFrame, planVars
  <2>2. status' # "completed"
    BY <2>1 DEF PlanInv
  <2>3. Execution!Stop
    BY <2>1, <2>2, <1>n, <1>s
  <2>4. QED
    BY <2>3 DEF Execution!Next
<1>3. CASE PlanAccepted
  <2>1. Phase = "planning" /\ Phase' = "executing" /\ done' = done
    BY <1>3, <1>p, <1>n DEF PlanAccepted, PlanningFrame, Executing
  <2>2. Execution!Accept
    BY <1>3, <2>1, SamePlanOperators DEF PlanAccepted, Execution!Accept
  <2>3. QED
    BY <2>2 DEF Execution!Next
<1>4. CASE BeginGroup
  BY <1>4, <1>k DEF BeginGroup, planVars, Executing
<1>5. ASSUME NEW s \in Ident, StartWorker(s)
      PROVE  [Execution!Next]_<<Phase, plan, done>>
  BY <1>5, <1>k DEF StartWorker, planVars, Executing
<1>6. ASSUME NEW s \in Ident,
             WorkerAnswers(s) \/ WorkerUsesTools(s)
                 \/ WorkerRequestFails(s) \/ WorkerRaises(s)
      PROVE  [Execution!Next]_<<Phase, plan, done>>
  <2>1. pc = "running" /\ UNCHANGED <<pc, plan, done>>
    BY <1>6 DEF WorkerAnswers, WorkerUsesTools, WorkerRequestFails,
       WorkerRaises, WorkerFrame, planVars, ThreadInv
  <2>2. QED
    BY <2>1, <1>k DEF Executing
<1>7. CASE CollectFailure \/ CollectConflict
  <2>1. /\ pc' = "returned" /\ pc = "running" /\ UNCHANGED <<plan, done>>
    BY <1>7 DEF CollectFailure, CollectConflict, Return, CollectFrame, planVars
  <2>2. status' # "completed"
    <3>1. CASE CollectFailure
      <4>1. FirstInPlan(plan, InState(Failing)) \in InState(Failing)
        <5>1. /\ plan \in Seq(SubtaskSpec(Ident))
              /\ InState(Failing) \in SUBSET Ids(plan)
              /\ InState(Failing) # {}
          BY <3>1, PlanType
             DEF CollectFailure, SomeFailed, InState, TypeOK, Subtasks
        <5>2. QED
          BY <5>1, FirstInPlanIsMember
      <4>2. QED
        BY <3>1, <4>1 DEF CollectFailure, Return, InState, Failing
    <3>2. CASE CollectConflict
      BY <3>2 DEF CollectConflict, Return
    <3>3. QED
      BY <1>7, <3>1, <3>2
  <2>3. Execution!Stop
    BY <2>1, <2>2, <1>n, <1>s
  <2>4. QED
    BY <2>3 DEF Execution!Next
<1>8. CASE StartMerge
  BY <1>8, <1>k DEF StartMerge, CollectFrame, planVars, Executing
<1>9. CASE WritePath
  BY <1>9, <1>k DEF WritePath, planVars, Executing
<1>10. CASE FinishMerge
  <2>1. /\ Phase = "executing" /\ Phase' = "executing" /\ plan' = plan
        /\ done' = done \cup group
        /\ group \in (SUBSET Ready(plan, done)) \ {{}}
    BY <1>10, <1>p, <1>n DEF FinishMerge, planVars, PlanInv, Executing
  <2>2. Execution!FinishBatch
    BY <2>1, SamePlanOperators DEF Execution!FinishBatch
  <2>3. QED
    BY <2>2 DEF Execution!Next
<1>11. CASE Complete
  <2>1. /\ Phase = "executing" /\ Phase' = "completed"
        /\ done = Ids(plan) /\ UNCHANGED <<plan, done>>
    BY <1>11, <1>p, <1>n
       DEF Complete, Return, planVars, Executing, Subtasks
  <2>2. Execution!Succeed
    BY <2>1, SamePlanOperators DEF Execution!Succeed
  <2>3. QED
    BY <2>2 DEF Execution!Next
<1>12. CASE UNCHANGED vars
  BY <1>12 DEF vars, Phase
<1>13. QED
  BY <1>1, <1>2, <1>3, <1>4, <1>5, <1>6, <1>7, <1>8, <1>9, <1>10, <1>11,
     <1>12 DEF Next, Main, PlannerReturns, OwnStep, Worker, Terminated

(***************************************************************************)
(* ParallelAgent.run executes every plan in batches of ready subtasks: it  *)
(* starts, step by step goes on, and completes as PlanExecution says.      *)
(***************************************************************************)
THEOREM RunImplementsPlanExecution == Spec => ImplementsPlanExecution
<1>1. Init => Execution!Init
  BY DEF Init, Phase, Execution!Init
<1>2. Init => PlanInv
  BY DEF Init, PlanInv, Executing
<1>3. Spec => [](TypeOK /\ ThreadInv /\ PlanInv)
  BY <1>2, InitInv, TypePreserved, ThreadInvPreserved, PlanInvPreserved, PTL
     DEF Spec
<1>4. QED
  BY <1>1, <1>3, StepRefinesExecution, PTL
     DEF Spec, ImplementsPlanExecution, Execution!Spec, Execution!vars

-----------------------------------------------------------------------------
(***************************************************************************)
(* Every step takes each worker along a step of WorkerContract, or leaves  *)
(* it where it is.                                                         *)
(***************************************************************************)
LEMMA StepRefinesWorker ==
    ASSUME TypeOK, ThreadInv, [Next]_vars, NEW t \in Ident
    PROVE  [WorkerOf(t)!Next]_<<wstate[t], calls[t]>>
<1>m. ASSUME UNCHANGED <<wstate, calls>>
      PROVE  [WorkerOf(t)!Next]_<<wstate[t], calls[t]>>
  BY <1>m
<1>o. ASSUME NEW s \in Ident \ {t},
             StartWorker(s) \/ WorkerAnswers(s) \/ WorkerUsesTools(s)
                 \/ WorkerRequestFails(s) \/ WorkerRaises(s)
      PROVE  wstate'[t] = wstate[t] /\ calls'[t] = calls[t]
  BY <1>o DEF StartWorker, WorkerAnswers, WorkerUsesTools, WorkerRequestFails,
     WorkerRaises, EndWorker, TypeOK
<1>1. CASE BeginGroup
  <2>1. /\ pc = "grouping" /\ calls' = calls
        /\ wstate'[t] = "queued" \/ wstate'[t] = wstate[t]
        /\ t \in group' => t \notin done
        /\ wstate'[t] = "queued" /\ wstate[t] # "queued" => t \in group'
    BY <1>1 DEF BeginGroup, NextGroup, Ready, ReadyAmong, TypeOK
  <2>2. t \notin done => wstate[t] = "idle"
    BY <2>1 DEF ThreadInv
  <2>3. CASE wstate'[t] = wstate[t]
    BY <2>1, <2>3
  <2>4. CASE wstate'[t] # wstate[t]
    <3>1. WorkerOf(t)!Begin
      BY <2>1, <2>2, <2>4 DEF WorkerOf!Begin
    <3>2. QED
      BY <3>1 DEF WorkerOf!Next
  <2>5. QED
    BY <2>3, <2>4
<1>2. CASE StartWorker(t)
  <2>1. WorkerOf(t)!Begin
    BY <1>2 DEF StartWorker, InState, TypeOK, WorkerOf!Begin
  <2>2. QED
    BY <2>1 DEF WorkerOf!Next
<1>3. CASE WorkerAnswers(t)
  <2>1. WorkerOf(t)!Answer
    BY <1>3 DEF WorkerAnswers, EndWorker, Counted, TypeOK, ThreadInv,
       WorkerOf!Answer
  <2>2. QED
    BY <2>1 DEF WorkerOf!Next
<1>4. CASE WorkerUsesTools(t)
  <2>1. /\ wstate[t] = "running" /\ calls[t] < MaxSteps
        /\ calls'[t] = calls[t] + 1
    BY <1>4 DEF WorkerUsesTools, Counted, TypeOK, ThreadInv
  <2>2. PICK tree \in WorkerTree :
            IF AtLimit(Counted(calls[t]))
            THEN EndWorker(t, "max_steps", tree)
            ELSE UNCHANGED <<wstate, changes>>
    BY <1>4 DEF WorkerUsesTools
  <2>3. wstate'[t] = IF calls'[t] = MaxSteps THEN "max_steps" ELSE "running"
    BY <2>1, <2>2 DEF AtLimit, Counted, EndWorker, TypeOK
  <2>4. WorkerOf(t)!UseTools
    BY <2>1, <2>3 DEF WorkerOf!UseTools
  <2>5. QED
    BY <2>4 DEF WorkerOf!Next
<1>5. CASE WorkerRequestFails(t) \/ WorkerRaises(t)
  <2>1. WorkerOf(t)!Fail
    BY <1>5 DEF WorkerRequestFails, WorkerRaises, EndWorker, TypeOK, ThreadInv,
       WorkerOf!Fail
  <2>2. QED
    BY <2>1 DEF WorkerOf!Next
<1>6. CASE \/ PlanRequestFails \/ PlanRejected \/ PlanRaises \/ PlanAccepted
           \/ SetupRaises \/ WritePath \/ WriteRaises \/ FinishMerge \/ Complete
  BY <1>6, <1>m DEF PlanRequestFails, PlanRejected, PlanRaises, PlanAccepted,
     PlanningFrame, SetupRaises, WritePath, WriteRaises, FinishMerge, Complete,
     workerVars
<1>7. CASE CollectRaised \/ CollectFailure \/ CollectConflict \/ StartMerge
  BY <1>7, <1>m DEF CollectRaised, CollectFailure, CollectConflict, StartMerge,
     CollectFrame
<1>8. CASE UNCHANGED vars
  BY <1>8, <1>m DEF vars
<1>9. CASE \E s \in Ident : Worker(s)
  <2>1. PICK s \in Ident : Worker(s)
    BY <1>9
  <2>2. CASE s = t
    BY <2>1, <2>2, <1>2, <1>3, <1>4, <1>5 DEF Worker
  <2>3. CASE s # t
    BY <2>1, <2>3, <1>o DEF Worker
  <2>4. QED
    BY <2>2, <2>3
<1>10. QED
  BY <1>1, <1>6, <1>7, <1>8, <1>9
     DEF Next, Main, PlannerReturns, OwnStep, Terminated

(***************************************************************************)
(* Each worker of the pool behaves as WorkerContract says, however many    *)
(* others run beside it.                                                   *)
(***************************************************************************)
THEOREM WorkersImplementContract == Spec => ImplementsWorkerContract
<1>1. Init => \A s \in Ident : WorkerOf(s)!Init
  BY DEF Init, WorkerOf!Init
<1>2. TypeOK /\ ThreadInv /\ [Next]_vars =>
          [\A s \in Ident :
              [WorkerOf(s)!Next]_<<wstate[s], calls[s]>>]_vars
  BY StepRefinesWorker
<1>3. Spec => [](TypeOK /\ ThreadInv)
  BY TypeCorrect, ThreadsCorrect, PTL
<1>4. QED
  BY <1>1, <1>2, <1>3, PTL DEF Spec, ImplementsWorkerContract

-----------------------------------------------------------------------------
(***************************************************************************)
(* A subtask that failed is one of the current group, which is never       *)
(* merged; before there is a plan, nothing has failed.                     *)
(***************************************************************************)
FailureInv ==
    /\ \A s \in Ident : wstate[s] \in Failing =>
           s \in group /\ pc \in {"running", "returned", "raised"}
    /\ pc = "planning" => plan = << >>
    /\ StatusIsEarliestFailure

(***************************************************************************)
(* Every step keeps what is known of failures.                             *)
(***************************************************************************)
LEMMA FailureInvPreserved ==
    TypeOK /\ ThreadInv /\ FailureInv /\ [Next]_vars => FailureInv'
<1> SUFFICES ASSUME TypeOK, ThreadInv, FailureInv, [Next]_vars
             PROVE  FailureInv'
  OBVIOUS
<1>0. /\ plan \in Seq(SubtaskSpec(Ident)) /\ Ids(plan) \subseteq Ident
      /\ group \subseteq Ids(plan) /\ done \subseteq Ids(plan)
  BY PlanType DEF TypeOK, Subtasks
<1>n. \A s \in Ident : pc \in {"planning", "grouping", "merging"} =>
          wstate[s] \notin Failing
  BY DEF FailureInv
<1>k. ASSUME UNCHANGED <<wstate, group>>, pc' \notin {"planning", "returned"},
             \/ pc' \in {"running", "raised"}
             \/ \A s \in Ident : wstate[s] \notin Failing
      PROVE  FailureInv'
  BY <1>k DEF FailureInv, StatusIsEarliestFailure
<1>1. CASE PlanRequestFails \/ PlanRejected
  <2>1. /\ pc = "planning" /\ pc' = "returned" /\ plan = << >>
        /\ UNCHANGED <<plan, wstate, group>>
    BY <1>1 DEF PlanRequestFails, PlanRejected, Return, PlanningFrame,
       planVars, workerVars, FailureInv
  <2>2. Subtasks' = {}
    BY <2>1 DEF Subtasks, Ids
  <2>3. StatusIsEarliestFailure'
    BY <2>1, <2>2 DEF StatusIsEarliestFailure
  <2>4. QED
    BY <1>n, <2>1, <2>3 DEF FailureInv
<1>2. CASE PlanRaises \/ SetupRaises \/ CollectRaised \/ WriteRaises
  <2>1. pc' = "raised" /\ UNCHANGED <<wstate, group>>
    BY <1>2 DEF PlanRaises, SetupRaises, CollectRaised, WriteRaises, Raise,
       PlanningFrame, CollectFrame, workerVars
  <2>2. QED
    BY <2>1, <1>k
<1>3. CASE PlanAccepted
  BY <1>3, <1>n, <1>k DEF PlanAccepted, PlanningFrame, workerVars
<1>4. CASE BeginGroup
  <2>1. /\ pc = "grouping" /\ pc' = "running"
        /\ \A s \in Ident : wstate'[s] = "queued" \/ wstate'[s] = wstate[s]
    BY <1>4 DEF BeginGroup, TypeOK
  <2>2. \A s \in Ident : wstate'[s] \notin Failing
    BY <2>1, <1>n DEF Failing
  <2>3. QED
    BY <2>1, <2>2 DEF FailureInv, StatusIsEarliestFailure
<1>5. ASSUME NEW s \in Ident, Worker(s)
      PROVE  FailureInv'
  <2>1. /\ pc = "running" /\ pc' = pc /\ group' = group
        /\ s \in group
        /\ \A t \in Ident \ {s} : wstate'[t] = wstate[t]
    BY <1>5 DEF Worker, StartWorker, WorkerAnswers, WorkerUsesTools,
       WorkerRequestFails, WorkerRaises, WorkerFrame, EndWorker, InState,
       ThreadInv, TypeOK
  <2>2. QED
    BY <2>1 DEF FailureInv, StatusIsEarliestFailure
<1>6. CASE CollectFailure
  <2> DEFINE failed == {s \in Subtasks : wstate[s] \in Failing}
             first == FirstInPlan(plan, InState(Failing))
  <2>1. /\ pc = "running" /\ pc' = "returned" /\ status' = wstate[first]
        /\ InState(Failing) # {} /\ UNCHANGED <<plan, wstate, group, changes>>
    BY <1>6 DEF CollectFailure, SomeFailed, Return, CollectFrame, planVars
  <2>2. failed = InState(Failing)
    BY <1>0 DEF InState, Subtasks, FailureInv
  <2>3. first \in failed /\ \A t \in failed \ {first} : Precedes(plan, first, t)
    BY <1>0, <2>1, <2>2, FirstInPlanIsMember DEF InState
  <2>4. failed' = failed
    BY <2>1 DEF Subtasks
  <2> HIDE DEF failed, first
  <2>5. \E s \in failed' : /\ status' = wstate'[s]
                           /\ \A t \in failed' \ {s} : Precedes(plan', s, t)
    BY <2>1, <2>3, <2>4
  <2>6. StatusIsEarliestFailure'
    BY <2>5 DEF StatusIsEarliestFailure, failed
  <2>7. QED
    BY <2>1, <2>6 DEF FailureInv
<1>7. CASE CollectConflict
  <2>1. /\ pc = "running" /\ pc' = "returned" /\ Conflict(GroupChanges)
        /\ InState(Failing) = {} /\ UNCHANGED <<plan, wstate, group, changes>>
    BY <1>7 DEF CollectConflict, SomeFailed, Return, CollectFrame, planVars
  <2>2. \A s \in Ident : wstate[s] \notin Failing
    BY <2>1 DEF InState, FailureInv
  <2>3. Conflict(GroupChanges)'
    BY <2>1 DEF GroupChanges, Conflict
  <2>4. {s \in Subtasks : wstate[s] \in Failing}' = {}
    BY <1>0, <2>1, <2>2 DEF Subtasks
  <2>5. StatusIsEarliestFailure'
    BY <2>3, <2>4 DEF StatusIsEarliestFailure
  <2>6. QED
    BY <2>1, <2>2, <2>5 DEF FailureInv
<1>8. CASE StartMerge
  <2>1. /\ pc = "running" /\ pc' = "merging" /\ InState(Failing) = {}
        /\ UNCHANGED <<wstate, group>>
    BY <1>8 DEF StartMerge, SomeFailed, CollectFrame
  <2>2. QED
    BY <2>1, <1>k DEF InState, FailureInv
<1>9. CASE WritePath \/ FinishMerge
  <2>1. /\ pc = "merging" /\ pc' \in {"merging", "grouping"}
        /\ UNCHANGED <<wstate, group>>
    BY <1>9 DEF WritePath, FinishMerge, workerVars
  <2>2. QED
    BY <2>1, <1>n, <1>k
<1>10. CASE Complete
  <2>1. /\ pc = "grouping" /\ pc' = "returned" /\ status' = "completed"
        /\ UNCHANGED <<plan, wstate, group>>
    BY <1>10 DEF Complete, Return, planVars, workerVars
  <2>2. {s \in Subtasks : wstate[s] \in Failing}' = {}
    BY <1>0, <1>n, <2>1 DEF Subtasks
  <2>3. StatusIsEarliestFailure'
    BY <2>1, <2>2 DEF StatusIsEarliestFailure
  <2>4. QED
    BY <1>n, <2>1, <2>3 DEF FailureInv
<1>11. CASE UNCHANGED vars
  BY <1>11 DEF vars, FailureInv, StatusIsEarliestFailure, Subtasks,
     GroupChanges, Conflict
<1>12. QED
  BY <1>1, <1>2, <1>3, <1>4, <1>5, <1>6, <1>7, <1>8, <1>9, <1>10, <1>11
     DEF Next, Main, PlannerReturns, OwnStep, Terminated

(***************************************************************************)
(* A run that returns returns the status of the earliest subtask of the    *)
(* plan that did not complete, whichever failed first in time.             *)
(***************************************************************************)
THEOREM StatusIsOfEarliest == Spec => []StatusIsEarliestFailure
<1>1. Init => FailureInv
  BY DEF Init, FailureInv, StatusIsEarliestFailure, Failing
<1>2. Spec => [](TypeOK /\ ThreadInv)
  BY TypeCorrect, ThreadsCorrect, PTL
<1>3. FailureInv => StatusIsEarliestFailure
  BY DEF FailureInv
<1>4. QED
  BY <1>1, <1>2, <1>3, FailureInvPreserved, PTL DEF Spec

-----------------------------------------------------------------------------
(***************************************************************************)
(* The layers of the run: what is merged is a number of whole layers, all  *)
(* of whose subtasks completed, and a worker that did not complete is one  *)
(* of the layer after them.                                                *)
(***************************************************************************)
NotCompleted == Failing \cup {"raised"}

LayerInv ==
    /\ plan # << >> => ValidPlan(plan)
    /\ \E k \in Nat : done = CompletedBy(plan)[k]
    /\ \A s \in done : wstate[s] = "completed"
    /\ \A s \in Ident : wstate[s] \in NotCompleted =>
           /\ s \in group /\ group = Ready(plan, done)
           /\ pc \in {"running", "returned", "raised"}

(***************************************************************************)
(* Every step keeps the layers.                                            *)
(***************************************************************************)
LEMMA LayerInvPreserved ==
    TypeOK /\ ThreadInv /\ MergeInv /\ PlanInv /\ LayerInv /\ [Next]_vars
    => LayerInv'
<1> SUFFICES ASSUME TypeOK, ThreadInv, MergeInv, PlanInv, LayerInv, [Next]_vars
             PROVE  LayerInv'
  OBVIOUS
<1>0. group \subseteq Ident /\ done \subseteq Ident
  BY PlanType DEF TypeOK, Subtasks
<1>n. pc \notin {"running", "returned", "raised"} =>
          \A s \in Ident : wstate[s] \notin NotCompleted
  BY DEF LayerInv
<1>k. ASSUME UNCHANGED <<plan, done, group, wstate>>,
             \/ pc' \in {"running", "returned", "raised"}
             \/ \A s \in Ident : wstate[s] \notin NotCompleted
      PROVE  LayerInv'
  BY <1>k DEF LayerInv
<1>1. CASE \/ PlanRequestFails \/ PlanRejected \/ PlanRaises \/ SetupRaises
           \/ CollectRaised \/ CollectFailure \/ CollectConflict
           \/ WriteRaises \/ Complete
  <2>1. pc' \in {"returned", "raised"} /\ UNCHANGED <<plan, done, group, wstate>>
    BY <1>1 DEF PlanRequestFails, PlanRejected, PlanRaises, PlanningFrame,
       SetupRaises, CollectRaised, CollectFailure, CollectConflict,
       CollectFrame, WriteRaises, Complete, Return, Raise, planVars, workerVars
  <2>2. QED
    BY <2>1, <1>k
<1>2. CASE PlanAccepted
  <2>1. /\ ValidPlan(plan') /\ pc = "planning"
        /\ done' = {} /\ UNCHANGED <<wstate, group>>
    BY <1>2 DEF PlanAccepted, PlanningFrame, workerVars, ThreadInv
  <2>2. done' = CompletedBy(plan')[0]
    BY <2>1, LayersStep
  <2>3. QED
    BY <2>1, <2>2, <1>n DEF LayerInv
<1>3. CASE BeginGroup
  <2>1. /\ pc = "grouping" /\ pc' = "running"
        /\ group' = Ready(plan, done) /\ UNCHANGED <<plan, done>>
        /\ wstate' = [s \in Ident |->
                         IF s \in group' THEN "queued" ELSE wstate[s]]
    BY <1>3 DEF BeginGroup, NextGroup, planVars
  <2>2. \A s \in done : wstate'[s] = wstate[s]
    BY <1>0, <2>1 DEF Ready, ReadyAmong
  <2>3. \A s \in Ident : wstate'[s] \notin NotCompleted
    BY <1>n, <2>1 DEF NotCompleted, Failing
  <2>4. QED
    BY <2>1, <2>2, <2>3 DEF LayerInv
<1>4. ASSUME NEW s \in Ident, Worker(s) PROVE LayerInv'
  <2>1. /\ pc = "running" /\ UNCHANGED <<pc, plan, done, group>> /\ s \in group
        /\ \A t \in Ident \ {s} : wstate'[t] = wstate[t]
    BY <1>4 DEF Worker, StartWorker, WorkerAnswers, WorkerUsesTools,
       WorkerRequestFails, WorkerRaises, WorkerFrame, EndWorker, InState,
       ThreadInv, TypeOK, planVars
  <2>2. group = Ready(plan, done) /\ s \notin done
    BY <2>1 DEF PlanInv, Ready, ReadyAmong
  <2>3. \A t \in done : wstate'[t] = wstate[t]
    BY <1>0, <2>1, <2>2
  <2>4. QED
    BY <1>0, <2>1, <2>2, <2>3 DEF LayerInv
<1>5. CASE StartMerge
  <2>1. /\ InState({"raised"}) = {} /\ InState(Failing) = {}
        /\ UNCHANGED <<plan, done, group, wstate>>
    BY <1>5 DEF StartMerge, SomeFailed, CollectFrame, planVars
  <2>2. \A s \in Ident : wstate[s] \notin NotCompleted
    BY <2>1 DEF InState, NotCompleted, LayerInv
  <2>3. QED
    BY <2>1, <2>2, <1>k
<1>6. CASE WritePath
  <2>1. pc = "merging" /\ UNCHANGED <<plan, done, group, wstate>>
    BY <1>6 DEF WritePath, planVars, workerVars
  <2>2. QED
    BY <2>1, <1>n, <1>k
<1>7. CASE FinishMerge
  <2>1. /\ pc = "merging" /\ done' = done \cup group
        /\ UNCHANGED <<plan, group, wstate>>
    BY <1>7 DEF FinishMerge, planVars, workerVars
  <2>2. group = Ready(plan, done) /\ \A s \in group : wstate[s] = "completed"
    BY <2>1 DEF PlanInv, MergeInv, AllCompleted
  <2>3. PICK k \in Nat : done = CompletedBy(plan)[k]
    BY DEF LayerInv
  <2>4. done' = CompletedBy(plan)[k+1] /\ k + 1 \in Nat
    BY <2>1, <2>2, <2>3, LayersStep
  <2>5. \E j \in Nat : done' = CompletedBy(plan')[j]
    BY <2>1, <2>4
  <2>6. QED
    BY <2>1, <2>2, <2>5, <1>n DEF LayerInv
<1>8. CASE UNCHANGED vars
  BY <1>8 DEF vars, LayerInv
<1>9. QED
  BY <1>1, <1>2, <1>3, <1>4, <1>5, <1>6, <1>7, <1>8
     DEF Next, Main, PlannerReturns, OwnStep, Terminated

(***************************************************************************)
(* Threads, merge, plan and layers hold together throughout.               *)
(***************************************************************************)
LEMMA LayersCorrect ==
    Spec => [](TypeOK /\ ThreadInv /\ MergeInv /\ PlanInv /\ LayerInv)
<1>1. Init => MergeInv /\ PlanInv
  BY DEF Init, MergeInv, PlanInv, Executing
<1>2. Init => LayerInv
  <2>1. Init => done = CompletedBy(plan)[0]
    BY LayersStep DEF Init
  <2>2. QED
    BY <2>1 DEF Init, LayerInv, NotCompleted, Failing
<1>3. QED
  BY <1>1, <1>2, InitInv, TypePreserved, ThreadInvPreserved,
     MergeInvPreserved, PlanInvPreserved, LayerInvPreserved, PTL DEF Spec

(***************************************************************************)
(* The layers of a merged plan and of the group at work, as numbers.       *)
(***************************************************************************)
LEMMA LayersOfRun ==
    ASSUME TypeOK, LayerInv
    PROVE  \E k \in Nat :
               /\ \A s \in done : LayerOf(plan, s) \in Nat /\ LayerOf(plan, s) <= k
               /\ group = Ready(plan, done) =>
                      \A s \in group : LayerOf(plan, s) = k + 1
<1>1. CASE plan = << >>
  <2>1. done = {} /\ group = {}
    BY <1>1 DEF TypeOK, Subtasks, Ids
  <2>2. QED
    BY <2>1
<1>2. CASE plan # << >>
  <2>1. /\ ValidPlan(plan) /\ Len(plan) \in Nat /\ DOMAIN plan = 1..Len(plan)
        /\ done \subseteq Ids(plan)
    BY <1>2, PlanType DEF LayerInv, TypeOK, Subtasks
  <2>2. PICK k \in Nat : done = CompletedBy(plan)[k]
    BY DEF LayerInv
  <2>3. \A s \in done : LayerOf(plan, s) \in 1..Len(plan) /\ LayerOf(plan, s) <= k
    BY <2>1, <2>2, LayerIsPlace
  <2>4. ASSUME group = Ready(plan, done)
        PROVE  \A s \in group : LayerOf(plan, s) = k + 1
    BY <2>1, <2>2, <2>4, ReadyIsNextLayer
  <2>5. QED
    BY <2>3, <2>4
<1>3. QED
  BY <1>1, <1>2

(***************************************************************************)
(* Whatever the plan, the pool and the order in which workers end: when a  *)
(* subtask does not complete, no worker of a later layer has started or    *)
(* ever will.                                                              *)
(***************************************************************************)
THEOREM FailureStopsPlan == Spec => []FailureStopsLaterLayers
<1>1. ASSUME TypeOK, ThreadInv, LayerInv PROVE FailureStopsLaterLayers
  <2> SUFFICES ASSUME NEW s \in Subtasks, NEW t \in Subtasks,
                      wstate[s] \in NotCompleted,
                      LayerOf(plan, t) > LayerOf(plan, s),
                      wstate[t] # "idle"
               PROVE  FALSE
    BY DEF FailureStopsLaterLayers, NotCompleted
  <2>0. s \in Ident /\ t \in Ident
    BY <1>1, PlanType DEF TypeOK, Subtasks
  <2>1. s \in group /\ group = Ready(plan, done) /\ t \in done \cup group
    BY <1>1, <2>0 DEF LayerInv, ThreadInv
  <2>2. PICK k \in Nat :
            /\ \A d \in done : LayerOf(plan, d) \in Nat /\ LayerOf(plan, d) <= k
            /\ \A d \in group : LayerOf(plan, d) = k + 1
    BY <1>1, <2>1, LayersOfRun
  <2>3. LayerOf(plan, s) = k + 1 /\ LayerOf(plan, t) \in Nat /\ LayerOf(plan, t) <= k + 1
    BY <2>1, <2>2
  <2>4. QED
    BY <2>3
<1>2. QED
  BY <1>1, LayersCorrect, PTL

-----------------------------------------------------------------------------
(***************************************************************************)
(* The work of the merged layers: it shows in the workspace between two    *)
(* groups, and in the baseline of the group that runs or is merged.        *)
(***************************************************************************)
WorkInv ==
    /\ pc = "grouping" => \A d \in done : Shows(Capture(ws), d)
    /\ pc \in {"running", "merging"} => \A d \in done : Shows(baseline, d)
    /\ status = "completed" =>
           done = Subtasks /\ \A d \in done : Shows(Capture(ws), d)

(***************************************************************************)
(* The end of a merge: what older layers changed still shows, or the group *)
(* changed the path again; what the group changed shows.                   *)
(***************************************************************************)
LEMMA MergeShowsWork ==
    ASSUME TypeOK, ThreadInv, MergeInv, PlanInv, LayerInv, WorkInv, FinishMerge
    PROVE  \A d \in done' : Shows(Capture(ws), d)'
<1> DEFINE M == MergeOf(GroupChanges)
<1>1. /\ pc = "merging" /\ pending = {} /\ done' = done \cup group
      /\ UNCHANGED <<plan, changes, ws>>
  BY DEF FinishMerge, planVars, workerVars
<1>2. /\ ~Conflict(GroupChanges) /\ group = Ready(plan, done)
      /\ \A p \in Path : Capture(ws)[p] =
             IF p \in DOMAIN M THEN M[p] ELSE baseline[p]
      /\ \A d \in done : Shows(baseline, d)
  BY <1>1 DEF MergeInv, PlanInv, WorkInv, Merged
<1>3. PICK k \in Nat :
          /\ \A d \in done : LayerOf(plan, d) \in Nat /\ LayerOf(plan, d) <= k
          /\ \A s \in group : LayerOf(plan, s) = k + 1
  BY <1>2, LayersOfRun
<1>4. done \subseteq Ident /\ group \subseteq Ident
  BY PlanType DEF TypeOK, Subtasks
<1>5. /\ GroupChanges \in SUBSET ChangeSet
      /\ \A s \in Ident : DOMAIN changes[s] \subseteq Path
  BY <1>4, ChangeSetType DEF GroupChanges, TypeOK
<1>6. ASSUME NEW s \in group, NEW p \in DOMAIN changes[s]
      PROVE  Capture(ws)[p] = changes[s][p]
  <2>1. changes[s] \in GroupChanges
    BY DEF GroupChanges
  <2>2. p \in DOMAIN M /\ M[p] = changes[s][p]
    BY <1>2, <1>5, <2>1, MergeOfAgrees
  <2>3. p \in Path
    BY <1>4, <1>5
  <2>4. QED
    BY <1>2, <2>2, <2>3
<1>7. ASSUME NEW p \in DOMAIN M
      PROVE  \E s \in group : p \in DOMAIN changes[s]
  <2>1. DOMAIN M = UNION {DOMAIN c : c \in GroupChanges}
    BY <1>5, MergeOfType
  <2>2. QED
    BY <2>1 DEF GroupChanges
<1> HIDE DEF M
<1>8. Capture(ws)' = Capture(ws)
  BY <1>1 DEF Capture
<1>9. ASSUME NEW d \in done \cup group, NEW p \in DOMAIN changes[d]
      PROVE  \/ Capture(ws)[p] = changes[d][p]
             \/ \E t \in done' : /\ p \in DOMAIN changes[t]
                                 /\ LayerOf(plan, t) > LayerOf(plan, d)
  <2>0. p \in Path
    BY <1>4, <1>5
  <2>1. CASE d \in group
    BY <2>1, <1>6, <1>9
  <2>2. CASE d \in done /\ p \in DOMAIN M
    <3>1. PICK s \in group : p \in DOMAIN changes[s]
      BY <2>2, <1>7
    <3>2. LayerOf(plan, s) = k + 1 /\ LayerOf(plan, d) \in Nat /\ LayerOf(plan, d) <= k
      BY <2>2, <3>1, <1>3
    <3>3. LayerOf(plan, s) > LayerOf(plan, d) /\ s \in done'
      BY <3>2, <1>1
    <3>4. QED
      BY <3>1, <3>3
  <2>3. CASE d \in done /\ p \notin DOMAIN M
    <3>1. Capture(ws)[p] = baseline[p] /\ Shows(baseline, d)
      BY <2>0, <2>3, <1>2
    <3>2. QED
      BY <3>1, <1>1, <1>9 DEF Shows
  <2>4. QED
    BY <1>9, <2>1, <2>2, <2>3
<1>10. QED
  BY <1>1, <1>8, <1>9 DEF Shows

(***************************************************************************)
(* Every step keeps the work of the merged layers in sight.                *)
(***************************************************************************)
LEMMA WorkInvPreserved ==
    TypeOK /\ ThreadInv /\ MergeInv /\ PlanInv /\ LayerInv /\ WorkInv
    /\ [Next]_vars => WorkInv'
<1> SUFFICES ASSUME TypeOK, ThreadInv, MergeInv, PlanInv, LayerInv, WorkInv,
                    [Next]_vars
             PROVE  WorkInv'
  OBVIOUS
<1>0. group \subseteq Ident /\ done \subseteq Ident
  BY PlanType DEF TypeOK, Subtasks
<1>s. ASSUME pc' \in {"returned", "raised"}, status' # "completed" PROVE WorkInv'
  BY <1>s DEF WorkInv
<1>c. pc # "returned" => status # "completed"
  BY DEF PlanInv
<1>1. CASE PlanRequestFails \/ PlanRejected \/ CollectConflict
  BY <1>1, <1>s DEF PlanRequestFails, PlanRejected, CollectConflict, Return
<1>2. CASE PlanRaises \/ SetupRaises \/ CollectRaised \/ WriteRaises
  BY <1>2, <1>s, <1>c DEF PlanRaises, SetupRaises, CollectRaised, WriteRaises,
     Raise
<1>3. CASE CollectFailure
  <2>1. /\ plan \in Seq(SubtaskSpec(Ident))
        /\ InState(Failing) \in SUBSET Ids(plan) /\ InState(Failing) # {}
    BY <1>3, PlanType DEF CollectFailure, SomeFailed, InState, TypeOK, Subtasks
  <2>2. FirstInPlan(plan, InState(Failing)) \in InState(Failing)
    BY <2>1, FirstInPlanIsMember
  <2>3. pc' = "returned" /\ status' # "completed"
    BY <1>3, <2>2 DEF CollectFailure, Return, InState, Failing
  <2>4. QED
    BY <2>3, <1>s
<1>4. CASE PlanAccepted
  <2>1. pc = "planning" /\ done' = {} /\ pc' = "grouping" /\ status' = status
    BY <1>4 DEF PlanAccepted, PlanningFrame, ThreadInv
  <2>2. QED
    BY <2>1, <1>c DEF WorkInv
<1>5. CASE BeginGroup
  <2>1. /\ pc = "grouping" /\ pc' = "running" /\ baseline' = Capture(ws)
        /\ UNCHANGED <<plan, done, changes, status>>
    BY <1>5 DEF BeginGroup, planVars
  <2>2. \A d \in done : Shows(Capture(ws), d)
    BY <2>1 DEF WorkInv
  <2>3. \A d \in done : Shows(baseline, d)'
    BY <2>1, <2>2 DEF Shows
  <2>4. QED
    BY <2>1, <2>3, <1>c DEF WorkInv
<1>6. ASSUME NEW s \in Ident, Worker(s) PROVE WorkInv'
  <2>1. /\ pc = "running" /\ UNCHANGED <<pc, plan, done, baseline, status>>
        /\ s \in group
        /\ \A t \in Ident \ {s} : changes'[t] = changes[t]
    BY <1>6 DEF Worker, StartWorker, WorkerAnswers, WorkerUsesTools,
       WorkerRequestFails, WorkerRaises, WorkerFrame, EndWorker, InState,
       ThreadInv, TypeOK, planVars
  <2>2. s \notin done
    BY <2>1 DEF PlanInv, Ready, ReadyAmong
  <2>3. \A t \in done : changes'[t] = changes[t]
    BY <1>0, <2>1, <2>2
  <2>4. \A d \in done : Shows(baseline, d)
    BY <2>1 DEF WorkInv
  <2>5. \A d \in done : Shows(baseline, d)'
    BY <2>1, <2>3, <2>4 DEF Shows
  <2>6. QED
    BY <2>1, <2>5, <1>c DEF WorkInv
<1>7. CASE StartMerge \/ WritePath
  <2>1. /\ pc \in {"running", "merging"} /\ pc' = "merging"
        /\ UNCHANGED <<plan, done, baseline, changes, status>>
    BY <1>7 DEF StartMerge, CollectFrame, WritePath, planVars, workerVars
  <2>2. \A d \in done : Shows(baseline, d)
    BY <2>1 DEF WorkInv
  <2>3. \A d \in done : Shows(baseline, d)'
    BY <2>1, <2>2 DEF Shows
  <2>4. QED
    BY <2>1, <2>3, <1>c DEF WorkInv
<1>8. CASE FinishMerge
  <2>1. pc = "merging" /\ pc' = "grouping" /\ status' = status
    BY <1>8 DEF FinishMerge
  <2>2. \A d \in done' : Shows(Capture(ws), d)'
    BY <1>8, MergeShowsWork
  <2>3. QED
    BY <2>1, <2>2, <1>c DEF WorkInv
<1>9. CASE Complete \/ UNCHANGED vars
  <2>1. UNCHANGED <<plan, done, changes, ws, baseline>>
    BY <1>9 DEF Complete, vars, planVars, workerVars
  <2>2. /\ \A d \in done : Shows(Capture(ws), d)' <=> Shows(Capture(ws), d)
        /\ \A d \in done : Shows(baseline, d)' <=> Shows(baseline, d)
    BY <2>1 DEF Shows, Capture
  <2>3. CASE Complete
    <3>1. pc = "grouping" /\ pc' = "returned" /\ done = Subtasks
      BY <2>3 DEF Complete, Return
    <3>2. Subtasks' = Subtasks
      BY <2>1 DEF Subtasks
    <3>3. QED
      BY <2>1, <2>2, <3>1, <3>2 DEF WorkInv
  <2>4. CASE UNCHANGED vars
    <3>1. pc' = pc /\ status' = status /\ Subtasks' = Subtasks
      BY <2>4 DEF vars, Subtasks
    <3>2. QED
      BY <2>1, <2>2, <3>1 DEF WorkInv
  <2>5. QED
    BY <1>9, <2>3, <2>4
<1>10. QED
  BY <1>1, <1>2, <1>3, <1>4, <1>5, <1>6, <1>7, <1>8, <1>9
     DEF Next, Main, PlannerReturns, OwnStep, Terminated

(***************************************************************************)
(* The work of the merged layers is in sight throughout.                   *)
(***************************************************************************)
LEMMA WorkCorrect ==
    Spec => [](TypeOK /\ ThreadInv /\ PlanInv /\ LayerInv /\ WorkInv)
<1>1. Init => WorkInv
  BY DEF Init, WorkInv
<1>2. QED
  BY <1>1, LayersCorrect, WorkInvPreserved, PTL DEF Spec

(***************************************************************************)
(* For every plan and every interleaving: the prerequisites of a subtask   *)
(* are merged before its clone is made, and their changes show in it.      *)
(***************************************************************************)
THEOREM PrerequisitesAreSeen == Spec => []WorkersSeePrerequisites
<1>1. PlanInv /\ WorkInv => WorkersSeePrerequisites
  BY DEF PlanInv, WorkInv, WorkersSeePrerequisites, Ready, ReadyAmong
<1>2. QED
  BY <1>1, WorkCorrect, PTL

(***************************************************************************)
(* A run reported as completed lost no work of any subtask, whatever the   *)
(* plan, the files and the number of layers.                               *)
(***************************************************************************)
THEOREM NoWorkIsLost == Spec => []CompletedRunKeepsAllWork
<1>1. LayerInv /\ WorkInv => CompletedRunKeepsAllWork
  BY DEF LayerInv, WorkInv, CompletedRunKeepsAllWork
<1>2. QED
  BY <1>1, WorkCorrect, PTL

-----------------------------------------------------------------------------
(***************************************************************************)
(* What a run has still before it, counted so that every step takes        *)
(* something away: phases of the main thread; for each worker, being       *)
(* submitted, being started, its end and its model calls; for each subtask *)
(* not merged, the beginning and the end of its merge and a write of each  *)
(* path.                                                                   *)
(***************************************************************************)
PhasesAhead ==
    CASE pc = "planning" -> {"plan", "execute"}
      [] Executing -> {"execute"}
      [] OTHER -> {}

Transitions == {"submit", "start", "end"}

TransitionsOf(state) ==
    CASE state = "idle" -> Transitions
      [] state = "queued" -> {"start", "end"}
      [] state = "running" -> {"end"}
      [] OTHER -> {}

WorkersAhead ==
    {w \in Ident \X Transitions : w[2] \in TransitionsOf(wstate[w[1]])}

CallsAhead == {c \in Ident \X (1..MaxSteps) : c[2] > calls[c[1]]}

Unmerged == IF pc \in {"returned", "raised"} THEN {} ELSE Ident \ done

Merging == IF pc = "merging" THEN group ELSE {}

WritesAhead ==
    {w \in Unmerged \X Path : w[1] \in Merging => w[2] \in pending}

StepsAhead ==
    Cardinality(PhasesAhead) + Cardinality(WorkersAhead)
    + Cardinality(CallsAhead) + Cardinality(Unmerged \ Merging)
    + Cardinality(WritesAhead) + Cardinality(Unmerged)

MostSteps == 2 + Cardinality(Ident) * (5 + MaxSteps + Cardinality(Path))

(***************************************************************************)
(* Nothing comes back.                                                     *)
(***************************************************************************)
NothingComesBack ==
    /\ PhasesAhead' \subseteq PhasesAhead
    /\ WorkersAhead' \subseteq WorkersAhead
    /\ CallsAhead' \subseteq CallsAhead
    /\ Unmerged' \subseteq Unmerged
    /\ (Unmerged \ Merging)' \subseteq Unmerged \ Merging
    /\ WritesAhead' \subseteq WritesAhead

SomethingIsDone ==
    \/ PhasesAhead' # PhasesAhead
    \/ WorkersAhead' # WorkersAhead
    \/ CallsAhead' # CallsAhead
    \/ Unmerged' # Unmerged
    \/ (Unmerged \ Merging)' # Unmerged \ Merging
    \/ WritesAhead' # WritesAhead

(***************************************************************************)
(* All of it is finite.                                                    *)
(***************************************************************************)
LEMMA AheadIsFinite ==
    /\ IsFiniteSet(PhasesAhead) /\ Cardinality(PhasesAhead) \in 0..2
    /\ IsFiniteSet(WorkersAhead)
    /\ Cardinality(WorkersAhead) \in 0..(Cardinality(Ident) * 3)
    /\ IsFiniteSet(CallsAhead)
    /\ Cardinality(CallsAhead) \in 0..(Cardinality(Ident) * MaxSteps)
    /\ IsFiniteSet(Unmerged) /\ Cardinality(Unmerged) \in 0..Cardinality(Ident)
    /\ IsFiniteSet(Unmerged \ Merging)
    /\ Cardinality(Unmerged \ Merging) \in 0..Cardinality(Ident)
    /\ IsFiniteSet(WritesAhead)
    /\ Cardinality(WritesAhead) \in 0..(Cardinality(Ident) * Cardinality(Path))
<1>0. /\ IsFiniteSet(Ident) /\ Cardinality(Ident) \in Nat
      /\ IsFiniteSet(Path) /\ Cardinality(Path) \in Nat /\ MaxSteps \in Nat
  BY AgentAssumption, PathAssumption, FS_CardinalityType
<1>1. ASSUME NEW S, IsFiniteSet(S), NEW T \in SUBSET S
      PROVE  IsFiniteSet(T) /\ Cardinality(T) \in 0..Cardinality(S)
  BY <1>1, FS_Subset, FewerLeft
<1>2. IsFiniteSet(PhasesAhead) /\ Cardinality(PhasesAhead) \in 0..2
  <2>1. IsFiniteSet({"plan", "execute"}) /\ Cardinality({"plan", "execute"}) = 2
    <3>1. IsFiniteSet({"plan"}) /\ Cardinality({"plan"}) = 1
      BY FS_Singleton
    <3>2. {"plan", "execute"} = {"plan"} \cup {"execute"}
      OBVIOUS
    <3>3. QED
      BY <3>1, <3>2, FS_AddElement
  <2>2. PhasesAhead \in SUBSET {"plan", "execute"}
    BY DEF PhasesAhead
  <2>3. QED
    BY <1>1, <2>1, <2>2
<1>3. /\ IsFiniteSet(WorkersAhead)
      /\ Cardinality(WorkersAhead) \in 0..(Cardinality(Ident) * 3)
  <2>1. IsFiniteSet(Transitions) /\ Cardinality(Transitions) = 3
    <3>1. IsFiniteSet({"submit"}) /\ Cardinality({"submit"}) = 1
      BY FS_Singleton
    <3>2. /\ IsFiniteSet({"submit"} \cup {"start"})
          /\ Cardinality({"submit"} \cup {"start"}) = 2
      BY <3>1, FS_AddElement
    <3>3. /\ "end" \notin {"submit"} \cup {"start"}
          /\ Transitions = ({"submit"} \cup {"start"}) \cup {"end"}
      BY DEF Transitions
    <3>4. QED
      BY <3>2, <3>3, FS_AddElement
  <2>2. /\ IsFiniteSet(Ident \X Transitions)
        /\ Cardinality(Ident \X Transitions) = Cardinality(Ident) * 3
    BY <1>0, <2>1, FS_Product
  <2>3. WorkersAhead \in SUBSET (Ident \X Transitions)
    BY DEF WorkersAhead
  <2>4. QED
    BY <1>1, <2>2, <2>3
<1>4. /\ IsFiniteSet(CallsAhead)
      /\ Cardinality(CallsAhead) \in 0..(Cardinality(Ident) * MaxSteps)
  <2>1. IsFiniteSet(1..MaxSteps) /\ Cardinality(1..MaxSteps) = MaxSteps
    <3>1. 1 \in Int /\ MaxSteps \in Int
      BY <1>0
    <3>2. /\ IsFiniteSet(1..MaxSteps)
          /\ Cardinality(1..MaxSteps) =
                 IF 1 > MaxSteps THEN 0 ELSE MaxSteps - 1 + 1
      BY ONLY <3>1, FS_Interval
    <3>3. QED
      BY <1>0, <3>2
  <2>2. /\ IsFiniteSet(Ident \X (1..MaxSteps))
        /\ Cardinality(Ident \X (1..MaxSteps)) = Cardinality(Ident) * MaxSteps
    BY <1>0, <2>1, FS_Product
  <2>3. CallsAhead \in SUBSET (Ident \X (1..MaxSteps))
    BY DEF CallsAhead
  <2>4. QED
    BY <1>1, <2>2, <2>3
<1>5. Unmerged \in SUBSET Ident /\ Unmerged \ Merging \in SUBSET Ident
  BY DEF Unmerged
<1>6. /\ IsFiniteSet(WritesAhead)
      /\ Cardinality(WritesAhead) \in 0..(Cardinality(Ident) * Cardinality(Path))
  <2>1. /\ IsFiniteSet(Ident \X Path)
        /\ Cardinality(Ident \X Path) = Cardinality(Ident) * Cardinality(Path)
    BY <1>0, FS_Product
  <2>2. WritesAhead \in SUBSET (Ident \X Path)
    BY <1>5 DEF WritesAhead
  <2>3. QED
    BY <1>1, <2>1, <2>2
<1>7. QED
  BY <1>0, <1>1, <1>2, <1>3, <1>4, <1>5, <1>6

(***************************************************************************)
(* So a step that takes something away leaves fewer steps.                 *)
(***************************************************************************)
LEMMA FewerSteps ==
    ASSUME NothingComesBack, SomethingIsDone
    PROVE  StepsAhead' < StepsAhead
<1>1. ASSUME NEW S, IsFiniteSet(S), NEW T \in SUBSET S
      PROVE  /\ Cardinality(T) \in Nat /\ Cardinality(S) \in Nat
             /\ Cardinality(T) <= Cardinality(S)
             /\ T # S => Cardinality(T) < Cardinality(S)
  BY <1>1, FewerLeft
<1>2. /\ Cardinality(PhasesAhead') \in Nat /\ Cardinality(PhasesAhead) \in Nat
      /\ Cardinality(PhasesAhead') <= Cardinality(PhasesAhead)
      /\ PhasesAhead' # PhasesAhead
             => Cardinality(PhasesAhead') < Cardinality(PhasesAhead)
  BY <1>1, AheadIsFinite DEF NothingComesBack
<1>3. /\ Cardinality(WorkersAhead') \in Nat /\ Cardinality(WorkersAhead) \in Nat
      /\ Cardinality(WorkersAhead') <= Cardinality(WorkersAhead)
      /\ WorkersAhead' # WorkersAhead
             => Cardinality(WorkersAhead') < Cardinality(WorkersAhead)
  BY <1>1, AheadIsFinite DEF NothingComesBack
<1>4. /\ Cardinality(CallsAhead') \in Nat /\ Cardinality(CallsAhead) \in Nat
      /\ Cardinality(CallsAhead') <= Cardinality(CallsAhead)
      /\ CallsAhead' # CallsAhead
             => Cardinality(CallsAhead') < Cardinality(CallsAhead)
  BY <1>1, AheadIsFinite DEF NothingComesBack
<1>5. /\ Cardinality(Unmerged') \in Nat /\ Cardinality(Unmerged) \in Nat
      /\ Cardinality(Unmerged') <= Cardinality(Unmerged)
      /\ Unmerged' # Unmerged => Cardinality(Unmerged') < Cardinality(Unmerged)
  BY <1>1, AheadIsFinite DEF NothingComesBack
<1> DEFINE begins == Unmerged \ Merging
<1>6. /\ Cardinality(begins') \in Nat /\ Cardinality(begins) \in Nat
      /\ Cardinality(begins') <= Cardinality(begins)
      /\ begins' # begins => Cardinality(begins') < Cardinality(begins)
  BY <1>1, AheadIsFinite DEF NothingComesBack
<1>7. /\ Cardinality(WritesAhead') \in Nat /\ Cardinality(WritesAhead) \in Nat
      /\ Cardinality(WritesAhead') <= Cardinality(WritesAhead)
      /\ WritesAhead' # WritesAhead
             => Cardinality(WritesAhead') < Cardinality(WritesAhead)
  BY <1>1, AheadIsFinite DEF NothingComesBack
<1>8. \/ PhasesAhead' # PhasesAhead \/ WorkersAhead' # WorkersAhead
      \/ CallsAhead' # CallsAhead \/ Unmerged' # Unmerged
      \/ begins' # begins \/ WritesAhead' # WritesAhead
  BY DEF SomethingIsDone
<1>9. /\ StepsAhead = Cardinality(PhasesAhead) + Cardinality(WorkersAhead)
             + Cardinality(CallsAhead) + Cardinality(begins)
             + Cardinality(WritesAhead) + Cardinality(Unmerged)
      /\ StepsAhead' = Cardinality(PhasesAhead') + Cardinality(WorkersAhead')
             + Cardinality(CallsAhead') + Cardinality(begins')
             + Cardinality(WritesAhead') + Cardinality(Unmerged')
  BY DEF StepsAhead
<1> HIDE DEF begins
<1>10. QED
  BY <1>2, <1>3, <1>4, <1>5, <1>6, <1>7, <1>8, <1>9

(***************************************************************************)
(* A run that stops has nothing before it any more.                        *)
(***************************************************************************)
LEMMA StopIsProgress ==
    ASSUME pc \in {"planning", "grouping", "running", "merging"},
           pc' \in {"returned", "raised"}, UNCHANGED <<wstate, calls>>
    PROVE  NothingComesBack /\ SomethingIsDone
<1>1. PhasesAhead' = {} /\ PhasesAhead # {}
  BY DEF PhasesAhead, Executing
<1>2. Unmerged' = {} /\ WritesAhead' = {}
  BY DEF Unmerged, WritesAhead
<1>3. WorkersAhead' = WorkersAhead /\ CallsAhead' = CallsAhead
  BY DEF WorkersAhead, CallsAhead
<1>4. QED
  BY <1>1, <1>2, <1>3 DEF NothingComesBack, SomethingIsDone

(***************************************************************************)
(* The step of a worker takes a transition or a call away.                 *)
(***************************************************************************)
LEMMA WorkerProgress ==
    ASSUME TypeOK, ThreadInv, NEW s \in Ident, Worker(s)
    PROVE  NothingComesBack /\ SomethingIsDone
<1>1. UNCHANGED <<pc, done, group, pending>>
  BY DEF Worker, StartWorker, WorkerAnswers, WorkerUsesTools,
     WorkerRequestFails, WorkerRaises, WorkerFrame, planVars
<1>2. /\ PhasesAhead' = PhasesAhead /\ Unmerged' = Unmerged
      /\ Merging' = Merging /\ WritesAhead' = WritesAhead
  BY <1>1 DEF PhasesAhead, Executing, Unmerged, Merging, WritesAhead
<1>3. /\ wstate \in [Ident -> {"idle", "queued", "running"} \cup Ended]
      /\ calls \in [Ident -> 0..MaxSteps] /\ MaxSteps \in Nat
  BY AgentAssumption DEF TypeOK
<1>4. CASE StartWorker(s)
  <2>1. /\ wstate[s] = "queued" /\ wstate' = [wstate EXCEPT ![s] = "running"]
        /\ calls' = calls
    BY <1>4 DEF StartWorker, InState
  <2>2. WorkersAhead' \subseteq WorkersAhead
    BY <1>3, <2>1 DEF WorkersAhead, TransitionsOf
  <2>3. <<s, "start">> \in WorkersAhead /\ <<s, "start">> \notin WorkersAhead'
    BY <1>3, <2>1 DEF WorkersAhead, TransitionsOf, Transitions
  <2>4. CallsAhead' = CallsAhead
    BY <2>1 DEF CallsAhead
  <2>5. QED
    BY <1>2, <2>2, <2>3, <2>4 DEF NothingComesBack, SomethingIsDone
<1>5. ASSUME wstate[s] = "running",
             \E result \in Ended : wstate' = [wstate EXCEPT ![s] = result]
      PROVE  WorkersAhead' \subseteq WorkersAhead /\ WorkersAhead' # WorkersAhead
  <2>1. PICK result \in Ended : wstate' = [wstate EXCEPT ![s] = result]
    BY <1>5
  <2>2. WorkersAhead' \subseteq WorkersAhead
    BY <1>3, <1>5, <2>1 DEF WorkersAhead, TransitionsOf, Ended, Failing
  <2>3. <<s, "end">> \in WorkersAhead /\ <<s, "end">> \notin WorkersAhead'
    BY <1>3, <1>5, <2>1
       DEF WorkersAhead, TransitionsOf, Transitions, Ended, Failing
  <2>4. QED
    BY <2>2, <2>3
<1>6. ASSUME wstate[s] = "running",
             calls' = [calls EXCEPT ![s] = Counted(@)]
      PROVE  CallsAhead' \subseteq CallsAhead /\ CallsAhead' # CallsAhead
  <2>1. /\ calls' = [calls EXCEPT ![s] = calls[s] + 1]
        /\ calls[s] \in Nat /\ calls[s] < MaxSteps
    BY <1>3, <1>6 DEF Counted, ThreadInv
  <2>2. CallsAhead' \subseteq CallsAhead
    BY <1>3, <2>1 DEF CallsAhead
  <2>3. /\ <<s, calls[s] + 1>> \in CallsAhead
        /\ <<s, calls[s] + 1>> \notin CallsAhead'
    BY <1>3, <2>1 DEF CallsAhead
  <2>4. QED
    BY <2>2, <2>3
<1>7. CASE WorkerAnswers(s)
  <2>1. WorkersAhead' \subseteq WorkersAhead
    BY <1>5, <1>7 DEF WorkerAnswers, EndWorker, Ended
  <2>2. CallsAhead' \subseteq CallsAhead /\ CallsAhead' # CallsAhead
    BY <1>6, <1>7 DEF WorkerAnswers
  <2>3. QED
    BY <1>2, <2>1, <2>2 DEF NothingComesBack, SomethingIsDone
<1>8. CASE WorkerUsesTools(s)
  <2>1. CallsAhead' \subseteq CallsAhead /\ CallsAhead' # CallsAhead
    BY <1>6, <1>8 DEF WorkerUsesTools
  <2>2. WorkersAhead' \subseteq WorkersAhead
    <3>1. \/ wstate' = [wstate EXCEPT ![s] = "max_steps"]
          \/ wstate' = wstate
      BY <1>8 DEF WorkerUsesTools, EndWorker
    <3>2. CASE wstate' = [wstate EXCEPT ![s] = "max_steps"]
      BY <1>5, <1>8, <3>2 DEF WorkerUsesTools, Ended, Failing
    <3>3. CASE wstate' = wstate
      BY <3>3 DEF WorkersAhead
    <3>4. QED
      BY <3>1, <3>2, <3>3
  <2>3. QED
    BY <1>2, <2>1, <2>2 DEF NothingComesBack, SomethingIsDone
<1>9. CASE WorkerRequestFails(s) \/ WorkerRaises(s)
  <2>1. WorkersAhead' \subseteq WorkersAhead /\ WorkersAhead' # WorkersAhead
    BY <1>5, <1>9
       DEF WorkerRequestFails, WorkerRaises, EndWorker, Ended, Failing
  <2>2. calls' = calls
    BY <1>9 DEF WorkerRequestFails, WorkerRaises
  <2>3. CallsAhead' = CallsAhead
    BY <2>2 DEF CallsAhead
  <2>4. QED
    BY <1>2, <2>1, <2>3 DEF NothingComesBack, SomethingIsDone
<1>10. QED
  BY <1>4, <1>7, <1>8, <1>9 DEF Worker

(***************************************************************************)
(* The main thread takes a phase, the submission of a group or a part of   *)
(* its merge away.                                                         *)
(***************************************************************************)
LEMMA MainProgress ==
    ASSUME TypeOK, ThreadInv, PlanInv, Main
    PROVE  NothingComesBack /\ SomethingIsDone
<1>0. group \subseteq Ident /\ done \subseteq Ident
  BY PlanType DEF TypeOK, Subtasks
<1>1. CASE \/ PlanRequestFails \/ PlanRejected \/ PlanRaises \/ SetupRaises
           \/ CollectRaised \/ CollectFailure \/ CollectConflict
           \/ WriteRaises \/ Complete
  <2>1. /\ pc \in {"planning", "grouping", "running", "merging"}
        /\ pc' \in {"returned", "raised"} /\ UNCHANGED <<wstate, calls>>
    BY <1>1 DEF PlanRequestFails, PlanRejected, PlanRaises, SetupRaises,
       CollectRaised, CollectFailure, CollectConflict, WriteRaises, Complete,
       Return, Raise, PlanningFrame, CollectFrame, workerVars
  <2>2. QED
    BY <2>1, StopIsProgress
<1>2. CASE PlanAccepted
  <2>1. /\ pc = "planning" /\ pc' = "grouping"
        /\ UNCHANGED <<done, wstate, calls, pending>>
    BY <1>2 DEF PlanAccepted, PlanningFrame, workerVars
  <2>2. PhasesAhead = {"plan", "execute"} /\ PhasesAhead' = {"execute"}
    BY <2>1 DEF PhasesAhead, Executing
  <2>3. /\ Unmerged' = Unmerged /\ Merging = {} /\ Merging' = {}
        /\ WorkersAhead' = WorkersAhead /\ CallsAhead' = CallsAhead
    BY <2>1 DEF Unmerged, Merging, WorkersAhead, CallsAhead
  <2>4. WritesAhead' = WritesAhead
    BY <2>3 DEF WritesAhead
  <2>5. QED
    BY <2>2, <2>3, <2>4 DEF NothingComesBack, SomethingIsDone
<1>3. CASE BeginGroup
  <2>1. /\ pc = "grouping" /\ pc' = "running" /\ group' = Ready(plan, done)
        /\ plan' = plan /\ done' = done
        /\ wstate' = [s \in Ident |-> IF s \in group' THEN "queued"
                                                      ELSE wstate[s]]
        /\ UNCHANGED <<done, calls, pending>>
    BY <1>3 DEF BeginGroup, NextGroup, planVars
  <2>2. group' \subseteq Subtasks \ done /\ group' # {}
    <3>1. group' \subseteq Subtasks \ done
      BY <2>1 DEF Ready, ReadyAmong, Subtasks
    <3>2. PlanInv'
      BY <1>3, PlanInvPreserved DEF Next, Main, PlannerReturns, OwnStep
    <3>3. QED
      BY <2>1, <3>1, <3>2 DEF PlanInv
  <2>3. group' \subseteq Ident
    BY <2>2, PlanType DEF TypeOK, Subtasks
  <2>4. \A s \in group' : wstate[s] = "idle"
    BY <2>1, <2>2, <2>3 DEF ThreadInv
  <2>5. WorkersAhead' \subseteq WorkersAhead
    BY <2>1, <2>3, <2>4 DEF WorkersAhead, TransitionsOf, Transitions
  <2>6. WorkersAhead' # WorkersAhead
    <3>1. PICK s \in group' : TRUE
      BY <2>2
    <3>2. s \in Ident /\ wstate[s] = "idle" /\ wstate'[s] = "queued"
      BY <2>1, <2>3, <2>4, <3>1
    <3>3. <<s, "submit">> \in WorkersAhead /\ <<s, "submit">> \notin WorkersAhead'
      BY <3>2 DEF WorkersAhead, TransitionsOf, Transitions
    <3>4. QED
      BY <3>3
  <2>7. /\ PhasesAhead' = PhasesAhead /\ Unmerged' = Unmerged
        /\ Merging = {} /\ Merging' = {} /\ CallsAhead' = CallsAhead
    BY <2>1 DEF PhasesAhead, Executing, Unmerged, Merging, CallsAhead
  <2>8. WritesAhead' = WritesAhead
    BY <2>7 DEF WritesAhead
  <2>9. QED
    BY <2>5, <2>6, <2>7, <2>8 DEF NothingComesBack, SomethingIsDone
<1>4. ASSUME pc \in {"running", "merging"} PROVE \E s \in group : s \in Unmerged
  <2>1. group = Ready(plan, done) /\ group # {}
    BY <1>4 DEF PlanInv
  <2>2. group \subseteq Ident \ done
    BY <1>0, <2>1 DEF Ready, ReadyAmong
  <2>3. QED
    BY <1>4, <2>1, <2>2 DEF Unmerged
<1>5. ASSUME UNCHANGED <<wstate, calls>>, Executing, Executing'
      PROVE  /\ PhasesAhead' = PhasesAhead
             /\ WorkersAhead' = WorkersAhead /\ CallsAhead' = CallsAhead
  BY <1>5 DEF PhasesAhead, WorkersAhead, CallsAhead, Executing
<1>6. CASE StartMerge
  <2>1. /\ pc = "running" /\ pc' = "merging"
        /\ UNCHANGED <<done, group, wstate, calls>>
    BY <1>6 DEF StartMerge, CollectFrame
  <2>2. /\ Unmerged' = Unmerged /\ Merging = {} /\ Merging' = group
        /\ Executing /\ Executing'
    BY <2>1 DEF Unmerged, Merging, Executing
  <2>3. WritesAhead' \subseteq WritesAhead
    BY <2>2 DEF WritesAhead
  <2>4. PICK s \in group : s \in Unmerged
    BY <1>4, <2>1
  <2>5. (Unmerged \ Merging)' # Unmerged \ Merging
    BY <2>2, <2>4
  <2>6. QED
    BY <1>5, <2>1, <2>2, <2>3, <2>5 DEF NothingComesBack, SomethingIsDone
<1>7. CASE WritePath
  <2>1. /\ pc = "merging" /\ pc' = "merging" /\ pending # {}
        /\ pending' = pending \ {FirstPath(pending)}
        /\ UNCHANGED <<done, group, wstate, calls>>
    BY <1>7 DEF WritePath, workerVars
  <2>2. FirstPath(pending) \in pending /\ pending \subseteq Path
    BY <2>1, FirstPathIsPending DEF TypeOK
  <2>3. /\ Unmerged' = Unmerged /\ Merging = group /\ Merging' = group
        /\ Executing /\ Executing'
    BY <2>1 DEF Unmerged, Merging, Executing
  <2>4. WritesAhead' \subseteq WritesAhead
    BY <2>1, <2>3 DEF WritesAhead
  <2>5. PICK s \in group : s \in Unmerged
    BY <1>4, <2>1
  <2>6. /\ <<s, FirstPath(pending)>> \in WritesAhead
        /\ <<s, FirstPath(pending)>> \notin WritesAhead'
    BY <2>1, <2>2, <2>3, <2>5 DEF WritesAhead
  <2>7. QED
    BY <1>5, <2>1, <2>3, <2>4, <2>6 DEF NothingComesBack, SomethingIsDone
<1>8. CASE FinishMerge
  <2>1. /\ pc = "merging" /\ pc' = "grouping" /\ done' = done \cup group
        /\ UNCHANGED <<group, wstate, calls, pending>>
    BY <1>8 DEF FinishMerge, workerVars
  <2>2. /\ Unmerged' = Unmerged \ group /\ Merging = group /\ Merging' = {}
        /\ Executing /\ Executing'
    BY <2>1 DEF Unmerged, Merging, Executing
  <2>3. WritesAhead' \subseteq WritesAhead
    BY <2>2 DEF WritesAhead
  <2>4. Unmerged' # Unmerged
    BY <1>4, <2>1, <2>2
  <2>5. QED
    BY <1>5, <2>1, <2>2, <2>3, <2>4 DEF NothingComesBack, SomethingIsDone
<1>9. QED
  BY <1>1, <1>2, <1>3, <1>6, <1>7, <1>8 DEF Main, PlannerReturns, OwnStep

(***************************************************************************)
(* The safety half of RunTerminates: no step of the run, of the main       *)
(* thread or of a worker, leaves as many steps before it as there were,    *)
(* and how many there can be is known from the number of subtasks, the     *)
(* limit of the workers and the number of paths.                           *)
(***************************************************************************)
THEOREM RunIsBounded ==
    Spec => [](StepsAhead \in 0..MostSteps) /\ [][StepsAhead' < StepsAhead]_vars
<1>1. StepsAhead \in 0..MostSteps
  <2>1. /\ Cardinality(Ident) \in Nat /\ Cardinality(Path) \in Nat
        /\ MaxSteps \in Nat
    BY AgentAssumption, PathAssumption, FS_CardinalityType
  <2>2. ASSUME NEW n \in Nat, NEW k \in Nat, NEW m \in Nat
        PROVE  /\ 2 + n * (5 + k + m) = 2 + n * 3 + n * k + n + n * m + n
               /\ n * 3 \in Nat /\ n * k \in Nat /\ n * m \in Nat
    OBVIOUS
  <2> DEFINE n == Cardinality(Ident)
             m == Cardinality(Path)
  <2>3. /\ MostSteps = 2 + n * 3 + n * MaxSteps + n + n * m + n
        /\ n * 3 \in Nat /\ n * MaxSteps \in Nat /\ n * m \in Nat /\ n \in Nat
    BY <2>1, <2>2 DEF MostSteps
  <2>4. /\ Cardinality(PhasesAhead) \in 0..2
        /\ Cardinality(WorkersAhead) \in 0..(n * 3)
        /\ Cardinality(CallsAhead) \in 0..(n * MaxSteps)
        /\ Cardinality(Unmerged) \in 0..n
        /\ Cardinality(Unmerged \ Merging) \in 0..n
        /\ Cardinality(WritesAhead) \in 0..(n * m)
    BY AheadIsFinite
  <2> HIDE DEF n, m
  <2> DEFINE a == n * 3
             b == n * MaxSteps
             c == n * m
  <2>5. /\ a \in Nat /\ b \in Nat /\ c \in Nat /\ n \in Nat
        /\ MostSteps = 2 + a + b + n + c + n
        /\ Cardinality(WorkersAhead) \in 0..a
        /\ Cardinality(CallsAhead) \in 0..b
        /\ Cardinality(WritesAhead) \in 0..c
    BY <2>3, <2>4
  <2> HIDE DEF a, b, c
  <2>6. QED
    BY <2>4, <2>5 DEF StepsAhead
<1>2. TypeOK /\ ThreadInv /\ PlanInv /\ [Next]_vars
          => [StepsAhead' < StepsAhead]_vars
  <2>1. ASSUME TypeOK, ThreadInv, PlanInv, Next, ~UNCHANGED vars
        PROVE  NothingComesBack /\ SomethingIsDone
    BY <2>1, MainProgress, WorkerProgress DEF Next, Terminated
  <2>2. QED
    BY <2>1, FewerSteps
<1>3. Spec => [](TypeOK /\ ThreadInv /\ PlanInv)
  <2>1. Init => PlanInv
    BY DEF Init, PlanInv, Executing
  <2>2. QED
    BY <2>1, TypeCorrect, ThreadsCorrect, PlanInvPreserved, PTL DEF Spec
<1>4. QED
  BY <1>1, <1>2, <1>3, PTL DEF Spec

(***************************************************************************)
(* While the pool is open the main thread can collect the group, or a      *)
(* worker is running, or there is room for the first one queued: the       *)
(* workers that wait never wait for one another.                           *)
(***************************************************************************)
PoolMoves ==
    pc = "running" =>
        \/ GroupEnded
        \/ InState({"running"}) # {}
        \/ \E s \in InState({"queued"}) :
               /\ s = FirstInPlan(plan, InState({"queued"}))
               /\ Cardinality(InState({"running"})) < Parallelism

(***************************************************************************)
(* The whole group has been submitted.                                     *)
(***************************************************************************)
SubmittedInv == pc = "running" => \A s \in group : wstate[s] # "idle"

(***************************************************************************)
(* Every step keeps the group submitted.                                   *)
(***************************************************************************)
LEMMA SubmittedPreserved ==
    TypeOK /\ ThreadInv /\ SubmittedInv /\ [Next]_vars => SubmittedInv'
<1> SUFFICES ASSUME TypeOK, ThreadInv, SubmittedInv, [Next]_vars, pc' = "running",
                    NEW s \in group'
             PROVE  wstate'[s] # "idle"
  BY DEF SubmittedInv
<1>1. wstate \in [Ident -> {"idle", "queued", "running"} \cup Ended]
  BY DEF TypeOK
<1>2. CASE BeginGroup
  <2>1. group' \subseteq Ident
    BY <1>2, PlanType
       DEF BeginGroup, NextGroup, Ready, ReadyAmong, TypeOK, Subtasks
  <2>2. QED
    BY <1>2, <2>1 DEF BeginGroup
<1>3. ASSUME NEW t \in Ident, Worker(t) PROVE wstate'[s] # "idle"
  <2>1. /\ group' = group /\ pc = "running"
        /\ \/ wstate' = wstate
           \/ \E result \in Ended \cup {"running"} :
                  wstate' = [wstate EXCEPT ![t] = result]
    BY <1>3 DEF Worker, StartWorker, WorkerAnswers, WorkerUsesTools,
       WorkerRequestFails, WorkerRaises, EndWorker, WorkerFrame, Ended,
       Failing, ThreadInv
  <2>2. s \in Ident /\ wstate[s] # "idle"
    BY <2>1, PlanType DEF SubmittedInv, TypeOK, Subtasks
  <2>3. QED
    BY <1>1, <2>1, <2>2 DEF Ended, Failing
<1>4. CASE UNCHANGED vars
  BY <1>4 DEF vars, SubmittedInv
<1>5. QED
  BY <1>2, <1>3, <1>4 DEF Next, Main, PlannerReturns, OwnStep, Terminated,
     PlanRequestFails,
     PlanRejected, PlanRaises, PlanAccepted, SetupRaises, CollectRaised,
     CollectFailure, CollectConflict, StartMerge, WritePath, WriteRaises,
     FinishMerge, Complete, Return, Raise

(***************************************************************************)
(* The other half: the pool never stalls.                                  *)
(***************************************************************************)
THEOREM PoolNeverStalls == Spec => []PoolMoves
<1>1. Init => SubmittedInv
  BY DEF Init, SubmittedInv
<1>2. TypeOK /\ SubmittedInv => PoolMoves
  <2> SUFFICES ASSUME TypeOK, SubmittedInv, pc = "running", ~GroupEnded,
                      InState({"running"}) = {}
               PROVE  \E s \in InState({"queued"}) :
                          /\ s = FirstInPlan(plan, InState({"queued"}))
                          /\ Cardinality(InState({"running"})) < Parallelism
    BY DEF PoolMoves
  <2>1. group \subseteq Ids(plan) /\ Ids(plan) \subseteq Ident
        /\ plan \in Seq(SubtaskSpec(Ident))
    BY PlanType DEF TypeOK, Subtasks
  <2>2. PICK t \in group : wstate[t] \notin Ended
    BY DEF GroupEnded, InState
  <2>3. t \in InState({"queued"})
    BY <2>1, <2>2 DEF InState, SubmittedInv, TypeOK
  <2>4. FirstInPlan(plan, InState({"queued"})) \in InState({"queued"})
    BY <2>1, <2>3, FirstInPlanIsMember DEF InState
  <2>5. Cardinality(InState({"running"})) = 0
    BY FS_EmptySet
  <2>6. QED
    BY <2>4, <2>5, AgentAssumption
<1>3. QED
  BY <1>1, <1>2, TypeCorrect, ThreadsCorrect, SubmittedPreserved, PTL DEF Spec
=============================================================================
