------------------------ MODULE AgentWorkspaceProofs ------------------------
(***************************************************************************)
(* For any files, texts, processes and commands: when run has returned,    *)
(* its output is complete, and of a command that was timed out only        *)
(* processes are left that had moved to a session of their own; what the   *)
(* agent and its processes do in a workspace are steps of CommandRunner,   *)
(* so that these results carry over.  What replace_text prepares is the    *)
(* text it read with exactly the expected occurrences replaced, and the    *)
(* pages of read_file show a file whole.  The verification starts from the *)
(* task's own tests, unless a process is left that the runner had no hold  *)
(* on.                                                                     *)
(***************************************************************************)
EXTENDS AgentWorkspace, SequenceTheorems, FiniteSetTheorems,
        WellFoundedInduction, TLAPS

(***************************************************************************)
(* The inductive invariant.  A process cannot get back into the group of a *)
(* command, because it has the group of the one that made it, and commands *)
(* have different numbers; so who is not in the group of an expired        *)
(* command when that is killed, never will be.                             *)
(***************************************************************************)
HoldersRun == output \subseteq alive

NumbersAreUsed ==
    /\ phase # "idle" => command > 0
    /\ expired \subseteq 1..command
    /\ \A p \in alive : group[p] \in 0..command

ExpiredAreGone ==
    /\ phase = "waiting" => command \notin expired
    /\ \A p \in alive : group[p] \notin expired

IdleIsOver == phase = "idle" => CommandOver

RunnerInv ==
    TypeOK /\ HoldersRun /\ NumbersAreUsed /\ ExpiredAreGone /\ IdleIsOver

-----------------------------------------------------------------------------
(***************************************************************************)
(* No command, no process.                                                 *)
(***************************************************************************)
LEMMA InitialInv == Init => RunnerInv
BY CommandAssumption
   DEF Init, RunnerInv, TypeOK, HoldersRun, NumbersAreUsed, ExpiredAreGone,
       IdleIsOver, CommandOver, Own

(***************************************************************************)
(* What the processes do.                                                  *)
(***************************************************************************)
LEMMA ProcessStepKeepsInv ==
    ASSUME RunnerInv, ProcessStep
    PROVE  RunnerInv'
<1> USE CommandAssumption
        DEF RunnerInv, TypeOK, HoldersRun, NumbersAreUsed, ExpiredAreGone,
            IdleIsOver, CommandOver, Own, RunnerWaits
<1>1. ASSUME NEW p \in Process, NEW q \in Process, Fork(p, q)
      PROVE  RunnerInv'
  BY <1>1 DEF Fork
<1>2. ASSUME NEW p \in Process, LeaveGroup(p)
      PROVE  RunnerInv'
  BY <1>2 DEF LeaveGroup
<1>3. ASSUME NEW p \in Process, CloseOutput(p)
      PROVE  RunnerInv'
  BY <1>3 DEF CloseOutput
<1>4. ASSUME NEW p \in Process, Exit(p)
      PROVE  RunnerInv'
  BY <1>4 DEF Exit
<1> QED
  BY <1>1, <1>2, <1>3, <1>4 DEF ProcessStep

(***************************************************************************)
(* What run does.                                                          *)
(***************************************************************************)
LEMMA StartKeepsInv ==
    ASSUME RunnerInv, NEW p \in Process, Start(p)
    PROVE  RunnerInv'
BY CommandAssumption
   DEF RunnerInv, TypeOK, HoldersRun, NumbersAreUsed, ExpiredAreGone,
       IdleIsOver, Start

(***************************************************************************)
(* What run itself does: the end of a command, its time-out and the kill   *)
(* of its group.                                                           *)
(***************************************************************************)
LEMMA RunnerKeepsInv ==
    ASSUME RunnerInv, Runner
    PROVE  RunnerInv'
<1> USE CommandAssumption
        DEF RunnerInv, TypeOK, HoldersRun, NumbersAreUsed, ExpiredAreGone,
            IdleIsOver
<1>1. CASE Finish \/ Drain
  BY <1>1 DEF Finish, Drain, Return, CommandOver
<1>2. CASE TimeOut
  <2>1. command \in 1..command /\ command \in 1..MaxCommands
    BY <1>2 DEF TimeOut
  <2>2. \A p \in alive' : p \in alive /\ group[p] # command
    BY <1>2 DEF TimeOut, Killed
  <2>3. HoldersRun' /\ ExpiredAreGone'
    BY <1>2, <2>2 DEF TimeOut
  <2> QED
    BY <1>2, <2>1, <2>2, <2>3 DEF TimeOut
<1> QED
  BY <1>1, <1>2 DEF Runner

(***************************************************************************)
(* RunnerInv is an invariant, whatever the processes do.                   *)
(***************************************************************************)
THEOREM RunnerIsCorrect == Spec => []RunnerInv
<1>1. RunnerInv /\ [Next]_commandVars => RunnerInv'
  <2> SUFFICES ASSUME RunnerInv, [Next]_commandVars PROVE RunnerInv'
    OBVIOUS
  <2>1. CASE UNCHANGED commandVars
    BY <2>1
       DEF commandVars, RunnerInv, TypeOK, HoldersRun, NumbersAreUsed,
           ExpiredAreGone, IdleIsOver, CommandOver
  <2> QED
    BY <2>1, StartKeepsInv, ProcessStepKeepsInv, RunnerKeepsInv DEF Next
<1> QED
  BY <1>1, InitialInv, PTL DEF Spec

(***************************************************************************)
(* The variables of the runner and of its processes stay in their types.   *)
(***************************************************************************)
THEOREM TypeCorrect == Spec => []TypeOK
BY RunnerIsCorrect, PTL DEF RunnerInv

(***************************************************************************)
(* A command whose run has returned is over: nobody can add to the output  *)
(* it returned, and of a command that was timed out no process is left     *)
(* that had stayed in its group.                                           *)
(***************************************************************************)
THEOREM ReturnedIsOver == Spec => []ReturnedCommandIsOver
<1>1. RunnerInv => ReturnedCommandIsOver
  BY DEF RunnerInv, IdleIsOver, ExpiredAreGone, ReturnedCommandIsOver
<1> QED
  BY <1>1, RunnerIsCorrect, PTL

-----------------------------------------------------------------------------
(***************************************************************************)
(* _truncate keeps its limit if the marker fits into it, and otherwise     *)
(* returns the marker alone, which is then longer than the limit.          *)
(***************************************************************************)
THEOREM TruncationKeepsLimit ==
    ASSUME NEW n \in Nat
    PROVE  /\ MarkerLength <= MaxOutput => TruncatedLength(n) <= MaxOutput
           /\ n > MaxOutput /\ MaxOutput < MarkerLength =>
                  TruncatedLength(n) = MarkerLength
<1>1. KeptOfOutput \in Nat
  BY CommandAssumption DEF KeptOfOutput
<1>2. KeptAtBeginning + KeptAtEnd = KeptOfOutput
  BY <1>1 DEF KeptAtBeginning, KeptAtEnd
<1>3. KeptAtBeginning \in Nat /\ KeptAtEnd \in Nat
  BY <1>1 DEF KeptAtBeginning, KeptAtEnd
<1> QED
  BY <1>2, <1>3, CommandAssumption DEF TruncatedLength, KeptOfOutput

-----------------------------------------------------------------------------
(***************************************************************************)
(* Once the agent has ended no write is under way, and until the           *)
(* verification starts no command is either.                               *)
(***************************************************************************)
StageInv ==
    /\ stage # "agent" => tool = NoTool
    /\ stage \in {"restoring", "verifying"} => phase = "idle"

-----------------------------------------------------------------------------
(***************************************************************************)
(* Every step is one of CommandRunner or leaves its variables alone.       *)
(***************************************************************************)
LEMMA ToolsLeaveCommands ==
    ASSUME RepositoryTool \/ InvalidCall \/ RefuseCommand
    PROVE  UNCHANGED <<commandVars, stage, files, snapshot, restored>>
<1>1. CASE InvalidCall \/ RefuseCommand
  BY <1>1 DEF InvalidCall, RefuseCommand, Answer
<1>2. CASE RepositoryTool
  BY <1>2 DEF RepositoryTool, ListOrSearch, Read, RefuseWrite, RefuseReplace,
              BeginWrite, BeginReplace, Answer, Prepare
<1> QED
  BY <1>1, <1>2

(***************************************************************************)
(* The restore changes protected files, how far it has got, and the stage. *)
(***************************************************************************)
LEMMA RestoreLeaves ==
    ASSUME Restore
    PROVE  /\ stage = "restoring"
           /\ stage' \in {"restoring", "verifying", "raised"}
           /\ UNCHANGED <<commandVars, snapshot, tool>>
BY DEF Restore, RemovePath, OpenTarget, WriteTarget, RestoreStep,
       RestoreReturns, RestoreRaises

(***************************************************************************)
(* Every other step that touches a command is one of CommandRunner.        *)
(***************************************************************************)
LEMMA StepIsRunnerStep ==
    ASSUME [WorkspaceNext]_vars
    PROVE  [Next]_commandVars
<1>1. CASE ReplaceTarget \/ WriteFails \/ Restore \/ AgentEnds
  BY <1>1, RestoreLeaves DEF ReplaceTarget, WriteFails, AgentEnds
<1>2. CASE CommandAnswers \/ CommandTimesOut \/ Judge
  BY <1>2 DEF CommandAnswers, CommandTimesOut, Judge, Next, Runner
<1>3. CASE VerificationRaises
  BY <1>3 DEF VerificationRaises, Next, Runner
<1>4. ASSUME NEW p \in Process, BeginVerification(p) \/ RunCommand(p)
      PROVE  [Next]_commandVars
  BY <1>4 DEF BeginVerification, RunCommand, Next
<1>5. CASE Processes
  BY <1>5 DEF Processes, Next
<1>6. ASSUME NEW p \in Process, ProcessWrites(p)
      PROVE  [Next]_commandVars
  BY <1>6 DEF ProcessWrites
<1>7. CASE Terminated \/ UNCHANGED vars
  BY <1>7 DEF Terminated, vars
<1> QED
  BY <1>1, <1>2, <1>3, <1>4, <1>5, <1>6, <1>7, ToolsLeaveCommands
     DEF WorkspaceNext, Harness

(***************************************************************************)
(* A workspace with its tools implements CommandRunner.                    *)
(***************************************************************************)
THEOREM WorkspaceImplementsRunner == WorkspaceSpec => Spec
<1>1. WorkspaceInit => Init
  BY DEF WorkspaceInit
<1>2. [WorkspaceNext]_vars => [Next]_commandVars
  BY StepIsRunnerStep
<1> QED
  BY <1>1, <1>2, PTL DEF WorkspaceSpec, Spec

(***************************************************************************)
(* So a command that has returned to the agent, or to the verification, is *)
(* over, with those processes beside it that others have left behind.      *)
(***************************************************************************)
THEOREM ReturnedIsOverInWorkspace == WorkspaceSpec => []ReturnedCommandIsOver
BY WorkspaceImplementsRunner, ReturnedIsOver, PTL

-----------------------------------------------------------------------------
(***************************************************************************)
(* Every step keeps the order of the stages.                               *)
(***************************************************************************)
LEMMA StageStep ==
    ASSUME StageInv, [WorkspaceNext]_vars
    PROVE  StageInv'
<1> USE DEF StageInv
<1>1. CASE InvalidCall \/ RefuseCommand
  BY <1>1 DEF InvalidCall, RefuseCommand, Answer, commandVars
<1>2. CASE RepositoryTool
  <2>1. stage = "agent" /\ stage' = "agent"
    BY <1>2, ToolsLeaveCommands
       DEF RepositoryTool, ListOrSearch, Read, RefuseWrite, RefuseReplace,
           BeginWrite, BeginReplace, Dispatching
  <2> QED
    BY <2>1
<1>3. CASE ReplaceTarget \/ WriteFails
  BY <1>3 DEF ReplaceTarget, WriteFails, commandVars
<1>4. CASE Restore \/ AgentEnds
  BY <1>4, RestoreLeaves DEF AgentEnds, Dispatching, commandVars
<1>5. CASE CommandAnswers \/ CommandTimesOut
  BY <1>5 DEF CommandAnswers, CommandTimesOut, TimeOut, workspaceVars
<1>6. CASE Judge \/ VerificationRaises
  BY <1>6 DEF Judge, VerificationRaises
<1>7. ASSUME NEW p \in Process, BeginVerification(p) \/ RunCommand(p)
      PROVE  StageInv'
  BY <1>7 DEF BeginVerification, RunCommand, Dispatching
<1>8. CASE Processes
  BY <1>8 DEF Processes, ProcessStep, Fork, LeaveGroup, CloseOutput, Exit,
              RunnerWaits, workspaceVars
<1>9. ASSUME NEW p \in Process, ProcessWrites(p)
      PROVE  StageInv'
  BY <1>9 DEF ProcessWrites, commandVars
<1>10. CASE Terminated \/ UNCHANGED vars
  BY <1>10 DEF Terminated, vars, commandVars, workspaceVars
<1> QED
  BY <1>1, <1>2, <1>3, <1>4, <1>5, <1>6, <1>7, <1>8, <1>9, <1>10
     DEF WorkspaceNext, Harness

(***************************************************************************)
(* The restore starts when the agent has ended, writes what the snapshot   *)
(* has, and is through when the verification is next.                      *)
(***************************************************************************)
Through(f) == IF snapshot[f] = Missing THEN "removed" ELSE "written"

RestoreInv ==
    /\ restored \in
           [Protected -> {"untouched", "removed", "open", "written"}]
    /\ \A f \in Protected :
           restored[f] \in {"open", "written"} => snapshot[f] # Missing
    /\ stage = "agent" => \A f \in Protected : restored[f] = "untouched"
    /\ stage = "verifying" => \A f \in Protected : restored[f] = Through(f)

(***************************************************************************)
(* Whoever else takes a step leaves the restore where it is.               *)
(***************************************************************************)
LEMMA OthersLeaveRestore ==
    ASSUME [WorkspaceNext]_vars, ~Restore
    PROVE  /\ UNCHANGED <<snapshot, restored>>
           /\ stage' \in {stage, "restoring", "testing", "judged", "raised"}
<1>1. CASE ReplaceTarget \/ WriteFails \/ AgentEnds
  BY <1>1 DEF ReplaceTarget, WriteFails, AgentEnds
<1>2. CASE \/ CommandAnswers \/ CommandTimesOut \/ Judge
           \/ VerificationRaises \/ Processes
  BY <1>2 DEF CommandAnswers, CommandTimesOut, Judge, VerificationRaises,
              Processes, workspaceVars
<1>3. ASSUME NEW p \in Process,
             BeginVerification(p) \/ RunCommand(p) \/ ProcessWrites(p)
      PROVE  /\ UNCHANGED <<snapshot, restored>>
             /\ stage' \in {stage, "restoring", "testing", "judged", "raised"}
  BY <1>3 DEF BeginVerification, RunCommand, ProcessWrites
<1>4. CASE Terminated \/ UNCHANGED vars
  BY <1>4 DEF Terminated, vars, workspaceVars
<1> QED
  BY <1>1, <1>2, <1>3, <1>4, ToolsLeaveCommands DEF WorkspaceNext, Harness

LEMMA RestoreStepKeepsInv ==
    ASSUME RestoreInv, [WorkspaceNext]_vars
    PROVE  RestoreInv'
<1> USE DEF RestoreInv, Through
<1>1. CASE ~Restore
  BY <1>1, OthersLeaveRestore
<1>2. ASSUME NEW f \in Protected,
             RemovePath(f) \/ OpenTarget(f) \/ WriteTarget(f)
      PROVE  RestoreInv'
  BY <1>2 DEF RemovePath, OpenTarget, WriteTarget, RestoreStep
<1>3. CASE RestoreReturns
  BY <1>3 DEF RestoreReturns
<1>4. CASE RestoreRaises
  BY <1>4 DEF RestoreRaises
<1> QED
  BY <1>1, <1>2, <1>3, <1>4 DEF Restore

(***************************************************************************)
(* The restore keeps to its order.                                         *)
(***************************************************************************)
THEOREM RestoreIsKept == WorkspaceSpec => []RestoreInv
<1>1. WorkspaceInit => RestoreInv
  BY DEF WorkspaceInit, RestoreInv
<1> QED
  BY <1>1, RestoreStepKeepsInv, PTL DEF WorkspaceSpec

-----------------------------------------------------------------------------
(***************************************************************************)
(* Every non-empty set of natural numbers has a least one.                 *)
(***************************************************************************)
LEMMA LeastNat ==
    ASSUME NEW S \in SUBSET Nat, S # {}
    PROVE  \E n \in S : \A m \in S : n <= m
<1>1. PICK n \in S : \A m \in S : ~ (<<m, n>> \in OpToRel(<, Nat))
  BY Zenon, NatLessThanWellFounded, WFMin
<1>2. \A m \in S : ~ (m < n)
  BY <1>1 DEF OpToRel
<1> QED
  BY <1>2

(***************************************************************************)
(* A definition of a function from S to V in which step[x] makes the value *)
(* at x from the function, of which it uses the values of lower rank.      *)
(***************************************************************************)
Recursion(S, V, bound, rank, step) ==
    /\ bound \in Nat
    /\ V # {}
    /\ rank \in [S -> 0..bound]
    /\ step \in [S -> [[S -> V] -> V]]
    /\ \A x \in S : \A f, g \in [S -> V] :
           (\A y \in S : rank[y] < rank[x] => f[y] = g[y])
               => step[x][f] = step[x][g]

(***************************************************************************)
(* Such a definition is satisfied by a function.                           *)
(***************************************************************************)
LEMMA RecursionHasSolution ==
    ASSUME NEW S, NEW V, NEW B, NEW rank, NEW step,
           Recursion(S, V, B, rank, step)
    PROVE  \E f \in [S -> V] : \A x \in S : f[x] = step[x][f]
<1> DEFINE Solves(f, k) == \A x \in S : rank[x] < k => f[x] = step[x][f]
           unsolved == {k \in Nat : ~ \E f \in [S -> V] : Solves(f, k)}
<1>1. /\ B \in Nat /\ \A x \in S : rank[x] \in 0..B
      /\ step \in [S -> [[S -> V] -> V]]
  BY DEF Recursion
<1>v. PICK v \in V : TRUE
  BY DEF Recursion
<1>2. unsolved = {}
  <2> SUFFICES ASSUME unsolved # {} PROVE FALSE
    OBVIOUS
  <2>1. PICK k \in unsolved : \A j \in unsolved : k <= j
    <3>1. unsolved \in SUBSET Nat
      OBVIOUS
    <3> QED
      BY <3>1, LeastNat
  <2>2. k \in Nat /\ k # 0
    <3>1. [x \in S |-> v] \in [S -> V] /\ Solves([x \in S |-> v], 0)
      BY <1>1, <1>v
    <3> QED
      BY <2>1, <3>1
  <2>3. k - 1 \in Nat /\ k - 1 \notin unsolved
    <3> HIDE DEF unsolved
    <3>1. k - 1 \in Nat /\ ~(k <= k - 1)
      BY <2>2
    <3> QED
      BY <2>1, <3>1
  <2>4. PICK f \in [S -> V] : Solves(f, k - 1)
    BY <2>3
  <2> DEFINE g == [x \in S |-> step[x][f]]
  <2>5. g \in [S -> V]
    BY <1>1, <2>4
  <2>6. \A y \in S : rank[y] < k - 1 => g[y] = f[y]
    BY <2>4
  <2>7. ASSUME NEW x \in S, rank[x] < k
        PROVE  g[x] = step[x][g]
    <3>1. \A y \in S : rank[y] < rank[x] => f[y] = g[y]
      BY <1>1, <2>2, <2>6, <2>7
    <3>2. step[x][f] = step[x][g]
      BY <2>4, <2>5, <3>1 DEF Recursion
    <3> QED
      BY <3>2
  <2> QED
    BY <2>1, <2>5, <2>7
<1>3. B + 1 \in Nat /\ B + 1 \notin unsolved
  <2> HIDE DEF unsolved
  <2> QED
    BY <1>1, <1>2
<1>4. PICK f \in [S -> V] : Solves(f, B + 1)
  BY <1>3
<1> QED
  BY <1>1, <1>4

-----------------------------------------------------------------------------
(***************************************************************************)
(* StartsFrom satisfies its equation.                                      *)
(***************************************************************************)
LEMMA StartsRecurrence ==
    ASSUME NEW T, NEW text \in Seq(T), NEW old \in Seq(T), old # << >>,
           NEW i \in 1..(Len(text) + 1)
    PROVE  StartsFrom(text, old)[i] =
               IF i + Len(old) - 1 > Len(text) THEN << >>
               ELSE IF OccursAt(text, old, i)
               THEN <<i>> \o StartsFrom(text, old)[i + Len(old)]
               ELSE StartsFrom(text, old)[i + 1]
<1> DEFINE n == Len(text)
           m == Len(old)
           S == 1..(n + 1)
           V == Seq(Nat)
           Body(f, x) == IF x + m - 1 > n THEN << >>
                         ELSE IF OccursAt(text, old, x) THEN <<x>> \o f[x + m]
                         ELSE f[x + 1]
           rank == [x \in S |-> n + 1 - x]
           step == [x \in S |-> [f \in [S -> V] |-> Body(f, x)]]
<1>1. n \in Nat /\ m \in Nat /\ m >= 1
  BY EmptySeq, LenProperties
<1> HIDE DEF n, m
<1>2. rank \in [S -> 0..n] /\ << >> \in V
  BY <1>1
<1>3. \A x \in S : x \in Nat /\ (x + m - 1 <= n => x + m \in S /\ x + 1 \in S)
  BY <1>1
<1>4. ASSUME NEW x \in S, NEW f \in [S -> V]
      PROVE  Body(f, x) \in V
  <2>1. CASE x + m - 1 > n
    BY <2>1, <1>2
  <2>2. CASE ~(x + m - 1 > n)
    <3>1. f[x + m] \in V /\ f[x + 1] \in V /\ x \in Nat
      BY <1>1, <1>3, <2>2
    <3>2. <<x>> \o f[x + m] \in V
      BY <3>1, ConcatProperties
    <3> QED
      BY <2>2, <3>1, <3>2
  <2> QED
    BY <2>1, <2>2
<1>5. step \in [S -> [[S -> V] -> V]]
  BY <1>4
<1>6. ASSUME NEW x \in S, NEW f \in [S -> V], NEW g \in [S -> V],
             \A y \in S : rank[y] < rank[x] => f[y] = g[y]
      PROVE  step[x][f] = step[x][g]
  <2>1. \A y \in S : y > x => f[y] = g[y]
    BY <1>1, <1>6
  <2>2. ~(x + m - 1 > n) => f[x + m] = g[x + m] /\ f[x + 1] = g[x + 1]
    BY <1>1, <1>3, <2>1
  <2> QED
    BY <2>2
<1>7. Recursion(S, V, n, rank, step)
  <2> HIDE DEF rank, step, S, V
  <2>1. \A x \in S : \A f, g \in [S -> V] :
            (\A y \in S : rank[y] < rank[x] => f[y] = g[y])
                => step[x][f] = step[x][g]
    BY <1>6
  <2> QED
    BY <1>1, <1>2, <1>5, <2>1 DEF Recursion
<1>f. PICK f \in [S -> V] : \A x \in S : f[x] = step[x][f]
  <2> HIDE DEF rank, step, S, V
  <2> QED
    BY <1>7, RecursionHasSolution
<1>8. f = [x \in S |-> Body(f, x)]
  BY <1>f
<1> DEFINE F == StartsFrom(text, old)
<1>9. F = CHOOSE g : g = [x \in S |-> Body(g, x)]
  BY DEF StartsFrom, n, m
<1>10. F = [x \in S |-> Body(F, x)]
  <2> HIDE DEF S, Body, F
  <2> QED
    BY <1>8, <1>9
<1>11. F[i] = Body(F, i)
  <2>1. i \in S
    BY DEF n
  <2> HIDE DEF S, Body, F
  <2> QED
    BY <1>10, <2>1
<1> QED
  BY <1>11 DEF n, m

-----------------------------------------------------------------------------
(***************************************************************************)
(* What StartsFrom lists from position i on: occurrences that do not       *)
(* overlap, none of which is passed over, and as many as there can be.     *)
(***************************************************************************)
Listed(text, old, i) ==
    {StartsFrom(text, old)[i][k] : k \in 1..Len(StartsFrom(text, old)[i])}

ListsOccurrences(text, old, i) ==
    /\ StartsFrom(text, old)[i] \in Seq(Nat)
    /\ IsFiniteSet(Listed(text, old, i))
    /\ Cardinality(Listed(text, old, i)) = Len(StartsFrom(text, old)[i])
    /\ \A s \in Listed(text, old, i) :
           s \in i..Len(text) /\ OccursAt(text, old, s)
    /\ \A s, t \in Listed(text, old, i) : s < t => s + Len(old) <= t
    /\ \A j \in i..Len(text) : OccursAt(text, old, j) =>
           \/ j \in Listed(text, old, i)
           \/ \E s \in Listed(text, old, i) : s < j /\ j < s + Len(old)
    /\ \A S \in DisjointOccurrences(text, old) : S \subseteq i..Len(text) =>
           Cardinality(S) <= Len(StartsFrom(text, old)[i])

(***************************************************************************)
(* The range of a sequence with one element put before it.                 *)
(***************************************************************************)
LEMMA RangeOfPrefixed ==
    ASSUME NEW i \in Nat, NEW q \in Seq(Nat)
    PROVE  /\ <<i>> \o q \in Seq(Nat)
           /\ Len(<<i>> \o q) = Len(q) + 1
           /\ {(<<i>> \o q)[k] : k \in 1..Len(<<i>> \o q)}
                  = {i} \cup {q[k] : k \in 1..Len(q)}
<1> DEFINE p == <<i>> \o q
<1>1. Len(q) \in Nat
  BY LenProperties
<1>2. /\ p \in Seq(Nat) /\ Len(p) = 1 + Len(q)
      /\ \A k \in 1..(1 + Len(q)) : p[k] = IF k <= 1 THEN i ELSE q[k - 1]
  <2>1. <<i>> \in Seq(Nat) /\ Len(<<i>>) = 1 /\ <<i>>[1] = i
    OBVIOUS
  <2>2. /\ p \in Seq(Nat) /\ Len(p) = Len(<<i>>) + Len(q)
        /\ \A k \in 1..(Len(<<i>>) + Len(q)) :
               p[k] = IF k <= Len(<<i>>) THEN <<i>>[k] ELSE q[k - Len(<<i>>)]
    BY <2>1, ConcatProperties
  <2> HIDE DEF p
  <2> QED
    BY <1>1, <2>1, <2>2
<1> HIDE DEF p
<1>3. p[1] = i /\ \A k \in 1..Len(q) : p[k + 1] = q[k]
  BY <1>1, <1>2
<1>4. ASSUME NEW k \in 1..Len(p)
      PROVE  p[k] \in {i} \cup {q[l] : l \in 1..Len(q)}
  <2>1. k = 1 \/ k - 1 \in 1..Len(q)
    BY <1>1, <1>2
  <2>2. k - 1 \in 1..Len(q) => p[k] = q[k - 1]
    BY <1>1, <1>2
  <2> QED
    BY <1>3, <2>1, <2>2
<1>5. i \in {p[k] : k \in 1..Len(p)}
  BY <1>1, <1>2, <1>3
<1>6. ASSUME NEW k \in 1..Len(q)
      PROVE  q[k] \in {p[l] : l \in 1..Len(p)}
  <2>1. k + 1 \in 1..Len(p) /\ p[k + 1] = q[k]
    BY <1>1, <1>2, <1>3
  <2> QED
    BY <2>1
<1>7. {p[k] : k \in 1..Len(p)} = {i} \cup {q[k] : k \in 1..Len(q)}
  BY <1>4, <1>5, <1>6
<1>8. p \in Seq(Nat) /\ Len(p) = Len(q) + 1
  BY <1>1, <1>2
<1> QED
  BY <1>7, <1>8 DEF p

(***************************************************************************)
(* One step of the list: no room for an occurrence, an occurrence, or none *)
(* at this position.                                                       *)
(***************************************************************************)
LEMMA ListsOccurrencesStep ==
    ASSUME NEW T, NEW text \in Seq(T), NEW old \in Seq(T), old # << >>,
           NEW i \in 1..(Len(text) + 1),
           \A j \in (i + 1)..(Len(text) + 1) : ListsOccurrences(text, old, j)
    PROVE  ListsOccurrences(text, old, i)
<1> DEFINE n == Len(text)
           m == Len(old)
           F(j) == StartsFrom(text, old)[j]
           G(j) == Listed(text, old, j)
           occurs(j) == OccursAt(text, old, j)
           disjoint == DisjointOccurrences(text, old)
<1>1. n \in Nat /\ m \in Nat /\ m >= 1 /\ DOMAIN text = 1..n /\ i \in 1..(n + 1)
  BY EmptySeq, LenProperties
<1>2. \A j : occurs(j) => j + m - 1 <= n
  BY DEF OccursAt
<1>3. F(i) = IF i + m - 1 > n THEN << >>
             ELSE IF occurs(i) THEN <<i>> \o F(i + m) ELSE F(i + 1)
  BY StartsRecurrence
<1>4. \A j : G(j) = {F(j)[k] : k \in 1..Len(F(j))}
  BY DEF Listed
<1>5. \A S : S \in disjoint <=>
          /\ S \in SUBSET (1..n)
          /\ \A s \in S : occurs(s)
          /\ \A s, t \in S : s < t => s + m <= t
  BY <1>1 DEF DisjointOccurrences
<1>6. \A S \in SUBSET (1..n) : IsFiniteSet(S) /\ Cardinality(S) \in Nat
  <2>1. IsFiniteSet(1..n)
    BY <1>1, FS_Interval
  <2> QED
    BY <2>1, FS_Subset, FS_CardinalityType
<1>7. ListsOccurrences(text, old, i) <=>
          /\ F(i) \in Seq(Nat)
          /\ IsFiniteSet(G(i)) /\ Cardinality(G(i)) = Len(F(i))
          /\ \A s \in G(i) : s \in i..n /\ occurs(s)
          /\ \A s, t \in G(i) : s < t => s + m <= t
          /\ \A j \in i..n : occurs(j) =>
                 j \in G(i) \/ \E s \in G(i) : s < j /\ j < s + m
          /\ \A S \in disjoint : S \subseteq i..n => Cardinality(S) <= Len(F(i))
  BY DEF ListsOccurrences
<1>8. ASSUME NEW j \in (i + 1)..(n + 1)
      PROVE  /\ F(j) \in Seq(Nat)
             /\ IsFiniteSet(G(j)) /\ Cardinality(G(j)) = Len(F(j))
             /\ \A s \in G(j) : s \in j..n /\ occurs(s)
             /\ \A s, t \in G(j) : s < t => s + m <= t
             /\ \A k \in j..n : occurs(k) =>
                    k \in G(j) \/ \E s \in G(j) : s < k /\ k < s + m
             /\ \A S \in disjoint : S \subseteq j..n => Cardinality(S) <= Len(F(j))
  <2>1. ListsOccurrences(text, old, j)
    BY <1>8
  <2> QED
    BY <2>1 DEF ListsOccurrences
<1> HIDE DEF n, m, F, G, occurs, disjoint
<1>9. CASE i + m - 1 > n
  <2>1. F(i) = << >> /\ Len(F(i)) = 0 /\ F(i) \in Seq(Nat)
    BY <1>3, <1>9
  <2>2. G(i) = {}
    BY <1>4, <2>1
  <2>3. \A j \in i..n : ~occurs(j)
    BY <1>1, <1>2, <1>9
  <2>4. ASSUME NEW S \in disjoint, S \subseteq i..n PROVE Cardinality(S) <= 0
    <3>1. S = {}
      BY <1>5, <2>3, <2>4
    <3> QED
      BY <3>1, FS_EmptySet
  <2> QED
    BY <1>7, <2>1, <2>2, <2>3, <2>4, FS_EmptySet
<1>10. CASE ~(i + m - 1 > n) /\ occurs(i)
  <2> DEFINE j == i + m
  <2>1. j \in (i + 1)..(n + 1) /\ i \in Nat
    BY <1>1, <1>10
  <2>2. F(i) = <<i>> \o F(j)
    BY <1>3, <1>10
  <2>3. /\ F(i) \in Seq(Nat) /\ Len(F(i)) = Len(F(j)) + 1
        /\ G(i) = {i} \cup G(j)
    <3>1. F(j) \in Seq(Nat)
      BY <1>8, <2>1
    <3>2. /\ <<i>> \o F(j) \in Seq(Nat)
          /\ Len(<<i>> \o F(j)) = Len(F(j)) + 1
          /\ {(<<i>> \o F(j))[k] : k \in 1..Len(<<i>> \o F(j))}
                 = {i} \cup {F(j)[k] : k \in 1..Len(F(j))}
      BY <2>1, <3>1, RangeOfPrefixed
    <3> HIDE DEF j
    <3> QED
      BY <1>4, <2>2, <3>2
  <2>4. \A s \in G(j) : s \in j..n /\ s # i /\ occurs(s)
    BY <1>1, <1>8, <2>1
  <2>5. Len(F(j)) \in Nat
    BY <1>8, <2>1, LenProperties
  <2>6. IsFiniteSet(G(i)) /\ Cardinality(G(i)) = Len(F(i))
    <3>1. IsFiniteSet(G(j)) /\ Cardinality(G(j)) = Len(F(j)) /\ i \notin G(j)
      BY <1>8, <2>1, <2>4
    <3>2. IsFiniteSet(G(j) \cup {i})
          /\ Cardinality(G(j) \cup {i}) = Cardinality(G(j)) + 1
      BY <3>1, FS_AddElement
    <3>3. G(i) = G(j) \cup {i}
      BY <2>3
    <3> QED
      BY <2>3, <3>1, <3>2, <3>3
  <2>7. \A s \in G(i) : s \in i..n /\ occurs(s)
    BY <1>1, <1>10, <2>1, <2>3, <2>4
  <2>8. \A s, t \in G(i) : s < t => s + m <= t
    <3> SUFFICES ASSUME NEW s \in G(i), NEW t \in G(i), s < t PROVE s + m <= t
      OBVIOUS
    <3>1. CASE s = i
      BY <1>1, <2>1, <2>3, <2>4, <3>1
    <3>2. CASE s # i /\ t = i
      BY <1>1, <2>1, <2>3, <2>4, <3>2
    <3>3. CASE s \in G(j) /\ t \in G(j)
      BY <1>8, <2>1, <3>3
    <3> QED
      BY <2>3, <3>1, <3>2, <3>3
  <2>9. \A k \in i..n : occurs(k) =>
            k \in G(i) \/ \E s \in G(i) : s < k /\ k < s + m
    <3> SUFFICES ASSUME NEW k \in i..n, occurs(k)
                 PROVE  k \in G(i) \/ \E s \in G(i) : s < k /\ k < s + m
      OBVIOUS
    <3>1. CASE k \in j..n
      BY <1>8, <2>1, <2>3, <3>1
    <3>2. CASE k \notin j..n
      <4>1. k = i \/ (i < k /\ k < i + m)
        BY <1>1, <2>1, <3>2
      <4> QED
        BY <2>3, <4>1
    <3> QED
      BY <3>1, <3>2
  <2>10. ASSUME NEW S \in disjoint, S \subseteq i..n
         PROVE  Cardinality(S) <= Len(F(i))
    <3> DEFINE R == S \cap (j..n)
    <3>1. R \in disjoint /\ R \subseteq j..n /\ R \in SUBSET (1..n)
      BY <1>5, <2>10
    <3>2. Cardinality(R) <= Len(F(j)) /\ Cardinality(R) \in Nat /\ IsFiniteSet(R)
      BY <1>6, <1>8, <2>1, <3>1
    <3> HIDE DEF j
    <3>3. CASE S = R
      <4>1. Cardinality(S) = Cardinality(R)
        BY <3>3
      <4> HIDE DEF R
      <4> QED
        BY <2>3, <2>5, <3>2, <4>1
    <3>4. CASE S # R
      <4>1. PICK a \in S : a \notin j..n
        BY <3>4
      <4>2. a \in i..n /\ a < i + m /\ a \notin R
        BY <1>1, <2>1, <2>10, <4>1 DEF j
      <4>3. ASSUME NEW b \in S PROVE b \in R \cup {a}
        <5>1. b \in i..n /\ (a < b => a + m <= b) /\ (b < a => b + m <= a)
          BY <1>5, <2>10, <4>1, <4>3
        <5>2. b = a \/ b \in j..n
          BY <1>1, <2>1, <4>2, <5>1 DEF j
        <5> QED
          BY <4>3, <5>2
      <4>4. S = R \cup {a}
        BY <4>1, <4>3
      <4>5. Cardinality(R \cup {a}) = Cardinality(R) + 1
        BY <3>2, <4>2, FS_AddElement
      <4> HIDE DEF R
      <4> QED
        BY <2>3, <2>5, <3>2, <4>4, <4>5
    <3> QED
      BY <3>3, <3>4
  <2> QED
    BY <1>7, <2>3, <2>6, <2>7, <2>8, <2>9, <2>10
<1>11. CASE ~(i + m - 1 > n) /\ ~occurs(i)
  <2> DEFINE j == i + 1
  <2>1. j \in (i + 1)..(n + 1) /\ i \in Nat
    BY <1>1, <1>11
  <2>2. F(i) = F(j) /\ G(i) = G(j)
    BY <1>3, <1>4, <1>11
  <2>3. \A s \in G(j) : s \in i..n
    BY <1>1, <1>8, <2>1
  <2>4. \A k \in i..n : occurs(k) => k \in j..n
    BY <1>1, <1>11
  <2>5. ASSUME NEW S \in disjoint, S \subseteq i..n PROVE S \subseteq j..n
    BY <1>5, <2>4, <2>5
  <2> QED
    BY <1>7, <1>8, <2>1, <2>2, <2>3, <2>4, <2>5
<1> QED
  BY <1>9, <1>10, <1>11

(***************************************************************************)
(* So it is from every position on.                                        *)
(***************************************************************************)
LEMMA StartsAreOccurrences ==
    ASSUME NEW T, NEW text \in Seq(T), NEW old \in Seq(T), old # << >>,
           NEW i \in 1..(Len(text) + 1)
    PROVE  ListsOccurrences(text, old, i)
<1> DEFINE n == Len(text)
           wrong == {k \in 0..n : ~ListsOccurrences(text, old, n + 1 - k)}
<1>1. n \in Nat
  BY LenProperties
<1>2. wrong = {}
  <2> SUFFICES ASSUME wrong # {} PROVE FALSE
    OBVIOUS
  <2>1. wrong \in SUBSET Nat
    OBVIOUS
  <2>2. PICK k \in wrong : \A l \in wrong : k <= l
    BY <2>1, LeastNat
  <2>3. k \in 0..n /\ n + 1 - k \in 1..(n + 1)
    BY <1>1
  <2>4. ASSUME NEW j \in ((n + 1 - k) + 1)..(n + 1)
        PROVE  ListsOccurrences(text, old, j)
    <3>1. n + 1 - j \in 0..n /\ ~(k <= n + 1 - j) /\ n + 1 - (n + 1 - j) = j
      BY <1>1, <2>3
    <3>2. n + 1 - j \notin wrong
      BY <2>2, <3>1
    <3> QED
      BY <3>1, <3>2
  <2>5. ListsOccurrences(text, old, n + 1 - k)
    BY <2>3, <2>4, ListsOccurrencesStep
  <2> QED
    BY <2>2, <2>5
<1>3. n + 1 - i \in 0..n /\ n + 1 - (n + 1 - i) = i
  BY <1>1
<1> QED
  BY <1>2, <1>3

-----------------------------------------------------------------------------
(***************************************************************************)
(* FlattenSeq puts the sequences one after the other.                      *)
(***************************************************************************)
LEMMA Flattening ==
    ASSUME NEW T, NEW s \in Seq(Seq(T))
    PROVE  \E flat \in [0..Len(s) -> Seq(T)] :
               /\ flat[0] = << >>
               /\ \A i \in 1..Len(s) : flat[i] = flat[i - 1] \o s[i]
               /\ FlattenSeq(s) = flat[Len(s)]
<1> DEFINE n == Len(s)
           S == 1..n
           V == Seq(T)
           Body(f, i) == IF i = 1 THEN s[i] ELSE f[i - 1] \o s[i]
           rank == [i \in S |-> i]
           step == [i \in S |-> [f \in [S -> V] |-> Body(f, i)]]
<1>1. n \in Nat /\ << >> \in V /\ \A i \in S : s[i] \in V /\ i \in Nat
  BY LenProperties, ElementOfSeq, EmptySeq
<1>2. CASE n = 0
  <2>1. s = << >> /\ FlattenSeq(s) = s
    BY <1>2, EmptySeq DEF FlattenSeq
  <2> DEFINE flat == [i \in 0..n |-> << >>]
  <2>2. /\ flat \in [0..n -> V] /\ flat[0] = << >>
        /\ FlattenSeq(s) = flat[n] /\ 1..n = {}
    BY <1>1, <1>2, <2>1
  <2> HIDE DEF flat
  <2> QED
    BY <2>2
<1>3. CASE n # 0
  <2> HIDE DEF n, V
  <2>1. ASSUME NEW i \in S, i # 1 PROVE i - 1 \in S /\ i - 1 < i
    BY <1>1, <2>1
  <2>2. \A i \in S, f \in [S -> V] : Body(f, i) \in V
    BY <1>1, <2>1, ConcatProperties DEF V
  <2>3. step \in [S -> [[S -> V] -> V]] /\ rank \in [S -> 0..n]
    BY <1>1, <2>2
  <2>4. ASSUME NEW i \in S, NEW f \in [S -> V], NEW g \in [S -> V],
               \A j \in S : rank[j] < rank[i] => f[j] = g[j]
        PROVE  step[i][f] = step[i][g]
    BY <2>1, <2>4
  <2>5. Recursion(S, V, n, rank, step)
    <3> HIDE DEF rank, step, S
    <3>1. \A x \in S : \A f, g \in [S -> V] :
              (\A y \in S : rank[y] < rank[x] => f[y] = g[y])
                  => step[x][f] = step[x][g]
      BY <2>4
    <3> QED
      BY <1>1, <2>3, <3>1 DEF Recursion
  <2>6. PICK f \in [S -> V] : \A i \in S : f[i] = step[i][f]
    <3> HIDE DEF rank, step, S
    <3> QED
      BY <2>5, RecursionHasSolution
  <2>7. f = [i \in S |-> Body(f, i)]
    BY <2>6
  <2> DEFINE F == CHOOSE g : g = [i \in S |-> Body(g, i)]
  <2>8. F = [i \in S |-> Body(F, i)]
    <3> HIDE DEF S, Body
    <3> QED
      BY <2>7
  <2>9. FlattenSeq(s) = F[n]
    BY <1>3 DEF FlattenSeq, n
  <2> HIDE DEF F
  <2>10. \A i \in S : F[i] = Body(F, i)
    <3> HIDE DEF Body
    <3> QED
      BY <2>8
  <2> DEFINE untyped == {i \in S : F[i] \notin V}
  <2>11. untyped = {}
    <3> SUFFICES ASSUME untyped # {} PROVE FALSE
      OBVIOUS
    <3>1. untyped \in SUBSET Nat
      BY <1>1
    <3>2. PICK i \in untyped : \A j \in untyped : i <= j
      BY <3>1, LeastNat
    <3>3. CASE i = 1
      BY <1>1, <2>10, <3>2, <3>3
    <3>4. CASE i # 1
      <4>1. i - 1 \in S /\ i - 1 \notin untyped
        BY <1>1, <2>1, <3>2, <3>4
      <4>2. F[i - 1] \in V /\ s[i] \in V
        BY <1>1, <3>2, <4>1
      <4>3. F[i] = F[i - 1] \o s[i]
        BY <2>10, <3>2, <3>4
      <4>4. F[i] \in V
        BY <4>2, <4>3, ConcatProperties DEF V
      <4> QED
        BY <3>2, <4>4
    <3> QED
      BY <3>3, <3>4
  <2> DEFINE flat == [i \in 0..n |-> IF i = 0 THEN << >> ELSE F[i]]
  <2>12. flat \in [0..n -> V] /\ flat[0] = << >> /\ flat[n] = F[n]
    BY <1>1, <1>3, <2>11
  <2>13. ASSUME NEW i \in 1..n PROVE flat[i] = flat[i - 1] \o s[i]
    <3>1. CASE i = 1
      <4>1. flat[i] = s[i] /\ flat[i - 1] = << >>
        BY <1>1, <2>10, <3>1
      <4> QED
        BY <1>1, <4>1, ConcatEmptySeq DEF V
    <3>2. CASE i # 1
      <4>1. i \in 0..n /\ i - 1 \in 0..n /\ i # 0 /\ i - 1 # 0
        BY <1>1, <3>2
      <4>2. flat[i] = F[i] /\ flat[i - 1] = F[i - 1]
        BY <4>1
      <4> QED
        BY <2>10, <3>2, <4>2
    <3> QED
      BY <3>1, <3>2
  <2>14. FlattenSeq(s) = flat[n]
    BY <2>9, <2>12
  <2> HIDE DEF flat
  <2>15. \E g \in [0..n -> V] :
             /\ g[0] = << >>
             /\ \A i \in 1..n : g[i] = g[i - 1] \o s[i]
             /\ FlattenSeq(s) = g[n]
    BY <2>12, <2>13, <2>14
  <2> QED
    BY <2>15 DEF n, V
<1> QED
  BY <1>2, <1>3

-----------------------------------------------------------------------------
(***************************************************************************)
(* ReplaceFrom satisfies its equation.                                     *)
(***************************************************************************)
ReplacesFrom(text, old, new, count, i, left) ==
    ReplaceFrom(text, old, new, count)[i][left] =
        IF left = 0 \/ i + Len(old) - 1 > Len(text)
        THEN SubSeq(text, i, Len(text))
        ELSE IF OccursAt(text, old, i)
        THEN new \o ReplaceFrom(text, old, new, count)[i + Len(old)][left - 1]
        ELSE <<text[i]>> \o ReplaceFrom(text, old, new, count)[i + 1][left]

LEMMA ReplaceRecurrence ==
    ASSUME NEW T, NEW text \in Seq(T), NEW old \in Seq(T), old # << >>,
           NEW new \in Seq(T), NEW count \in Nat,
           NEW i \in 1..(Len(text) + 1), NEW left \in 0..count
    PROVE  ReplacesFrom(text, old, new, count, i, left)
<1> DEFINE n == Len(text)
           m == Len(old)
           S == 1..(n + 1)
           L == 0..count
           V == [L -> Seq(T)]
           Value(f, x, l) == IF l = 0 \/ x + m - 1 > n THEN SubSeq(text, x, n)
                             ELSE IF OccursAt(text, old, x)
                             THEN new \o f[x + m][l - 1]
                             ELSE <<text[x]>> \o f[x + 1][l]
           Body(f, x) == [l \in L |-> Value(f, x, l)]
           rank == [x \in S |-> n + 1 - x]
           step == [x \in S |-> [f \in [S -> V] |-> Body(f, x)]]
<1>1. n \in Nat /\ m \in Nat /\ m >= 1 /\ \A x \in 1..n : text[x] \in T
  BY EmptySeq, LenProperties, ElementOfSeq
<1> HIDE DEF n, m
<1>2. rank \in [S -> 0..n] /\ V # {}
  <2>1. [l \in L |-> << >>] \in V
    BY EmptySeq
  <2>2. rank \in [S -> 0..n]
    BY <1>1
  <2> HIDE DEF V, rank
  <2> QED
    BY <2>1, <2>2
<1>3. \A x \in S, l \in L : l # 0 /\ ~(x + m - 1 > n) =>
          /\ x \in 1..n /\ x + m \in S /\ x + 1 \in S /\ l - 1 \in L
          /\ x + m > x
  BY <1>1
<1>4. \A x \in S : SubSeq(text, x, n) \in Seq(T)
  BY <1>1, SubSeqProperties
<1>5. ASSUME NEW x \in S, NEW l \in L, NEW f \in [S -> V]
      PROVE  Value(f, x, l) \in Seq(T)
  <2>1. CASE l = 0 \/ x + m - 1 > n
    BY <1>4, <2>1
  <2>2. CASE ~(l = 0 \/ x + m - 1 > n)
    <3>1. /\ x + m \in S /\ x + 1 \in S /\ l - 1 \in L /\ l \in L
          /\ text[x] \in T
      BY <1>1, <1>3, <2>2
    <3> HIDE DEF S, L
    <3>2. /\ f[x + m][l - 1] \in Seq(T) /\ f[x + 1][l] \in Seq(T)
          /\ <<text[x]>> \in Seq(T)
      BY <3>1
    <3>3. /\ new \o f[x + m][l - 1] \in Seq(T)
          /\ <<text[x]>> \o f[x + 1][l] \in Seq(T)
      BY <3>2, ConcatProperties
    <3> QED
      BY <2>2, <3>3
  <2> QED
    BY <2>1, <2>2
<1>6. step \in [S -> [[S -> V] -> V]]
  <2>1. \A x \in S, f \in [S -> V] : Body(f, x) \in V
    <3> HIDE DEF Value
    <3> QED
      BY <1>5
  <2> HIDE DEF Body, S, V
  <2> QED
    BY <2>1
<1>7. ASSUME NEW x \in S, NEW f \in [S -> V], NEW g \in [S -> V],
             \A y \in S : rank[y] < rank[x] => f[y] = g[y]
      PROVE  step[x][f] = step[x][g]
  <2>1. \A y \in S : y > x => f[y] = g[y]
    BY <1>1, <1>7
  <2>2. ASSUME NEW l \in L PROVE Value(f, x, l) = Value(g, x, l)
    <3>1. ~(l = 0 \/ x + m - 1 > n) =>
              f[x + m] = g[x + m] /\ f[x + 1] = g[x + 1]
      BY <1>1, <1>3, <2>1
    <3> QED
      BY <3>1
  <2>3. Body(f, x) = Body(g, x)
    <3> HIDE DEF Value
    <3> QED
      BY <2>2
  <2> HIDE DEF Body
  <2> QED
    BY <2>3
<1>8. Recursion(S, V, n, rank, step)
  <2> HIDE DEF rank, step, S, V
  <2>1. \A x \in S : \A f, g \in [S -> V] :
            (\A y \in S : rank[y] < rank[x] => f[y] = g[y])
                => step[x][f] = step[x][g]
    BY <1>7
  <2> QED
    BY <1>1, <1>2, <1>6, <2>1 DEF Recursion
<1>9. PICK f \in [S -> V] : \A x \in S : f[x] = step[x][f]
  <2> HIDE DEF rank, step, S, V
  <2> QED
    BY <1>8, RecursionHasSolution
<1>10. f = [x \in S |-> Body(f, x)]
  <2> HIDE DEF Body, S, V
  <2> QED
    BY <1>9
<1> DEFINE F == ReplaceFrom(text, old, new, count)
<1>11. F = CHOOSE g : g = [x \in S |-> Body(g, x)]
  BY DEF ReplaceFrom, n, m
<1>12. F = [x \in S |-> Body(F, x)]
  <2> HIDE DEF S, Body, F
  <2> QED
    BY <1>10, <1>11
<1>13. F[i] = Body(F, i)
  <2>1. i \in S
    BY DEF n
  <2> HIDE DEF S, Body, F
  <2> QED
    BY <1>12, <2>1
<1>14. F[i][left] = Value(F, i, left)
  <2> HIDE DEF Value, F
  <2> QED
    BY <1>13
<1> QED
  BY <1>14 DEF n, m, ReplacesFrom

(***************************************************************************)
(* The text from position i on, with the listed occurrences replaced.      *)
(***************************************************************************)
Replaced(text, old, new, i) ==
    ReplaceFrom(text, old, new, Count(text, old))
        [i][Len(StartsFrom(text, old)[i])]

(***************************************************************************)
(* It is built position by position.                                       *)
(***************************************************************************)
LEMMA ReplacedStep ==
    ASSUME NEW T, NEW text \in Seq(T), NEW old \in Seq(T), old # << >>,
           NEW new \in Seq(T), NEW i \in 1..(Len(text) + 1)
    PROVE  Replaced(text, old, new, i) =
               IF i = Len(text) + 1 THEN << >>
               ELSE IF OccursAt(text, old, i)
               THEN new \o Replaced(text, old, new, i + Len(old))
               ELSE <<text[i]>> \o Replaced(text, old, new, i + 1)
<1> DEFINE n == Len(text)
           m == Len(old)
           c == Count(text, old)
           F(j) == StartsFrom(text, old)[j]
           R(j) == ReplaceFrom(text, old, new, c)[j]
           occurs(j) == OccursAt(text, old, j)
<1>1. n \in Nat /\ m \in Nat /\ m >= 1 /\ i \in 1..(n + 1)
  BY EmptySeq, LenProperties
<1>2. ASSUME NEW j \in 1..(n + 1)
      PROVE  F(j) \in Seq(Nat) /\ Len(F(j)) \in 0..c
  <2>1. ListsOccurrences(text, old, j) /\ ListsOccurrences(text, old, 1)
    BY <1>1, StartsAreOccurrences
  <2>2. F(j) \in Seq(Nat) /\ Len(F(j)) \in Nat
    BY <2>1, LenProperties DEF ListsOccurrences
  <2>3. /\ \A s \in Listed(text, old, j) :
               s \in j..n /\ OccursAt(text, old, s)
        /\ \A s, t \in Listed(text, old, j) : s < t => s + m <= t
        /\ Cardinality(Listed(text, old, j)) = Len(F(j))
    BY <2>1 DEF ListsOccurrences
  <2>4. Listed(text, old, j) \in DisjointOccurrences(text, old)
        /\ Listed(text, old, j) \subseteq 1..n
    BY <1>1, <2>3, LenProperties DEF DisjointOccurrences
  <2>5. Len(F(j)) <= Len(F(1))
    BY <2>1, <2>3, <2>4 DEF ListsOccurrences
  <2>6. Len(F(1)) = c /\ c \in Nat
    BY <2>1, LenProperties DEF Count, ListsOccurrences
  <2> QED
    BY <2>2, <2>5, <2>6
<1>3. F(i) = IF i + m - 1 > n THEN << >>
             ELSE IF occurs(i) THEN <<i>> \o F(i + m) ELSE F(i + 1)
  BY StartsRecurrence
<1>4. ASSUME NEW j \in 1..(n + 1), NEW l \in 0..c
      PROVE  R(j)[l] = IF l = 0 \/ j + m - 1 > n THEN SubSeq(text, j, n)
                       ELSE IF occurs(j) THEN new \o R(j + m)[l - 1]
                       ELSE <<text[j]>> \o R(j + 1)[l]
  <2>1. c \in Nat
    <3>1. ListsOccurrences(text, old, 1)
      BY <1>1, StartsAreOccurrences
    <3> QED
      BY <3>1, LenProperties DEF Count, ListsOccurrences
  <2> HIDE DEF c
  <2>2. ReplacesFrom(text, old, new, c, j, l)
    BY <1>4, <2>1, ReplaceRecurrence
  <2> QED
    BY <2>2 DEF ReplacesFrom
<1>5. \A j : occurs(j) => j + m - 1 <= n
  BY DEF OccursAt
<1>6. \A j : Replaced(text, old, new, j) = R(j)[Len(F(j))]
  BY DEF Replaced
<1>7. \A j \in 1..n : SubSeq(text, j, n) = <<text[j]>> \o SubSeq(text, j + 1, n)
  BY <1>1, SubSeqRecursiveFirst
<1>8. SubSeq(text, n + 1, n) = << >>
  BY <1>1, SubSeqEmpty
<1> HIDE DEF n, m, c, F, R, occurs
<1>9. CASE i = n + 1
  <2>1. i + m - 1 > n /\ Len(F(i)) \in 0..c
    BY <1>1, <1>2, <1>9
  <2>2. R(i)[Len(F(i))] = SubSeq(text, i, n)
    BY <1>1, <1>4, <2>1
  <2>3. Replaced(text, old, new, i) = << >>
    BY <1>6, <1>8, <1>9, <2>2
  <2> QED
    BY <1>9, <2>3 DEF n
<1>10. CASE i # n + 1 /\ occurs(i)
  <2>1. i + m \in 1..(n + 1) /\ ~(i + m - 1 > n) /\ i \in Nat
    BY <1>1, <1>5, <1>10
  <2>2. F(i) = <<i>> \o F(i + m) /\ F(i + m) \in Seq(Nat)
    BY <1>2, <1>3, <1>10, <2>1
  <2>3. Len(F(i)) = Len(F(i + m)) + 1
    BY <2>1, <2>2, RangeOfPrefixed
  <2>4. Len(F(i)) \in 0..c /\ Len(F(i + m)) \in Nat
    BY <1>1, <1>2, <2>2, LenProperties
  <2>5. R(i)[Len(F(i))] = new \o R(i + m)[Len(F(i)) - 1]
    <3>1. Len(F(i)) # 0
      BY <2>3, <2>4
    <3> QED
      BY <1>1, <1>4, <1>10, <2>1, <2>4, <3>1
  <2>6. Len(F(i)) - 1 = Len(F(i + m))
    BY <2>3, <2>4
  <2>7. R(i)[Len(F(i))] = new \o R(i + m)[Len(F(i + m))]
    BY <2>5, <2>6
  <2> QED
    BY <1>6, <1>10, <2>7 DEF n, m, occurs
<1>11. CASE i # n + 1 /\ ~occurs(i)
  <2>1. i \in 1..n /\ i + 1 \in 1..(n + 1)
    BY <1>1, <1>11
  <2>2. Len(F(i)) \in 0..c /\ Len(F(i + 1)) \in 0..c
    BY <1>1, <1>2, <2>1
  <2>3. CASE i + m - 1 > n
    <3>1. R(i)[Len(F(i))] = SubSeq(text, i, n)
      BY <1>1, <1>4, <2>2, <2>3
    <3>2. i + 1 + m - 1 > n
      BY <1>1, <2>3
    <3>3. R(i + 1)[Len(F(i + 1))] = SubSeq(text, i + 1, n)
      BY <1>4, <2>1, <2>2, <3>2
    <3>4. R(i)[Len(F(i))] = <<text[i]>> \o R(i + 1)[Len(F(i + 1))]
      BY <1>7, <2>1, <3>1, <3>3
    <3> QED
      BY <1>6, <1>11, <3>4 DEF n, occurs
  <2>4. CASE ~(i + m - 1 > n)
    <3>1. F(i) = F(i + 1)
      BY <1>3, <1>11, <2>4
    <3>2. CASE Len(F(i)) = 0
      <4>1. R(i)[Len(F(i))] = SubSeq(text, i, n)
        BY <1>1, <1>4, <2>2, <3>2
      <4>2. R(i + 1)[Len(F(i + 1))] = SubSeq(text, i + 1, n)
        BY <1>4, <2>1, <2>2, <3>1, <3>2
      <4>3. R(i)[Len(F(i))] = <<text[i]>> \o R(i + 1)[Len(F(i + 1))]
        BY <1>7, <2>1, <4>1, <4>2
      <4> QED
        BY <1>6, <1>11, <4>3 DEF n, occurs
    <3>3. CASE Len(F(i)) # 0
      <4>1. R(i)[Len(F(i))] = <<text[i]>> \o R(i + 1)[Len(F(i))]
        BY <1>1, <1>4, <1>11, <2>2, <2>4, <3>3
      <4> QED
        BY <1>6, <1>11, <3>1, <4>1 DEF n, occurs
    <3> QED
      BY <3>2, <3>3
  <2> QED
    BY <2>3, <2>4
<1> QED
  BY <1>9, <1>10, <1>11

(***************************************************************************)
(* It is a text, whatever position it starts from.                         *)
(***************************************************************************)
LEMMA ReplacedType ==
    ASSUME NEW T, NEW text \in Seq(T), NEW old \in Seq(T), old # << >>,
           NEW new \in Seq(T), NEW i \in 1..(Len(text) + 1)
    PROVE  Replaced(text, old, new, i) \in Seq(T)
<1> DEFINE n == Len(text)
           m == Len(old)
           r(j) == Replaced(text, old, new, j)
           wrong == {k \in 0..n : r(n + 1 - k) \notin Seq(T)}
<1>1. n \in Nat /\ m \in Nat /\ m >= 1 /\ \A j \in 1..n : text[j] \in T
  BY EmptySeq, LenProperties, ElementOfSeq
<1>2. \A j \in 1..(n + 1) :
          r(j) = IF j = n + 1 THEN << >>
                 ELSE IF OccursAt(text, old, j) THEN new \o r(j + m)
                 ELSE <<text[j]>> \o r(j + 1)
  BY ReplacedStep
<1>3. \A j : OccursAt(text, old, j) => j + m - 1 <= n
  BY DEF OccursAt
<1> HIDE DEF n, m, r
<1>4. wrong = {}
  <2> SUFFICES ASSUME wrong # {} PROVE FALSE
    OBVIOUS
  <2>1. wrong \in SUBSET Nat
    OBVIOUS
  <2>2. PICK k \in wrong : \A l \in wrong : k <= l
    BY <2>1, LeastNat
  <2> DEFINE j == n + 1 - k
  <2>3. k \in 0..n /\ j \in 1..(n + 1) /\ k = n + 1 - j
    BY <1>1
  <2>4. ASSUME NEW h \in (j + 1)..(n + 1) PROVE r(h) \in Seq(T)
    <3>1. n + 1 - h \in 0..n /\ ~(k <= n + 1 - h) /\ n + 1 - (n + 1 - h) = h
      BY <1>1, <2>3
    <3>2. n + 1 - h \notin wrong
      BY <2>2, <3>1
    <3> QED
      BY <3>1, <3>2
  <2>5. r(j) \notin Seq(T)
    BY <2>2
  <2> HIDE DEF j
  <2>6. CASE j = n + 1
    BY <1>2, <2>3, <2>5, <2>6, EmptySeq
  <2>7. CASE j # n + 1 /\ OccursAt(text, old, j)
    <3>1. j + m \in (j + 1)..(n + 1)
      BY <1>1, <1>3, <2>3, <2>7
    <3>2. r(j) = new \o r(j + m) /\ r(j + m) \in Seq(T)
      BY <1>2, <2>3, <2>4, <2>7, <3>1
    <3> QED
      BY <2>5, <3>2, ConcatProperties
  <2>8. CASE j # n + 1 /\ ~OccursAt(text, old, j)
    <3>1. j + 1 \in (j + 1)..(n + 1) /\ j \in 1..n
      BY <1>1, <2>3, <2>8
    <3>2. r(j) = <<text[j]>> \o r(j + 1) /\ r(j + 1) \in Seq(T)
      BY <1>2, <2>3, <2>4, <2>8, <3>1
    <3>3. <<text[j]>> \in Seq(T)
      BY <1>1, <3>1
    <3> QED
      BY <2>5, <3>2, <3>3, ConcatProperties
  <2> QED
    BY <2>6, <2>7, <2>8
<1>5. n + 1 - i \in 0..n /\ n + 1 - (n + 1 - i) = i
  BY <1>1 DEF n
<1>6. r(i) \in Seq(T)
  BY <1>4, <1>5
<1> QED
  BY <1>6 DEF r

(***************************************************************************)
(* Concatenation is associative.                                           *)
(***************************************************************************)
Associative(T) == \A a, b, c \in Seq(T) : (a \o b) \o c = a \o (b \o c)

LEMMA ConcatIsAssociative ==
    ASSUME NEW T
    PROVE  Associative(T)
<1> SUFFICES ASSUME NEW a \in Seq(T), NEW b \in Seq(T), NEW c \in Seq(T)
             PROVE  (a \o b) \o c = a \o (b \o c)
  BY DEF Associative
<1> QED
  BY SMT, ConcatAssociative

(***************************************************************************)
(* Replacing the occurrences that count finds is substituting them all at  *)
(* once.                                                                   *)
(***************************************************************************)
LEMMA ReplaceIsSubstitution ==
    ASSUME NEW T, NEW text \in Seq(T), NEW old \in Seq(T), old # << >>,
           NEW new \in Seq(T)
    PROVE  Substituted(text, old, new, Listed(text, old, 1))
               = Replaced(text, old, new, 1)
<1> DEFINE n == Len(text)
           m == Len(old)
           G == Listed(text, old, 1)
           r(i) == Replaced(text, old, new, i)
           pieces == [i \in DOMAIN text |->
                         IF i \in G THEN new
                         ELSE IF \E s \in G : i \in s..(s + m - 1) THEN << >>
                         ELSE <<text[i]>>]
           inside(s, i) == s < i /\ i < s + m
<1>1. /\ n \in Nat /\ m \in Nat /\ m >= 1 /\ DOMAIN text = 1..n
      /\ \A j \in 1..n : text[j] \in T
  BY EmptySeq, LenProperties, ElementOfSeq
<1>2. /\ \A s \in G : s \in 1..n /\ OccursAt(text, old, s) /\ s + m <= n + 1
      /\ \A s, t \in G : s < t => s + m <= t
      /\ \A j \in 1..n : OccursAt(text, old, j) =>
             j \in G \/ \E s \in G : inside(s, j)
  <2>1. ListsOccurrences(text, old, 1)
    BY <1>1, StartsAreOccurrences
  <2>2. \A s \in G : s \in 1..n /\ OccursAt(text, old, s)
    BY <2>1 DEF ListsOccurrences
  <2>3. \A s \in G : s + m - 1 <= n
    BY <2>2 DEF OccursAt
  <2>4. \A s \in G : s + m <= n + 1
    BY <1>1, <2>2, <2>3
  <2> QED
    BY <2>1, <2>2, <2>4 DEF ListsOccurrences
<1>3. \A i \in 1..(n + 1) :
          r(i) = IF i = n + 1 THEN << >>
                 ELSE IF OccursAt(text, old, i) THEN new \o r(i + m)
                 ELSE <<text[i]>> \o r(i + 1)
  BY ReplacedStep
<1>4. \A i \in 1..(n + 1) : r(i) \in Seq(T)
  BY ReplacedType
<1>5. \A i \in 1..n : pieces[i] =
          IF i \in G THEN new
          ELSE IF \E s \in G : i \in s..(s + m - 1) THEN << >>
          ELSE <<text[i]>>
  BY <1>1
<1>6. pieces \in Seq(Seq(T)) /\ Len(pieces) = n
  <2>1. \A i \in 1..n : pieces[i] \in Seq(T)
    <3>1. \A i \in 1..n : <<text[i]>> \in Seq(T)
      BY <1>1
    <3> HIDE DEF pieces
    <3> QED
      BY <1>5, <3>1, EmptySeq
  <2>2. pieces = [i \in 1..n |-> pieces[i]]
    BY <1>1
  <2>3. pieces \in [1..n -> Seq(T)]
    <3> HIDE DEF pieces
    <3> QED
      BY <2>1, <2>2
  <2> HIDE DEF pieces, n
  <2> QED
    BY <1>1, <2>3
<1>7. Substituted(text, old, new, G) = FlattenSeq(pieces)
  BY DEF Substituted
<1>0. n \in Nat /\ m \in Nat /\ m >= 1
  BY <1>1
<1> HIDE DEF n, m, G, r, pieces
<1>8. PICK flat \in [0..n -> Seq(T)] :
          /\ flat[0] = << >>
          /\ \A i \in 1..n : flat[i] = flat[i - 1] \o pieces[i]
          /\ FlattenSeq(pieces) = flat[n]
  BY <1>6, Flattening
<1>a. Associative(T)
  BY ConcatIsAssociative
<1> DEFINE Claim(i) ==
               /\ \A s \in G : inside(s, i) => flat[i - 1] \o r(s + m) = r(1)
               /\ (\A s \in G : ~inside(s, i)) => flat[i - 1] \o r(i) = r(1)
<1>9. Claim(1)
  <2>1. \A s \in G : ~inside(s, 1)
    BY <1>1, <1>2
  <2>2. 1 \in 1..(n + 1) /\ 1 - 1 = 0
    BY <1>1
  <2>3. r(1) \in Seq(T)
    BY <1>4, <2>2
  <2>4. << >> \o r(1) = r(1)
    BY <2>3, ConcatEmptySeq
  <2>5. flat[1 - 1] \o r(1) = r(1)
    BY <1>8, <2>2, <2>4
  <2> QED
    BY <2>1, <2>5
<1>10. ASSUME NEW i \in 1..n, Claim(i)
       PROVE  Claim(i + 1)
  <2>1. /\ i \in Nat /\ i + 1 \in 1..(n + 1) /\ i \in 1..(n + 1) /\ i # n + 1
        /\ i - 1 \in 0..n /\ (i + 1) - 1 = i
    BY <1>0
  <2>0. flat[i - 1] \in Seq(T) /\ flat[i] = flat[i - 1] \o pieces[i]
    <3>1. flat[i - 1] \in Seq(T)
      BY <2>1
    <3> QED
      BY <1>8, <3>1
  <2>2. \A s \in G : s \in Nat /\ s + m \in 1..(n + 1)
    BY <1>0, <1>2
  <2>3. CASE i \in G
    <3>1. \A s \in G : ~inside(s, i)
      BY <1>0, <1>2, <2>1, <2>2, <2>3
    <3>2. r(i) = new \o r(i + m) /\ r(i + m) \in Seq(T)
      BY <1>2, <1>3, <1>4, <2>1, <2>2, <2>3
    <3>3. pieces[i] = new
      BY <1>5, <2>3
    <3>4. flat[i] \o r(i + m) = r(1)
      <4>1. flat[i - 1] \o (new \o r(i + m)) = r(1)
        <5>1. flat[i - 1] \o r(i) = r(1)
          BY <1>10, <3>1
        <5> QED
          BY <3>2, <5>1
      <4>2. (flat[i - 1] \o new) \o r(i + m) = flat[i - 1] \o (new \o r(i + m))
        BY <1>a, <2>0, <3>2 DEF Associative
      <4> QED
        BY <2>0, <3>3, <4>1, <4>2
    <3>5. ASSUME NEW s \in G, inside(s, i + 1) PROVE s = i
      <4>1. ~(s < i)
        BY <1>0, <1>2, <2>1, <2>2, <2>3, <3>5
      <4> QED
        BY <2>1, <2>2, <3>5, <4>1
    <3>6. (\A s \in G : ~inside(s, i + 1)) => i + 1 = i + m
      <4>1. i < i + 1 /\ (i + 1 < i + m \/ i + 1 = i + m)
        BY <1>0, <2>1
      <4> QED
        BY <2>3, <4>1
    <3> QED
      BY <2>1, <3>4, <3>5, <3>6
  <2>4. CASE i \notin G /\ \E s \in G : inside(s, i)
    <3>1. PICK s \in G : inside(s, i)
      BY <2>4
    <3>2. pieces[i] = << >>
      <4>1. i \in s..(s + m - 1)
        BY <1>0, <2>1, <2>2, <3>1
      <4> QED
        BY <1>5, <2>4, <4>1
    <3>3. flat[i] = flat[i - 1]
      BY <2>0, <3>2, ConcatEmptySeq
    <3>4. ASSUME NEW t \in G, inside(t, i + 1) PROVE inside(t, i)
      <4>1. t # i /\ t \in Nat
        BY <2>2, <2>4
      <4> QED
        BY <1>0, <2>1, <3>4, <4>1
    <3>5. (\A t \in G : ~inside(t, i + 1)) => s + m = i + 1
      <4>1. s < i + 1 /\ (i + 1 < s + m \/ i + 1 = s + m)
        BY <1>0, <2>1, <2>2, <3>1
      <4> QED
        BY <4>1
    <3>6. flat[i - 1] \o r(s + m) = r(1)
      BY <1>10, <3>1
    <3>7. (\A t \in G : ~inside(t, i + 1)) => flat[i] \o r(i + 1) = r(1)
      BY <3>3, <3>5, <3>6
    <3>8. \A t \in G : inside(t, i + 1) => flat[i] \o r(t + m) = r(1)
      BY <1>10, <3>3, <3>4
    <3> QED
      BY <2>1, <3>7, <3>8
  <2>5. CASE i \notin G /\ \A s \in G : ~inside(s, i)
    <3>1. ~OccursAt(text, old, i)
      BY <1>2, <2>5
    <3>2. pieces[i] = <<text[i]>>
      <4>1. ASSUME NEW s \in G PROVE i \notin s..(s + m - 1)
        <5>1. s # i /\ s \in Nat /\ ~(s < i /\ i < s + m)
          BY <2>2, <2>5
        <5> QED
          BY <1>0, <2>1, <5>1
      <4> QED
        BY <1>5, <2>5, <4>1
    <3>3. r(i) = <<text[i]>> \o r(i + 1) /\ r(i + 1) \in Seq(T)
      BY <1>3, <1>4, <2>1, <3>1
    <3>4. flat[i] \o r(i + 1) = r(1)
      <4>1. flat[i - 1] \o (<<text[i]>> \o r(i + 1)) = r(1)
        BY <1>10, <2>5, <3>3
      <4>2. <<text[i]>> \in Seq(T)
        BY <1>1
      <4>3. (flat[i - 1] \o <<text[i]>>) \o r(i + 1)
                = flat[i - 1] \o (<<text[i]>> \o r(i + 1))
        BY <1>a, <2>0, <3>3, <4>2 DEF Associative
      <4> QED
        BY <2>0, <3>2, <4>1, <4>3
    <3>5. \A t \in G : ~inside(t, i + 1)
      <4> SUFFICES ASSUME NEW t \in G, inside(t, i + 1) PROVE FALSE
        OBVIOUS
      <4>1. t # i /\ t \in Nat
        BY <2>2, <2>5
      <4> QED
        BY <1>0, <2>1, <2>5, <4>1
    <3> QED
      BY <2>1, <3>4, <3>5
  <2> QED
    BY <2>3, <2>4, <2>5
<1> DEFINE open == {i \in 1..(n + 1) : ~Claim(i)}
<1>11. open = {}
  <2> SUFFICES ASSUME open # {} PROVE FALSE
    OBVIOUS
  <2> HIDE DEF Claim
  <2>1. open \in SUBSET Nat
    BY <1>1
  <2>2. PICK i \in open : \A j \in open : i <= j
    BY <2>1, LeastNat
  <2>3. i # 1
    BY <1>9, <2>2
  <2>4. i - 1 \in 1..n /\ (i - 1) + 1 = i /\ ~(i <= i - 1)
    BY <1>1, <2>2, <2>3
  <2>5. Claim(i - 1)
    BY <1>1, <2>2, <2>4
  <2>6. Claim((i - 1) + 1)
    BY <1>10, <2>4, <2>5
  <2> QED
    BY <2>2, <2>4, <2>6
<1>12. Claim(n + 1)
  <2> HIDE DEF Claim
  <2>1. n + 1 \in 1..(n + 1)
    BY <1>1
  <2> QED
    BY <1>11, <2>1
<1>13. flat[n] \o r(n + 1) = r(1)
  <2>1. \A s \in G : ~inside(s, n + 1)
    BY <1>0, <1>2
  <2>2. (n + 1) - 1 = n
    BY <1>1
  <2> QED
    BY <1>12, <2>1, <2>2
<1>14. flat[n] = r(1)
  <2>1. n + 1 \in 1..(n + 1) /\ n \in 0..n
    BY <1>1
  <2>2. r(n + 1) = << >> /\ flat[n] \in Seq(T)
    BY <1>3, <1>8, <2>1
  <2> QED
    BY <1>13, <2>2, ConcatEmptySeq
<1> QED
  BY <1>7, <1>8, <1>14 DEF G, r

(***************************************************************************)
(* replace_text, when it finds as many occurrences as it expects.          *)
(***************************************************************************)
LEMMA ReplaceIsExact ==
    ASSUME NEW T, NEW text \in Seq(T), NEW old \in Seq(T), old # << >>,
           NEW new \in Seq(T), NEW expected, Count(text, old) = expected
    PROVE  /\ Replace(text, old, new, expected) \in Seq(T)
           /\ \A S \in DisjointOccurrences(text, old) :
                  Cardinality(S) <= expected
           /\ \E S \in DisjointOccurrences(text, old) :
                  /\ Cardinality(S) = expected
                  /\ Replace(text, old, new, expected)
                         = Substituted(text, old, new, S)
<1> DEFINE G == Listed(text, old, 1)
<1>1. 1 \in 1..(Len(text) + 1) /\ DOMAIN text = 1..Len(text)
  BY LenProperties
<1>2. ListsOccurrences(text, old, 1)
  BY <1>1, StartsAreOccurrences
<1>3. Replace(text, old, new, expected) = Replaced(text, old, new, 1)
  BY DEF Replace, Replaced, Count
<1>4. Replace(text, old, new, expected) \in Seq(T)
  BY <1>1, <1>3, ReplacedType
<1>5. Replace(text, old, new, expected) = Substituted(text, old, new, G)
  BY <1>3, ReplaceIsSubstitution
<1>6. G \in DisjointOccurrences(text, old) /\ Cardinality(G) = expected
  BY <1>1, <1>2 DEF ListsOccurrences, DisjointOccurrences, Count
<1>7. \A S \in DisjointOccurrences(text, old) : Cardinality(S) <= expected
  <2>1. \A S \in DisjointOccurrences(text, old) : S \subseteq 1..Len(text)
    BY <1>1 DEF DisjointOccurrences
  <2> QED
    BY <1>2, <2>1 DEF ListsOccurrences, Count
<1> HIDE DEF G
<1> QED
  BY <1>4, <1>5, <1>6, <1>7

-----------------------------------------------------------------------------
(***************************************************************************)
(* Reading translates a text position by position.                         *)
(***************************************************************************)
LEMMA ReadTextType ==
    ASSUME NEW text \in Seq(Piece)
    PROVE  ReadText(text) \in Seq(Piece) /\ Len(ReadText(text)) = Len(text)
<1>1. /\ Len(text) \in Nat /\ DOMAIN text = 1..Len(text)
      /\ \A i \in 1..Len(text) : text[i] \in Piece
  BY LenProperties, ElementOfSeq
<1>2. ReadText(text) \in [1..Len(text) -> Piece]
  BY <1>1, ToolsAssumption DEF ReadText
<1>3. \A n \in Nat : \A f \in [1..n -> Piece] : f \in Seq(Piece) /\ Len(f) = n
  OBVIOUS
<1> QED
  BY ONLY <1>1, <1>2, <1>3

(***************************************************************************)
(* The first piece is in line 1, the next one in the same line or in the   *)
(* one after it.                                                           *)
(***************************************************************************)
LEMMA LinesGrow ==
    ASSUME NEW text, NEW i \in Nat \ {0}
    PROVE  /\ LineOf(text, i) \in Nat \ {0}
           /\ LineOf(text, 1) = 1
           /\ LineOf(text, i + 1) \in {LineOf(text, i), LineOf(text, i) + 1}
<1> DEFINE ends(k) == {j \in 1..(k - 1) : text[j] = LF}
<1>1. ASSUME NEW k \in Nat
      PROVE  IsFiniteSet(ends(k)) /\ Cardinality(ends(k)) \in Nat
  <2>1. IsFiniteSet(1..(k - 1)) /\ ends(k) \in SUBSET (1..(k - 1))
    BY FS_Interval
  <2> HIDE DEF ends
  <2> QED
    BY <2>1, FS_Subset, FS_CardinalityType
<1>2. ends(1) = {}
  OBVIOUS
<1>3. ends(i + 1) = IF text[i] = LF THEN ends(i) \cup {i} ELSE ends(i)
  OBVIOUS
<1>4. i \notin ends(i)
  OBVIOUS
<1>5. \A k : LineOf(text, k) = 1 + Cardinality(ends(k))
  BY DEF LineOf
<1> HIDE DEF ends
<1>6. Cardinality(ends(i) \cup {i}) = Cardinality(ends(i)) + 1
  BY <1>1, <1>4, FS_AddElement
<1>7. Cardinality(ends(1)) = 0
  BY <1>2, FS_EmptySet
<1>8. Cardinality(ends(i)) \in Nat
  BY <1>1
<1> QED
  BY <1>3, <1>5, <1>6, <1>7, <1>8

(***************************************************************************)
(* So lines never go back, and none between the first and the last is      *)
(* left out.                                                               *)
(***************************************************************************)
LEMMA LinesAreOrdered ==
    ASSUME NEW text, NEW j \in Nat \ {0}, NEW i \in 1..j
    PROVE  LineOf(text, i) <= LineOf(text, j)
<1> DEFINE L(k) == LineOf(text, k)
           wrong == {k \in Nat : k >= i /\ ~(L(i) <= L(k))}
<1>1. \A k \in Nat \ {0} : L(k) \in Nat \ {0} /\ L(k + 1) \in {L(k), L(k) + 1}
  BY LinesGrow
<1> HIDE DEF L
<1>2. wrong = {}
  <2> SUFFICES ASSUME wrong # {} PROVE FALSE
    OBVIOUS
  <2>1. wrong \in SUBSET Nat
    OBVIOUS
  <2>2. PICK k \in wrong : \A l \in wrong : k <= l
    BY <2>1, LeastNat
  <2>3. k # i
    BY <1>1, <2>2
  <2>4. k - 1 \in Nat \ {0} /\ k - 1 >= i /\ (k - 1) + 1 = k /\ ~(k <= k - 1)
    BY <2>2, <2>3
  <2>5. L(i) <= L(k - 1)
    BY <2>2, <2>4
  <2>6. L(k) \in {L(k - 1), L(k - 1) + 1} /\ L(k - 1) \in Nat /\ L(i) \in Nat
    BY <1>1, <2>4
  <2> QED
    BY <2>2, <2>5, <2>6
<1>3. L(i) <= L(j)
  BY <1>2
<1> QED
  BY <1>3 DEF L

(***************************************************************************)
(* Every line up to the last has a piece.                                  *)
(***************************************************************************)
LEMMA EveryLineIsThere ==
    ASSUME NEW text, NEW n \in Nat \ {0}, NEW v \in 1..LineOf(text, n)
    PROVE  \E i \in 1..n : LineOf(text, i) = v
<1> DEFINE L(k) == LineOf(text, k)
           from == {k \in 1..n : L(k) >= v}
<1>1. \A k \in Nat \ {0} :
          /\ L(k) \in Nat \ {0} /\ L(1) = 1
          /\ L(k + 1) \in {L(k), L(k) + 1}
  BY LinesGrow
<1>v. v \in 1..L(n)
  OBVIOUS
<1> HIDE DEF L
<1>2. n \in from /\ from \in SUBSET Nat
  BY <1>1, <1>v
<1>3. PICK i \in from : \A k \in from : i <= k
  BY <1>2, LeastNat
<1>4. CASE i = 1
  BY <1>1, <1>3, <1>4, <1>v DEF L
<1>5. CASE i # 1
  <2>1. i - 1 \in 1..n /\ i - 1 \in Nat \ {0} /\ (i - 1) + 1 = i /\ ~(i <= i - 1)
    BY <1>3, <1>5
  <2>2. ~(L(i - 1) >= v)
    BY <1>3, <2>1
  <2>3. L(i) \in {L(i - 1), L(i - 1) + 1} /\ L(i - 1) \in Nat /\ L(i) >= v
    BY <1>1, <1>3, <2>1
  <2>4. L(i) = v
    BY <1>1, <1>v, <2>2, <2>3
  <2> QED
    BY <1>3, <2>4 DEF L
<1> QED
  BY <1>4, <1>5

(***************************************************************************)
(* The pieces up to a line are an initial part of the text.                *)
(***************************************************************************)
LEMMA LinesEndSomewhere ==
    ASSUME NEW text, NEW n \in Nat, NEW v \in Nat
    PROVE  \E c \in 0..n : \A i \in 1..n : LineOf(text, i) <= v <=> i <= c
<1> DEFINE L(k) == LineOf(text, k)
           over == {k \in Nat : k = n \/ (k < n /\ ~(L(k + 1) <= v))}
<1>1. n \in over /\ over \in SUBSET Nat
  OBVIOUS
<1>2. PICK c \in over : \A k \in over : c <= k
  BY <1>1, LeastNat
<1>3. c \in 0..n
  BY <1>1, <1>2
<1>4. ASSUME NEW i \in 1..n PROVE L(i) <= v <=> i <= c
  <2>1. CASE i <= c
    <3>1. i - 1 \in Nat /\ i - 1 < n /\ ~(c <= i - 1) /\ (i - 1) + 1 = i
      BY <1>3, <2>1
    <3>2. L((i - 1) + 1) <= v
      BY <1>2, <3>1
    <3> QED
      BY <2>1, <3>1, <3>2
  <2>2. CASE ~(i <= c)
    <3>1. c + 1 \in 1..i /\ c # n /\ c + 1 \in Nat \ {0} /\ i \in Nat \ {0}
      BY <1>3, <2>2
    <3>2. ~(L(c + 1) <= v) /\ L(c + 1) <= L(i)
      BY <1>2, <3>1, LinesAreOrdered
    <3>3. L(c + 1) \in Nat /\ L(i) \in Nat
      BY <3>1, LinesGrow
    <3> HIDE DEF L
    <3> QED
      BY <2>2, <3>2, <3>3
  <2> QED
    BY <2>1, <2>2
<1> QED
  BY <1>3, <1>4

-----------------------------------------------------------------------------
(***************************************************************************)
(* How many pages the lines of a file make.                                *)
(***************************************************************************)
LEMMA PagesCoverTheLines ==
    ASSUME NEW M \in Nat \ {0}, NEW lines \in Nat, NEW count,
           count = (lines + M - 1) \div M
    PROVE  /\ count \in Nat
           /\ lines <= count * M
           /\ lines = 0 => count = 0
           /\ \A k \in 1..count : (k - 1) * M + 1 <= lines
           /\ \A k \in 0..count : k * M \in Nat
           /\ \A k \in 1..count : k * M = (k - 1) * M + M
<1>1. /\ count \in Int
      /\ M * count <= lines + M - 1
      /\ lines + M - 1 < M * count + M
  OBVIOUS
<1>2. count \in Nat
  <2> SUFFICES ASSUME count <= -1 PROVE FALSE
    BY <1>1
  <2>1. M * count <= -M
    BY <1>1
  <2> QED
    BY <1>1, <2>1
<1>3. M * count = count * M
  BY <1>2
<1>4. lines = 0 => count = 0
  <2> SUFFICES ASSUME lines = 0, count >= 1 PROVE FALSE
    BY <1>2
  <2>1. M * count >= M
    BY <1>2
  <2> QED
    BY <1>1, <2>1
<1>5. ASSUME NEW k \in 1..count
      PROVE  (k - 1) * M + 1 <= lines
  <2>1. (k - 1) * M <= (count - 1) * M
    BY <1>2
  <2>2. (count - 1) * M = count * M - M
    BY <1>2
  <2> QED
    BY <1>1, <1>2, <1>3, <2>1, <2>2
<1>6. ASSUME NEW k \in 0..count
      PROVE  k * M \in Nat
  BY <1>2
<1>7. ASSUME NEW k \in 1..count
      PROVE  k * M = (k - 1) * M + M
  BY <1>2
<1> QED
  BY <1>1, <1>2, <1>3, <1>4, <1>5, <1>6, <1>7

(***************************************************************************)
(* Where a text is cut when it is cut after a line.                        *)
(***************************************************************************)
CutAfter(text, v, c) ==
    /\ c \in 0..Len(text)
    /\ \A i \in 1..Len(text) : LineOf(text, i) <= v <=> i <= c

(***************************************************************************)
(* A page is the text between two cuts.                                    *)
(***************************************************************************)
LEMMA PageIsBetweenCuts ==
    ASSUME NEW T, NEW text \in Seq(T), NEW v \in Nat, NEW w \in Nat,
           NEW a, CutAfter(text, v, a), NEW b, CutAfter(text, w, b)
    PROVE  Page(text, v + 1, w) = SubSeq(text, a + 1, b)
<1> DEFINE n == Len(text)
           shown == {i \in DOMAIN text : InRange(text, v + 1, w, i)}
<1>1. n \in Nat /\ DOMAIN text = 1..n /\ a \in 0..n /\ b \in 0..n
  BY LenProperties DEF CutAfter
<1>2. shown = (a + 1)..b
  <2>1. ASSUME NEW i \in 1..n
        PROVE  InRange(text, v + 1, w, i) <=> i \in (a + 1)..b
    <3>1. LineOf(text, i) \in Nat
      BY <1>1, LinesGrow
    <3>2. /\ LineOf(text, i) <= v <=> i <= a
          /\ LineOf(text, i) <= w <=> i <= b
      BY DEF CutAfter
    <3> QED
      BY <1>1, <3>1, <3>2 DEF InRange
  <2> QED
    BY <1>1, <2>1
<1>3. Page(text, v + 1, w)
          = IF shown = {} THEN << >> ELSE SubSeq(text, Min(shown), Max(shown))
  BY DEF Page
<1> HIDE DEF shown, n
<1>4. CASE shown = {}
  <2>1. b < a + 1
    BY <1>1, <1>2, <1>4
  <2>2. SubSeq(text, a + 1, b) = << >>
    BY <1>1, <2>1, SubSeqEmpty
  <2> QED
    BY <1>3, <1>4, <2>2
<1>5. CASE shown # {}
  <2>1. a + 1 <= b
    BY <1>1, <1>2, <1>5
  <2>2. Min(shown) = a + 1
    BY <1>1, <1>2, <2>1 DEF Min
  <2>3. Max(shown) = b
    BY <1>1, <1>2, <2>1 DEF Max
  <2> QED
    BY <1>3, <1>5, <2>2, <2>3
<1> QED
  BY <1>4, <1>5

(***************************************************************************)
(* Texts between successive cuts, put one after the other, are the text.   *)
(***************************************************************************)
CutInto(text, count, cut, pieces) ==
    /\ count \in Nat
    /\ cut \in [0..count -> 0..Len(text)]
    /\ cut[0] = 0 /\ cut[count] = Len(text)
    /\ \A k \in 1..count : cut[k - 1] <= cut[k]
    /\ pieces = [k \in 1..count |-> SubSeq(text, cut[k - 1] + 1, cut[k])]

LEMMA CutsTile ==
    ASSUME NEW T, NEW text \in Seq(T), NEW count, NEW cut, NEW pieces,
           CutInto(text, count, cut, pieces)
    PROVE  FlattenSeq(pieces) = text
<1> USE DEF CutInto
<1> DEFINE n == Len(text)
<1>1. n \in Nat
  BY LenProperties
<1>2. \A k \in 0..count : cut[k] \in 0..n
  OBVIOUS
<1>3. pieces \in Seq(Seq(T)) /\ Len(pieces) = count
  <2>1. ASSUME NEW k \in 1..count
        PROVE  SubSeq(text, cut[k - 1] + 1, cut[k]) \in Seq(T)
    <3>1. k - 1 \in 0..count /\ k \in 0..count
      OBVIOUS
    <3> DEFINE c == cut[k - 1]
               d == cut[k]
    <3>2. c \in 0..n /\ d \in 0..n
      BY <1>2, <3>1
    <3> HIDE DEF c, d, CutInto
    <3>3. \A i \in (c + 1)..d : text[i] \in T
      BY <1>1, <3>2, ElementOfSeq
    <3>4. c + 1 \in Int /\ d \in Int
      BY <3>2
    <3>5. SubSeq(text, c + 1, d) \in Seq(T)
      BY ONLY <3>3, <3>4, SubSeqProperties
    <3> QED
      BY <3>5 DEF c, d
  <2>2. pieces \in [1..count -> Seq(T)]
    BY <2>1
  <2>3. \A U : \A f \in [1..count -> U] : f \in Seq(U) /\ Len(f) = count
    OBVIOUS
  <2> QED
    BY ONLY <2>2, <2>3
<1>4. PICK flat \in [0..count -> Seq(T)] :
          /\ flat[0] = << >>
          /\ \A k \in 1..count : flat[k] = flat[k - 1] \o pieces[k]
          /\ FlattenSeq(pieces) = flat[count]
  <2>1. count = Len(pieces)
    BY <1>3
  <2>2. \E flat \in [0..Len(pieces) -> Seq(T)] :
            /\ flat[0] = << >>
            /\ \A i \in 1..Len(pieces) : flat[i] = flat[i - 1] \o pieces[i]
            /\ FlattenSeq(pieces) = flat[Len(pieces)]
    BY ONLY <1>3, Flattening, Zenon
  <2> HIDE DEF CutInto
  <2> QED
    BY <2>1, <2>2, Zenon
<1> DEFINE wrong == {k \in 0..count : flat[k] # SubSeq(text, 1, cut[k])}
<1>5. wrong = {}
  <2> SUFFICES ASSUME wrong # {} PROVE FALSE
    OBVIOUS
  <2>1. wrong \in SUBSET Nat
    OBVIOUS
  <2>2. PICK k \in wrong : \A l \in wrong : k <= l
    BY <2>1, LeastNat
  <2>3. k # 0
    <3>1. SubSeq(text, 1, 0) = << >>
      BY SubSeqEmpty
    <3> QED
      BY <1>4, <2>2, <3>1
  <2>4. k \in 1..count /\ k - 1 \in 0..count /\ ~(k <= k - 1)
    BY <2>2, <2>3
  <2>5. flat[k - 1] = SubSeq(text, 1, cut[k - 1])
    BY <2>2, <2>4
  <2>6. pieces[k] = SubSeq(text, cut[k - 1] + 1, cut[k])
    BY <2>4
  <2>7. flat[k] = flat[k - 1] \o pieces[k]
    BY <1>4, <2>4
  <2> DEFINE c == cut[k - 1]
             d == cut[k]
  <2>8. c \in 0..n /\ d \in 0..n /\ c <= d
    BY <1>2, <2>4
  <2> HIDE DEF c, d
  <2>9. SubSeq(text, 1, c) \o SubSeq(text, c + 1, d) = SubSeq(text, 1, d)
    <3>1. /\ 1 \in 1..(Len(text) + 1)
          /\ c \in (1 - 1)..Len(text)
          /\ d \in c..Len(text)
      BY <1>1, <2>8
    <3> QED
      BY <3>1, ConcatAdjacentSubSeq
  <2>10. flat[k] = SubSeq(text, 1, cut[k])
    BY <2>5, <2>6, <2>7, <2>9 DEF c, d
  <2> QED
    BY <2>2, <2>10
<1>6. flat[count] = SubSeq(text, 1, Len(text))
  <2>1. count \in 0..count
    OBVIOUS
  <2>2. flat[count] = SubSeq(text, 1, cut[count])
    BY <1>5, <2>1
  <2> QED
    BY <2>2
<1>7. SubSeq(text, 1, Len(text)) = text
  BY SubSeqFull
<1> QED
  BY <1>4, <1>6, <1>7

(***************************************************************************)
(* The pages of a file are its text, and none is empty.                    *)
(***************************************************************************)
LEMMA PagesTile ==
    ASSUME NEW content \in Seq(Piece)
    PROVE  /\ FlattenSeq(Pages(content)) = ReadText(content)
           /\ \A k \in DOMAIN Pages(content) : Pages(content)[k] # << >>
           /\ Len(Pages(content)) * MaxLines + 1 > LineCount(ReadText(content))
<1> DEFINE q == ReadText(content)
           n == Len(q)
           lines == LineCount(q)
           M == MaxLines
           count == (lines + M - 1) \div M
<1>1. q \in Seq(Piece) /\ n \in Nat /\ DOMAIN q = 1..n /\ M \in Nat \ {0}
  BY ReadTextType, LenProperties, ToolsAssumption
<1>2. /\ lines \in Nat
      /\ n = 0 => lines = 0
      /\ n # 0 => lines = LineOf(q, n)
  <2>1. q = << >> <=> n = 0
    BY <1>1, EmptySeq
  <2>2. n # 0 => LineOf(q, n) \in Nat
    BY <1>1, LinesGrow
  <2> QED
    BY <2>1, <2>2 DEF LineCount
<1> HIDE DEF q, lines, M
<1>3. /\ count \in Nat
      /\ lines <= count * M
      /\ lines = 0 => count = 0
      /\ \A k \in 1..count : (k - 1) * M + 1 <= lines
      /\ \A k \in 0..count : k * M \in Nat
      /\ \A k \in 1..count : k * M = (k - 1) * M + M
  <2> HIDE DEF count
  <2> QED
    BY <1>1, <1>2, PagesCoverTheLines DEF count
<1> DEFINE cut == [k \in 0..count |-> CHOOSE c : CutAfter(q, k * M, c)]
<1>4. Pages(content) = [k \in 1..count |-> Page(q, (k - 1) * M + 1, k * M)]
  <2>1. ASSUME NEW k \in 1..count
        PROVE  ReadFile(content, (k - 1) * M + 1, Missing)
                   = Page(q, (k - 1) * M + 1, k * M)
    <3>1. RequestedEnd((k - 1) * M + 1, Missing) = (k - 1) * M + 1 + M - 1
      BY DEF RequestedEnd, M
    <3>2. (k - 1) \in 0..count
      BY <1>3
    <3>3. (k - 1) * M + 1 + M - 1 = k * M
      BY <1>1, <1>3, <3>2
    <3> QED
      BY <3>1, <3>3 DEF ReadFile, q
  <2> QED
    BY <2>1 DEF Pages, q, lines, M
<1> HIDE DEF count
<1>5. \A k \in 0..count : CutAfter(q, k * M, cut[k])
  <2> TAKE k \in 0..count
  <2>1. \E c \in 0..n : \A i \in 1..n : LineOf(q, i) <= k * M <=> i <= c
    BY <1>1, <1>3, LinesEndSomewhere
  <2>2. \E c : CutAfter(q, k * M, c)
    BY <2>1 DEF CutAfter
  <2> QED
    BY <2>2
<1> HIDE DEF cut
<1>6. \A k \in 0..count :
          /\ cut[k] \in 0..n
          /\ \A i \in 1..n : LineOf(q, i) <= k * M <=> i <= cut[k]
  BY <1>5 DEF CutAfter
<1>7. \A i \in 1..n : LineOf(q, i) \in Nat \ {0}
  BY <1>1, LinesGrow
<1>8. cut[0] = 0
  <2>1. cut[0] \in 0..n
    BY <1>3, <1>6
  <2>2. \A i \in 1..n : LineOf(q, i) <= 0 * M <=> i <= cut[0]
    BY <1>3, <1>6
  <2>3. \A i \in 1..n : ~(i <= cut[0])
    BY <1>1, <1>7, <2>2
  <2> QED
    BY <1>1, <2>1, <2>3
<1>9. cut[count] = n
  <2>1. /\ cut[count] \in 0..n
        /\ \A i \in 1..n : LineOf(q, i) <= count * M <=> i <= cut[count]
    BY <1>3, <1>6
  <2>2. n # 0 => n <= cut[count]
    <3> SUFFICES ASSUME n # 0 PROVE n <= cut[count]
      OBVIOUS
    <3>1. n \in 1..n /\ LineOf(q, n) <= count * M
      BY <1>1, <1>2, <1>3
    <3> QED
      BY <2>1, <3>1
  <2> QED
    BY <1>1, <2>1, <2>2
<1>10. ASSUME NEW k \in 1..count
       PROVE  /\ cut[k - 1] < cut[k]
              /\ Pages(content)[k] = SubSeq(q, cut[k - 1] + 1, cut[k])
              /\ Pages(content)[k] # << >>
  <2>1. /\ k \in 0..count /\ k - 1 \in 0..count
        /\ k * M \in Nat /\ (k - 1) * M \in Nat
        /\ k * M = (k - 1) * M + M
        /\ (k - 1) * M + 1 <= lines
    BY <1>3
  <2> DEFINE v == (k - 1) * M
             w == k * M
             a == cut[k - 1]
             b == cut[k]
  <2>2. v \in Nat /\ w \in Nat /\ w = v + M /\ v + 1 <= lines
    BY <2>1
  <2>3. /\ a \in 0..n /\ CutAfter(q, v, a)
        /\ \A i \in 1..n : LineOf(q, i) <= v <=> i <= a
        /\ b \in 0..n /\ CutAfter(q, w, b)
        /\ \A i \in 1..n : LineOf(q, i) <= w <=> i <= b
    BY <1>5, <1>6, <2>1
  <2>4. Pages(content)[k] = Page(q, v + 1, w)
    BY <1>4
  <2> HIDE DEF v, w, a, b
  <2>5. Page(q, v + 1, w) = SubSeq(q, a + 1, b)
    <3>1. /\ q \in Seq(Piece) /\ v \in Nat /\ w \in Nat
          /\ CutAfter(q, v, a) /\ CutAfter(q, w, b)
      BY <1>1, <2>2, <2>3
    <3> QED
      BY ONLY <3>1, PageIsBetweenCuts
  <2>6. n # 0 /\ v + 1 \in 1..LineOf(q, n)
    BY <1>1, <1>2, <2>2
  <2>7. PICK i \in 1..n : LineOf(q, i) = v + 1
    BY <1>1, <2>6, EveryLineIsThere
  <2>8. ~(i <= a) /\ i <= b
    BY <1>1, <2>2, <2>3, <2>7
  <2>9. a < b
    BY <1>1, <2>3, <2>8
  <2>10. Len(SubSeq(q, a + 1, b)) = b - (a + 1) + 1
    <3>1. \A j \in (a + 1)..b : q[j] \in Piece
      BY <1>1, <2>3, ElementOfSeq
    <3> QED
      BY <1>1, <2>3, <2>9, <3>1, SubSeqProperties
  <2>11. SubSeq(q, a + 1, b) # << >>
    <3>1. Len(<< >>) = 0
      OBVIOUS
    <3>2. Len(SubSeq(q, a + 1, b)) # 0
      BY <1>1, <2>3, <2>9, <2>10
    <3> QED
      BY <3>1, <3>2
  <2> QED
    BY <2>4, <2>5, <2>9, <2>11 DEF a, b
<1>11. Pages(content)
           = [k \in 1..count |-> SubSeq(q, cut[k - 1] + 1, cut[k])]
  BY <1>4, <1>10
<1>12. FlattenSeq(Pages(content)) = q
  <2>1. cut \in [0..count -> 0..n]
    <3>1. cut = [k \in 0..count |-> cut[k]]
      BY DEF cut
    <3> QED
      BY <1>6, <3>1
  <2>2. \A k \in 1..count : cut[k - 1] <= cut[k]
    <3> TAKE k \in 1..count
    <3>1. cut[k - 1] \in 0..n /\ cut[k] \in 0..n
      BY <1>3, <1>6
    <3> QED
      BY <1>1, <1>10, <3>1
  <2>3. CutInto(q, count, cut, Pages(content))
    BY <1>1, <1>3, <1>8, <1>9, <1>11, <2>1, <2>2 DEF CutInto
  <2>4. q \in Seq(Piece)
    BY <1>1
  <2> QED
    BY ONLY <2>3, <2>4, CutsTile
<1>13. Len(Pages(content)) = count /\ DOMAIN Pages(content) = 1..count
  BY <1>3, <1>4
<1>14. Len(Pages(content)) * M + 1 > lines
  BY <1>2, <1>3, <1>13
<1> QED
  BY <1>10, <1>12, <1>13, <1>14 DEF q, lines, M

-----------------------------------------------------------------------------
(***************************************************************************)
(* Every file is a text or missing, and so is its copy in the snapshot; an *)
(* edit under way keeps what was read and what the model asked for, and    *)
(* was accepted for just that.                                             *)
(***************************************************************************)
FilesAreTexts ==
    /\ files \in [File -> Seq(Piece) \cup {Missing}]
    /\ snapshot \in [Protected -> Seq(Piece) \cup {Missing}]

EditIsPrepared ==
    tool # NoTool =>
        /\ tool.target \in File
        /\ tool.text \in Seq(Piece)
        /\ tool.op = "replace" =>
               /\ tool.before \in Seq(Piece)
               /\ tool.old \in Seq(Piece) \ {<< >>}
               /\ tool.new \in Seq(Piece)
               /\ Count(ReadText(tool.before), tool.old) = tool.expected
               /\ tool.text = Replace(ReadText(tool.before), tool.old,
                                      tool.new, tool.expected)

TextsInv == FilesAreTexts /\ EditIsPrepared

(***************************************************************************)
(* A workspace starts with the task's texts and no edit.                   *)
(***************************************************************************)
LEMMA InitialTexts == WorkspaceInit => TextsInv
<1> SUFFICES ASSUME WorkspaceInit PROVE TextsInv
  OBVIOUS
<1>1. files \in [File -> Seq(Piece) \cup {Missing}]
  BY WorkspaceAssumption DEF WorkspaceInit
<1>2. snapshot \in [Protected -> Seq(Piece) \cup {Missing}]
  BY <1>1, ToolsAssumption DEF WorkspaceInit
<1> QED
  BY <1>1, <1>2 DEF WorkspaceInit, TextsInv, FilesAreTexts, EditIsPrepared

(***************************************************************************)
(* What write_file prepares is the text it was given.                      *)
(***************************************************************************)
LEMMA WriteIsPrepared ==
    ASSUME TextsInv, NEW name, NEW text \in WriteTexts, NEW overwrite,
           BeginWrite(name, text, overwrite)
    PROVE  TextsInv'
<1>1. /\ tool' = [op |-> "write", target |-> name, text |-> text]
      /\ UNCHANGED <<files, snapshot>>
      /\ ~WriteRefused(name, Content(name), text, overwrite)
  BY DEF BeginWrite, Prepare
<1>2. name \in File
  BY <1>1 DEF WriteRefused, Unwritable
<1>3. text \in Seq(Piece)
  BY WorkspaceAssumption
<1>4. EditIsPrepared'
  <2>1. tool'.target = name /\ tool'.text = text /\ tool'.op = "write"
    BY <1>1
  <2> QED
    BY <1>2, <1>3, <2>1 DEF EditIsPrepared
<1> QED
  BY <1>1, <1>4 DEF TextsInv, FilesAreTexts

(***************************************************************************)
(* What replace_text prepares is a text again.                             *)
(***************************************************************************)
LEMMA ReplaceIsPrepared ==
    ASSUME TextsInv, NEW name,
           NEW old \in Searches, NEW new \in Replacements,
           NEW expected \in Expectations,
           BeginReplace(name, old, new, expected)
    PROVE  TextsInv'
<1> DEFINE before == files[name]
           text == Replace(ReadText(before), old, new, expected)
<1>1. /\ tool' = [op |-> "replace", target |-> name, text |-> text,
                  before |-> before, old |-> old, new |-> new,
                  expected |-> expected]
      /\ UNCHANGED <<files, snapshot>>
      /\ ReplaceAccepted(name, Content(name), old, new, expected)
  BY DEF BeginReplace, Prepare
<1>2. /\ name \in File
      /\ Content(name) = before /\ before # Missing
      /\ old # << >>
      /\ Count(ReadText(before), old) = expected
  BY <1>1 DEF ReplaceAccepted, Unwritable, Unreadable, Content,
              ExpectedOccurrences
<1>3. before \in Seq(Piece)
  BY <1>2 DEF TextsInv, FilesAreTexts
<1>4. old \in Seq(Piece) /\ new \in Seq(Piece)
  BY WorkspaceAssumption
<1>5. text \in Seq(Piece)
  BY <1>2, <1>3, <1>4, ReadTextType, ReplaceIsExact
<1>6. EditIsPrepared'
  <2>1. /\ tool'.target = name /\ tool'.text = text /\ tool'.op = "replace"
        /\ tool'.before = before /\ tool'.old = old /\ tool'.new = new
        /\ tool'.expected = expected
    BY <1>1
  <2> QED
    BY <1>2, <1>3, <1>4, <1>5, <2>1 DEF EditIsPrepared
<1> QED
  BY <1>1, <1>6 DEF TextsInv, FilesAreTexts

(***************************************************************************)
(* A file that is written from its beginning is a text, or it is still     *)
(* missing; if it was empty, it has the text that is written.              *)
(***************************************************************************)
LEMMA OverwrittenType ==
    ASSUME NEW text \in Seq(Piece), NEW content \in Seq(Piece) \cup {Missing}
    PROVE  /\ Overwritten(text, content) \in Seq(Piece) \cup {Missing}
           /\ content = << >> => Overwritten(text, content) = text
<1>1. CASE content = Missing
  <2>1. << >> \in Seq(Piece)
    BY EmptySeq
  <2> QED
    BY <1>1, <2>1, ToolsAssumption DEF Overwritten
<1>2. CASE content # Missing
  <2> DEFINE rest == SubSeq(content, Len(text) + 1, Len(content))
  <2>1. content \in Seq(Piece) /\ Len(content) \in Nat /\ Len(text) \in Nat
    BY <1>2, LenProperties
  <2>2. \A i \in (Len(text) + 1)..Len(content) : content[i] \in Piece
    BY <2>1, ElementOfSeq
  <2>3. rest \in Seq(Piece)
    BY <2>1, <2>2, SubSeqProperties
  <2>4. content = << >> => rest = << >>
    BY <2>1, SubSeqProperties, EmptySeq
  <2>5. Overwritten(text, content) = text \o rest
    BY <1>2 DEF Overwritten
  <2> HIDE DEF rest
  <2>6. text \o rest \in Seq(Piece)
    BY <2>3, ConcatProperties
  <2>7. rest = << >> => text \o rest = text
    BY ConcatEmptySeq
  <2> QED
    BY <2>4, <2>5, <2>6, <2>7
<1> QED
  BY <1>1, <1>2

(***************************************************************************)
(* The restore leaves texts in the files, also where it is cut short.      *)
(***************************************************************************)
LEMMA RestoreKeepsTexts ==
    ASSUME TextsInv, RestoreInv, Restore
    PROVE  files' \in [File -> Seq(Piece) \cup {Missing}]
<1> USE ToolsAssumption DEF TextsInv, FilesAreTexts
<1>1. ASSUME NEW f \in Protected, RemovePath(f) \/ OpenTarget(f)
      PROVE  files' \in [File -> Seq(Piece) \cup {Missing}]
  <2>1. << >> \in Seq(Piece)
    BY EmptySeq
  <2> QED
    BY <1>1, <2>1 DEF RemovePath, Removed, OpenTarget, RestoreStep
<1>2. ASSUME NEW f \in Protected, NEW text \in Seq(Piece),
             files' = [files EXCEPT ![f] = Overwritten(text, files[f])]
      PROVE  files' \in [File -> Seq(Piece) \cup {Missing}]
  <2>1. f \in File /\ files[f] \in Seq(Piece) \cup {Missing}
    OBVIOUS
  <2>2. Overwritten(text, files[f]) \in Seq(Piece) \cup {Missing}
    BY <2>1, OverwrittenType
  <2> QED
    BY <1>2, <2>2
<1>3. ASSUME NEW f \in Protected, restored[f] = "open"
      PROVE  snapshot[f] \in Seq(Piece)
  BY <1>3 DEF RestoreInv
<1>4. ASSUME NEW f \in Protected, WriteTarget(f)
      PROVE  files' \in [File -> Seq(Piece) \cup {Missing}]
  BY <1>2, <1>3, <1>4 DEF WriteTarget, RestoreStep
<1>5. CASE RestoreReturns
  BY <1>5 DEF RestoreReturns
<1>6. CASE RestoreRaises
  <2>1. CASE UNCHANGED files
    BY <2>1
  <2>2. ASSUME NEW f \in Protected, restored[f] = "open",
               NEW n \in 0..Len(snapshot[f]),
               files' = [files EXCEPT ![f] =
                            Overwritten(SubSeq(snapshot[f], 1, n), files[f])]
        PROVE  files' \in [File -> Seq(Piece) \cup {Missing}]
    <3>1. snapshot[f] \in Seq(Piece) /\ Len(snapshot[f]) \in Nat
      BY <1>3, <2>2, LenProperties
    <3>2. \A i \in 1..n : snapshot[f][i] \in Piece
      BY <3>1, ElementOfSeq
    <3>3. SubSeq(snapshot[f], 1, n) \in Seq(Piece)
      BY <3>1, <3>2, SubSeqProperties
    <3> QED
      BY <1>2, <2>2, <3>3
  <2> QED
    BY <1>6, <2>1, <2>2 DEF RestoreRaises
<1> QED
  BY <1>1, <1>4, <1>5, <1>6 DEF Restore

(***************************************************************************)
(* Every step leaves texts in the files, whoever writes them.              *)
(***************************************************************************)
LEMMA StepKeepsTexts ==
    ASSUME TextsInv, RestoreInv, [WorkspaceNext]_vars
    PROVE  TextsInv'
<1>1. ASSUME UNCHANGED <<files, snapshot, tool>>
      PROVE  TextsInv'
  BY <1>1 DEF TextsInv, FilesAreTexts, EditIsPrepared
<1>2. CASE InvalidCall \/ RefuseCommand
  BY <1>1, <1>2 DEF InvalidCall, RefuseCommand, Answer
<1>3. CASE RepositoryTool
  <2>1. PICK name \in Name :
            \/ ListOrSearch(name)
            \/ \E start \in Lines, end \in Lines \cup {Missing} :
                  Read(name, start, end)
            \/ \E text \in WriteTexts, overwrite \in BOOLEAN :
                  \/ RefuseWrite(name, text, overwrite)
                  \/ BeginWrite(name, text, overwrite)
            \/ \E old \in Searches, new \in Replacements,
                  expected \in Expectations :
                  \/ RefuseReplace(name, old, new, expected)
                  \/ BeginReplace(name, old, new, expected)
    BY <1>3 DEF RepositoryTool
  <2>2. CASE \/ ListOrSearch(name)
             \/ \E start \in Lines, end \in Lines \cup {Missing} :
                   Read(name, start, end)
    BY <1>1, <2>2 DEF ListOrSearch, Read, Answer
  <2>3. ASSUME NEW text \in WriteTexts, NEW overwrite \in BOOLEAN,
               \/ RefuseWrite(name, text, overwrite)
               \/ BeginWrite(name, text, overwrite)
        PROVE  TextsInv'
    BY <1>1, <2>3, WriteIsPrepared DEF RefuseWrite, Answer
  <2>4. ASSUME NEW old \in Searches, NEW new \in Replacements,
               NEW expected \in Expectations,
               \/ RefuseReplace(name, old, new, expected)
               \/ BeginReplace(name, old, new, expected)
        PROVE  TextsInv'
    BY <1>1, <2>4, ReplaceIsPrepared DEF RefuseReplace, Answer
  <2> QED
    BY <2>1, <2>2, <2>3, <2>4
<1>4. CASE ReplaceTarget
  <2>1. files' \in [File -> Seq(Piece) \cup {Missing}]
    BY <1>4 DEF ReplaceTarget, TextsInv, FilesAreTexts, EditIsPrepared
  <2> QED
    BY <1>4, <2>1 DEF ReplaceTarget, TextsInv, FilesAreTexts, EditIsPrepared
<1>5. CASE WriteFails
  BY <1>5 DEF WriteFails, TextsInv, FilesAreTexts, EditIsPrepared
<1>6. CASE Restore
  <2>1. files' \in [File -> Seq(Piece) \cup {Missing}]
    BY <1>6, RestoreKeepsTexts
  <2> QED
    BY <1>6, <2>1, RestoreLeaves DEF TextsInv, FilesAreTexts, EditIsPrepared
<1>8. ASSUME NEW p \in Process, ProcessWrites(p)
      PROVE  TextsInv'
  <2>1. files' \in [File -> Seq(Piece) \cup {Missing}]
    BY <1>8, WorkspaceAssumption DEF ProcessWrites, TextsInv, FilesAreTexts
  <2> QED
    BY <1>8, <2>1 DEF ProcessWrites, TextsInv, FilesAreTexts, EditIsPrepared
<1>9. CASE \/ CommandAnswers \/ CommandTimesOut \/ Judge \/ VerificationRaises
           \/ AgentEnds \/ Processes
           \/ \E p \in Process : BeginVerification(p) \/ RunCommand(p)
  BY <1>1, <1>9
     DEF CommandAnswers, CommandTimesOut, Judge, VerificationRaises, AgentEnds,
         Processes, BeginVerification, RunCommand, workspaceVars
<1>10. CASE Terminated \/ UNCHANGED vars
  BY <1>1, <1>10 DEF Terminated, vars, workspaceVars
<1> QED
  BY <1>2, <1>3, <1>4, <1>5, <1>6, <1>8, <1>9, <1>10
     DEF WorkspaceNext, Harness

(***************************************************************************)
(* Files and edits stay what they are made of.                             *)
(***************************************************************************)
THEOREM TextsAreKept == WorkspaceSpec => []TextsInv
BY InitialTexts, StepKeepsTexts, RestoreIsKept, PTL DEF WorkspaceSpec

(***************************************************************************)
(* replace_text is exact: the text put in place is the one that was read,  *)
(* with the expected number of occurrences substituted, and no choice of   *)
(* occurrences that do not overlap has more.                               *)
(***************************************************************************)
THEOREM EditsAreExact == WorkspaceSpec => []EditIsExact
<1>1. TextsInv => EditIsExact
  <2> SUFFICES ASSUME TextsInv, tool.op = "replace" PROVE EditIsExact
    BY DEF EditIsExact
  <2> DEFINE read == ReadText(tool.before)
  <2>1. tool # NoTool
    BY DEF NoTool
  <2>2. /\ tool.before \in Seq(Piece)
        /\ tool.old \in Seq(Piece) /\ tool.old # << >>
        /\ tool.new \in Seq(Piece)
        /\ Count(read, tool.old) = tool.expected
        /\ tool.text = Replace(read, tool.old, tool.new, tool.expected)
    BY <2>1 DEF TextsInv, EditIsPrepared
  <2>3. read \in Seq(Piece)
    BY <2>2, ReadTextType
  <2> HIDE DEF read
  <2>4. /\ \A S \in DisjointOccurrences(read, tool.old) :
               Cardinality(S) <= tool.expected
        /\ \E S \in DisjointOccurrences(read, tool.old) :
               /\ Cardinality(S) = tool.expected
               /\ Replace(read, tool.old, tool.new, tool.expected)
                      = Substituted(read, tool.old, tool.new, S)
    BY ONLY <2>2, <2>3, ReplaceIsExact
  <2> QED
    BY <2>2, <2>4 DEF EditIsExact, read
<1> QED
  BY <1>1, TextsAreKept, PTL

(***************************************************************************)
(* read_file page by page shows a file whole: no line is shown twice or    *)
(* left out, no page is empty, and the page after the last is refused.     *)
(***************************************************************************)
THEOREM PagesShowTheFile == WorkspaceSpec => []PagesTileTheFile
<1>1. TextsInv => PagesTileTheFile
  <2> SUFFICES ASSUME TextsInv, NEW f \in File, files[f] # Missing
               PROVE  /\ FlattenSeq(Pages(files[f])) = ReadText(files[f])
                      /\ \A k \in DOMAIN Pages(files[f]) :
                             Pages(files[f])[k] # << >>
                      /\ files[f] # << >> =>
                             ReadRefused(f, files[f],
                                 Len(Pages(files[f])) * MaxLines + 1, Missing)
    BY DEF PagesTileTheFile
  <2>1. files[f] \in Seq(Piece)
    BY DEF TextsInv, FilesAreTexts
  <2> QED
    BY <2>1, PagesTile DEF ReadRefused
<1> QED
  BY <1>1, TextsAreKept, PTL
-----------------------------------------------------------------------------
(***************************************************************************)
(* The steps of the restore tamper with nothing: each leaves the file that *)
(* it handles as it is due, if that was as the step before had left it,    *)
(* and does not touch the others.                                          *)
(***************************************************************************)
LEMMA RestoreIsFaithful ==
    ASSUME TextsInv, RestoreInv, Restore,
           NEW f \in Protected, Tampered(f)'
    PROVE  Tampered(f)
<1> USE ToolsAssumption DEF TextsInv, FilesAreTexts, RestoreInv
<1>1. /\ stage = "restoring"
      /\ stage' \in {"restoring", "verifying"} /\ restored'[f] # "untouched"
      /\ UNCHANGED snapshot
  BY RestoreLeaves DEF Tampered
<1>2. ASSUME UNCHANGED <<files[f], restored[f]>>
      PROVE  Tampered(f)
  BY <1>1, <1>2 DEF Tampered, Due
<1>3. ASSUME NEW g \in Protected, g # f,
             RemovePath(g) \/ OpenTarget(g) \/ WriteTarget(g)
      PROVE  Tampered(f)
  <2>1. UNCHANGED <<files[f], restored[f]>>
    BY <1>3 DEF RemovePath, OpenTarget, WriteTarget, RestoreStep
  <2> QED
    BY <1>2, <2>1
<1>4. CASE RemovePath(f) \/ OpenTarget(f)
  <2>1. files'[f] = Due(f)'
    BY <1>4 DEF RemovePath, Removed, OpenTarget, RestoreStep, Due
  <2> QED
    BY <2>1 DEF Tampered
<1>5. CASE WriteTarget(f)
  <2>1. /\ restored[f] = "open" /\ restored'[f] = "written"
        /\ files'[f] = Overwritten(snapshot[f], files[f])
        /\ snapshot[f] \in Seq(Piece)
    BY <1>5 DEF WriteTarget, RestoreStep
  <2>2. Due(f) = << >> /\ Due(f)' = snapshot[f]
    BY <1>1, <2>1 DEF Due
  <2>3. files[f] # << >>
    BY <2>1, <2>2, OverwrittenType DEF Tampered
  <2> QED
    BY <1>1, <2>1, <2>2, <2>3 DEF Tampered
<1>6. CASE RestoreReturns
  BY <1>2, <1>6 DEF RestoreReturns
<1>7. CASE RestoreRaises
  BY <1>1, <1>7 DEF RestoreRaises
<1> QED
  BY <1>3, <1>4, <1>5, <1>6, <1>7 DEF Restore

(***************************************************************************)
(* Nor does anybody else but a process: one is there only if it kept       *)
(* neither the output of its command nor, after a time-out, its group.     *)
(***************************************************************************)
UndisturbedStep ==
    (\E f \in Protected : Tampered(f)' /\ ~Tampered(f)) =>
        \E p \in alive \ output : group[p] \notin expired

LEMMA StepIsUndisturbed ==
    ASSUME TextsInv, RestoreInv, RunnerInv, StageInv, [WorkspaceNext]_vars
    PROVE  UndisturbedStep
<1> SUFFICES ASSUME NEW f \in Protected, Tampered(f)', ~Tampered(f)
             PROVE  \E p \in alive \ output : group[p] \notin expired
  BY DEF UndisturbedStep
<1>1. ~Restore
  BY RestoreIsFaithful
<1>2. /\ UNCHANGED <<snapshot, restored>>
      /\ stage' \in {stage, "restoring"} /\ stage' \in {"restoring", "verifying"}
      /\ restored[f] # "untouched"
  BY <1>1, OthersLeaveRestore DEF Tampered
<1>3. ASSUME UNCHANGED <<stage, files>>
      PROVE  FALSE
  BY <1>2, <1>3 DEF Tampered, Due
<1>4. ASSUME NEW p \in Process, ProcessWrites(p)
      PROVE  p \in alive \ output /\ group[p] \notin expired
  <2>1. stage \in {"restoring", "verifying"} /\ p \in alive
    BY <1>2, <1>4 DEF ProcessWrites
  <2>2. output = {}
    BY <2>1 DEF StageInv, RunnerInv, IdleIsOver, CommandOver
  <2> QED
    BY <2>1, <2>2 DEF RunnerInv, ExpiredAreGone
<1>5. CASE AgentEnds \/ ReplaceTarget \/ WriteFails
  <2>1. stage # "agent"
    BY <1>2 DEF RestoreInv
  <2> QED
    BY <1>5, <2>1 DEF AgentEnds, Dispatching, ReplaceTarget, WriteFails,
                      StageInv
<1>6. CASE \/ Judge \/ VerificationRaises
           \/ \E p \in Process : BeginVerification(p)
  BY <1>2, <1>6 DEF Judge, VerificationRaises, BeginVerification
<1>7. CASE \/ CommandAnswers \/ CommandTimesOut \/ Processes
           \/ \E p \in Process : RunCommand(p)
           \/ Terminated \/ UNCHANGED vars
  BY <1>3, <1>7 DEF CommandAnswers, CommandTimesOut, Processes, RunCommand,
                    Terminated, vars, workspaceVars
<1> QED
  BY <1>1, <1>3, <1>4, <1>5, <1>6, <1>7, ToolsLeaveCommands
     DEF WorkspaceNext, Harness

(***************************************************************************)
(* The verification starts from the task's own tests, unless a process is  *)
(* left behind that the runner had no hold on.                             *)
(***************************************************************************)
THEOREM OwnTestsAreVerified == WorkspaceSpec => VerificationStartsFromOwnTests
<1>1. WorkspaceInit => StageInv
  BY DEF WorkspaceInit, StageInv
<1>2. WorkspaceSpec => []StageInv
  BY <1>1, StageStep, PTL DEF WorkspaceSpec
<1>3. WorkspaceSpec => []RunnerInv
  BY WorkspaceImplementsRunner, RunnerIsCorrect, PTL
<1>4. WorkspaceSpec => [][UndisturbedStep]_vars
  <2>1. /\ [WorkspaceNext]_vars
        /\ TextsInv /\ RestoreInv /\ RunnerInv /\ StageInv
        => [UndisturbedStep]_vars
    BY StepIsUndisturbed
  <2> QED
    BY <1>2, <1>3, <2>1, TextsAreKept, RestoreIsKept, PTL DEF WorkspaceSpec
<1>5. RestoreInv =>
          (stage = "verifying" => \A f \in Protected : Due(f) = snapshot[f])
  BY DEF RestoreInv, Through, Due
<1>6. WorkspaceSpec =>
          [](stage = "verifying" => \A f \in Protected : Due(f) = snapshot[f])
  BY <1>5, RestoreIsKept, PTL
<1> QED
  BY <1>4, <1>6 DEF VerificationStartsFromOwnTests, UndisturbedStep
=============================================================================
