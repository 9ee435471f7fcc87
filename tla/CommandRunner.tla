--------------------------- MODULE CommandRunner ---------------------------
(***************************************************************************)
(* CommandRunner.run (tools/command.py) and the processes it starts.  A    *)
(* command is the leader of a process group of its own; it may fork, and   *)
(* its descendants may leave the group, close their output, outlive it.    *)
(* communicate() returns when the leader has ended and nobody holds the    *)
(* pipes of its output any more; after a time-out the group is killed and  *)
(* the output is read again, this time without a limit.                    *)
(***************************************************************************)
EXTENDS Naturals

CONSTANTS
    Process,        \* processes there may be at a time
    MaxCommands,    \* bound: commands in a behaviour
    MarkerLength,   \* len(_TRUNCATION_MARKER)
    MaxOutput       \* max_output_chars

ASSUME CommandAssumption ==
    /\ Process # {}
    /\ MaxCommands \in Nat
    /\ MarkerLength \in Nat
    /\ MaxOutput \in Nat \ {0}

VARIABLES
    phase,      \* "idle"; "waiting" in the first communicate, "draining" in
                \* the second
    command,    \* number of the last command, which is its process group too
    leader,     \* the process Popen started for it
    alive,      \* processes that run
    group,      \* the group of each process, Own once it left its command's
    output,     \* processes that hold the pipes of the command's output
    expired     \* commands that were timed out

commandVars == <<phase, command, leader, alive, group, output, expired>>

Own == 0

TypeOK ==
    /\ phase \in {"idle", "waiting", "draining"}
    /\ command \in 0..MaxCommands
    /\ leader \in Process
    /\ alive \subseteq Process
    /\ group \in [Process -> 0..MaxCommands]
    /\ output \subseteq Process
    /\ expired \subseteq 1..MaxCommands

Init ==
    /\ phase = "idle"
    /\ command = 0
    /\ leader = CHOOSE p \in Process : TRUE
    /\ alive = {}
    /\ group = [p \in Process |-> Own]
    /\ output = {}
    /\ expired = {}

-----------------------------------------------------------------------------
(***************************************************************************)
(* run: the validated command starts in a new session.                     *)
(***************************************************************************)
Start(p) ==
    /\ phase = "idle"
    /\ command < MaxCommands
    /\ p \notin alive
    /\ command' = command + 1
    /\ leader' = p
    /\ alive' = alive \cup {p}
    /\ group' = [group EXCEPT ![p] = command + 1]
    /\ output' = output \cup {p}
    /\ phase' = "waiting"
    /\ UNCHANGED expired

(***************************************************************************)
(* What processes do by themselves.  A child inherits group and output; a  *)
(* group's leader cannot leave it.                                         *)
(***************************************************************************)
RunnerWaits == UNCHANGED <<phase, command, leader, expired>>

Fork(p, q) ==
    /\ p \in alive /\ q \notin alive \cup {leader}
    /\ alive' = alive \cup {q}
    /\ group' = [group EXCEPT ![q] = group[p]]
    /\ output' = IF p \in output THEN output \cup {q} ELSE output
    /\ RunnerWaits

LeaveGroup(p) ==
    /\ p \in alive \ {leader}
    /\ group[p] # Own
    /\ group' = [group EXCEPT ![p] = Own]
    /\ RunnerWaits /\ UNCHANGED <<alive, output>>

CloseOutput(p) ==
    /\ p \in alive \cap output
    /\ output' = output \ {p}
    /\ RunnerWaits /\ UNCHANGED <<alive, group>>

Exit(p) ==
    /\ p \in alive
    /\ alive' = alive \ {p}
    /\ output' = output \ {p}
    /\ RunnerWaits /\ UNCHANGED group

ProcessStep ==
    \E p \in Process :
        \/ \E q \in Process : Fork(p, q)
        \/ LeaveGroup(p) \/ CloseOutput(p) \/ Exit(p)

(***************************************************************************)
(* communicate: end of file on both pipes, and the leader waited for.      *)
(***************************************************************************)
CommandOver == leader \notin alive /\ output = {}

Return ==
    /\ phase' = "idle"
    /\ UNCHANGED <<command, leader, alive, group, output, expired>>

Finish == phase = "waiting" /\ CommandOver /\ Return

(***************************************************************************)
(* TimeoutExpired, which a command that just ends may still meet, and      *)
(* _terminate_process_group.  Mutated form: only the leader is killed.     *)
(***************************************************************************)
OnlyLeader == {leader}

Killed == {p \in Process : group[p] = command}

TimeOut ==
    /\ phase = "waiting"
    /\ alive' = alive \ Killed
    /\ output' = output \ Killed
    /\ expired' = expired \cup {command}
    /\ phase' = "draining"
    /\ UNCHANGED <<command, leader, group>>

(***************************************************************************)
(* The second communicate(), without a time-out.                           *)
(***************************************************************************)
Drain == phase = "draining" /\ CommandOver /\ Return

Runner == Finish \/ TimeOut \/ Drain

Next == (\E p \in Process : Start(p)) \/ ProcessStep \/ Runner

Spec == Init /\ [][Next]_commandVars

-----------------------------------------------------------------------------
(***************************************************************************)
(* _truncate: the characters kept of the beginning and of the end of an    *)
(* output of n characters, and the length of what is returned.             *)
(***************************************************************************)
KeptOfOutput ==
    IF MaxOutput > MarkerLength THEN MaxOutput - MarkerLength ELSE 0

KeptAtBeginning == KeptOfOutput \div 2

KeptAtEnd == KeptOfOutput - KeptAtBeginning

TruncatedLength(n) ==
    IF n <= MaxOutput THEN n ELSE KeptAtBeginning + MarkerLength + KeptAtEnd

-----------------------------------------------------------------------------
(***************************************************************************)
(* When run has returned, its output is complete (nobody is left who could *)
(* add to it), and of a command that was timed out no process is left but  *)
(* those that had moved to a session of their own.                         *)
(***************************************************************************)
ReturnedCommandIsOver ==
    phase = "idle" =>
        /\ CommandOver
        /\ \A p \in alive : group[p] \notin expired

(***************************************************************************)
(* A call of run returns, unless in the end a descendant that escaped into *)
(* a session of its own keeps holding the output.  The members of the      *)
(* group need not do anything for that: they are killed.                   *)
(***************************************************************************)
CommandReturns ==
    \/ []<>(phase = "idle")
    \/ <>[](\E p \in alive \cap output : group[p] = Own)
=============================================================================
