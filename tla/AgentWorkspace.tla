--------------------------- MODULE AgentWorkspace ---------------------------
(***************************************************************************)
(* One workspace while an agent works in it and is then judged: tool calls *)
(* one after the other (tools/dispatcher.py), of RepositoryTools or of     *)
(* CommandRunner, next to whatever processes the commands have left behind *)
(* and which read and write the same files.  When the agent has ended,     *)
(* TaskRunner restores the protected files, one after the other, and runs  *)
(* the task's tests, again by CommandRunner, with those processes still    *)
(* there all the time.                                                     *)
(***************************************************************************)
EXTENDS CommandRunner, RepositoryTools

CONSTANTS
    Source,         \* the task's files: texts a workspace may start with
    WriteTexts,     \* texts of write_file
    Searches,       \* search texts of replace_text, and what they are
    Replacements,   \*   replaced by
    Expectations,   \* expected_replacements the model asks for
    Lines,          \* line numbers the model asks for
    ProcessTexts    \* what processes make of a file; Missing: they delete it

ASSUME WorkspaceAssumption ==
    /\ Source \subseteq [File -> Seq(Piece) \cup {Missing}]
    /\ WriteTexts \cup Searches \cup Replacements \subseteq Seq(Piece)
    /\ ProcessTexts \subseteq Seq(Piece) \cup {Missing}
    /\ Expectations \subseteq Int

VARIABLES
    stage,      \* "agent", then "restoring", "verifying", "testing", and at
                \* the end "judged" or "raised"
    files,      \* the text of each file, or Missing
    snapshot,   \* VerifierSnapshot of the protected files
    restored,   \* how far restore has got with each of them: "untouched",
                \* "removed", "open" (for writing) or "written"
    tool,       \* the write under way, or NoTool
    reply       \* the ToolResponse the agent got last: "none", "ok" or "error"

workspaceVars == <<stage, files, snapshot, restored, tool, reply>>

vars == <<commandVars, workspaceVars>>

NoTool == [op |-> "none"]

WorkspaceInit ==
    /\ Init
    /\ stage = "agent"
    /\ files \in Source
    /\ snapshot = [f \in Protected |-> files[f]]
    /\ restored = [f \in Protected |-> "untouched"]
    /\ tool = NoTool
    /\ reply = "none"

Dispatching == stage = "agent" /\ phase = "idle" /\ tool = NoTool

Content(name) == IF name \in File THEN files[name] ELSE Missing

-----------------------------------------------------------------------------
(***************************************************************************)
(* dispatch: unknown names, arguments the schema rejects, and whatever a   *)
(* tool refuses become an error response.                                  *)
(***************************************************************************)
Answer(how) ==
    /\ reply' = how
    /\ UNCHANGED <<commandVars, stage, files, snapshot, restored, tool>>

InvalidCall == Dispatching /\ Answer("error")

Read(name, start, end) ==
    /\ Dispatching
    /\ Answer(IF ReadRefused(name, Content(name), start, end)
              THEN "error" ELSE "ok")

(***************************************************************************)
(* list_files and search_repo need a path that resolves and exists.        *)
(***************************************************************************)
ListOrSearch(name) ==
    /\ Dispatching
    /\ Answer(IF Content(name) = Missing THEN "error" ELSE "ok")

RefuseWrite(name, text, overwrite) ==
    /\ Dispatching
    /\ WriteRefused(name, Content(name), text, overwrite)
    /\ Answer("error")

RefuseReplace(name, old, new, expected) ==
    /\ Dispatching
    /\ ~ReplaceAccepted(name, Content(name), old, new, expected)
    /\ Answer("error")

(***************************************************************************)
(* _validate_command, _resolve_working_directory, _resolve_timeout, or an  *)
(* OSError of Popen.                                                       *)
(***************************************************************************)
RefuseCommand == Dispatching /\ Answer("error")

-----------------------------------------------------------------------------
(***************************************************************************)
(* write_file and replace_text up to _write_atomic: the new text is in a   *)
(* temporary file next to the target.  A process may write the target      *)
(* between this and os.replace.                                            *)
(***************************************************************************)
Prepare(pending) ==
    /\ tool' = pending
    /\ UNCHANGED <<commandVars, stage, files, snapshot, restored, reply>>

BeginWrite(name, text, overwrite) ==
    /\ Dispatching
    /\ ~WriteRefused(name, Content(name), text, overwrite)
    /\ Prepare([op |-> "write", target |-> name, text |-> text])

BeginReplace(name, old, new, expected) ==
    /\ Dispatching
    /\ ReplaceAccepted(name, Content(name), old, new, expected)
    /\ Prepare([op |-> "replace", target |-> name,
                text |-> Replace(ReadText(files[name]), old, new, expected),
                before |-> files[name], old |-> old, new |-> new,
                expected |-> expected])

(***************************************************************************)
(* os.replace, or an OSError before it: the finally clause removes the     *)
(* temporary file.                                                         *)
(***************************************************************************)
ReplaceTarget ==
    /\ tool # NoTool
    /\ files' = [files EXCEPT ![tool.target] = tool.text]
    /\ tool' = NoTool
    /\ reply' = "ok"
    /\ UNCHANGED <<commandVars, stage, snapshot, restored>>

WriteFails ==
    /\ tool # NoTool
    /\ tool' = NoTool
    /\ reply' = "error"
    /\ UNCHANGED <<commandVars, stage, files, snapshot, restored>>

-----------------------------------------------------------------------------
(***************************************************************************)
(* run_command and run_tests of the agent.  One command is left for the    *)
(* verification.  Output that is no UTF-8 makes communicate raise a        *)
(* ValueError when it has all been read.                                   *)
(***************************************************************************)
RunCommand(p) ==
    /\ Dispatching
    /\ command + 1 < MaxCommands
    /\ Start(p)
    /\ reply' = "none"
    /\ UNCHANGED <<stage, files, snapshot, restored, tool>>

CommandAnswers ==
    /\ stage = "agent"
    /\ Finish \/ Drain
    /\ reply' \in {"ok", "error"}
    /\ UNCHANGED <<stage, files, snapshot, restored, tool>>

CommandTimesOut == TimeOut /\ UNCHANGED workspaceVars

Processes == ProcessStep /\ UNCHANGED workspaceVars

ProcessWrites(p) ==
    /\ p \in alive
    /\ \E f \in File, text \in ProcessTexts :
           files' = [files EXCEPT ![f] = text]
    /\ UNCHANGED <<commandVars, stage, snapshot, restored, tool, reply>>

-----------------------------------------------------------------------------
(***************************************************************************)
(* TaskRunner.run after the agent: VerifierSnapshot.restore, run_tests.    *)
(***************************************************************************)
AgentEnds ==
    /\ Dispatching
    /\ stage' = "restoring"
    /\ reply' = "none"
    /\ UNCHANGED <<commandVars, files, snapshot, restored, tool>>

(***************************************************************************)
(* One step of restore on a protected file.                                *)
(***************************************************************************)
RestoreStep(f, before, after, text) ==
    /\ stage = "restoring"
    /\ restored[f] = before
    /\ restored' = [restored EXCEPT ![f] = after]
    /\ files' = [files EXCEPT ![f] = text]
    /\ UNCHANGED <<commandVars, stage, snapshot, tool, reply>>

(***************************************************************************)
(* _remove_path, for whatever is below the protected paths now.  Mutated   *)
(* form: only what the snapshot has is removed.                            *)
(***************************************************************************)
RemovedIfKnown(f) == IF snapshot[f] = Missing THEN files[f] ELSE Missing

Removed(f) == Missing

RemovePath(f) == RestoreStep(f, "untouched", "removed", Removed(f))

(***************************************************************************)
(* write_bytes, when all paths have been removed: the file is opened,      *)
(* which truncates it, and written from its beginning.  What a process has *)
(* put there in between stays behind that; of a file that was deleted      *)
(* nothing is left.                                                        *)
(***************************************************************************)
Overwritten(text, content) ==
    IF content = Missing THEN Missing
    ELSE text \o SubSeq(content, Len(text) + 1, Len(content))

OpenTarget(f) ==
    /\ \A g \in Protected : restored[g] \notin {"untouched", "open"}
    /\ snapshot[f] # Missing
    /\ RestoreStep(f, "removed", "open", << >>)

WriteTarget(f) ==
    RestoreStep(f, "open", "written", Overwritten(snapshot[f], files[f]))

RestoreReturns ==
    /\ stage = "restoring"
    /\ \A f \in Protected :
           restored[f] = IF snapshot[f] = Missing THEN "removed" ELSE "written"
    /\ stage' = "verifying"
    /\ UNCHANGED <<commandVars, files, snapshot, restored, tool, reply>>

(***************************************************************************)
(* Any of it raises an OSError, a write also when a part of the text is in *)
(* the file.  No dispatcher is there to catch it.                          *)
(***************************************************************************)
RestoreRaises ==
    /\ stage = "restoring"
    /\ stage' = "raised"
    /\ \/ UNCHANGED files
       \/ \E f \in Protected :
              /\ restored[f] = "open"
              /\ \E n \in 0..Len(snapshot[f]) :
                    files' = [files EXCEPT ![f] =
                        Overwritten(SubSeq(snapshot[f], 1, n), files[f])]
    /\ UNCHANGED <<commandVars, snapshot, restored, tool, reply>>

BeginVerification(p) ==
    /\ stage = "verifying"
    /\ Start(p)
    /\ stage' = "testing"
    /\ UNCHANGED <<files, snapshot, restored, tool, reply>>

Judge ==
    /\ stage = "testing"
    /\ Finish \/ Drain
    /\ stage' = "judged"
    /\ UNCHANGED <<files, snapshot, restored, tool, reply>>

Restore ==
    \/ \E f \in Protected : RemovePath(f) \/ OpenTarget(f) \/ WriteTarget(f)
    \/ RestoreReturns
    \/ RestoreRaises

(***************************************************************************)
(* A command that is not allowed, output that is no UTF-8: nothing catches *)
(* that either.                                                            *)
(***************************************************************************)
VerificationRaises ==
    /\ \/ stage = "verifying" /\ UNCHANGED commandVars
       \/ stage = "testing" /\ (Finish \/ Drain)
    /\ stage' = "raised"
    /\ UNCHANGED <<files, snapshot, restored, tool, reply>>

RepositoryTool ==
    \E name \in Name :
        \/ ListOrSearch(name)
        \/ \E start \in Lines, end \in Lines \cup {Missing} :
              Read(name, start, end)
        \/ \E text \in WriteTexts, overwrite \in BOOLEAN :
              \/ RefuseWrite(name, text, overwrite)
              \/ BeginWrite(name, text, overwrite)
        \/ \E old \in Searches, new \in Replacements, expected \in Expectations :
              \/ RefuseReplace(name, old, new, expected)
              \/ BeginReplace(name, old, new, expected)

Harness ==
    \/ ReplaceTarget \/ WriteFails
    \/ CommandAnswers \/ CommandTimesOut
    \/ Restore
    \/ \E p \in Process : BeginVerification(p)
    \/ Judge \/ VerificationRaises

Terminated == stage \in {"judged", "raised"} /\ UNCHANGED vars

WorkspaceNext ==
    \/ InvalidCall \/ RefuseCommand \/ RepositoryTool
    \/ \E p \in Process : RunCommand(p)
    \/ AgentEnds
    \/ Processes
    \/ \E p \in Process : ProcessWrites(p)
    \/ Harness
    \/ Terminated

WorkspaceSpec == WorkspaceInit /\ [][WorkspaceNext]_vars

(***************************************************************************)
(* The harness goes on: time-outs expire, and communicate returns when     *)
(* there is nothing left to read.  Nothing is assumed of the processes.    *)
(***************************************************************************)
FairWorkspaceSpec == WorkspaceSpec /\ WF_vars(Harness)

-----------------------------------------------------------------------------
(***************************************************************************)
(* "Replace an exact number of text occurrences" (repository.py): the text *)
(* about to be put in place is the one that was read with as many          *)
(* occurrences replaced as expected, and there were no more.  Line endings *)
(* are the exception: the whole file comes out with LF.                    *)
(***************************************************************************)
EditIsExact ==
    tool.op = "replace" =>
        LET read == ReadText(tool.before)
            choices == DisjointOccurrences(read, tool.old)
        IN  /\ \A S \in choices : Cardinality(S) <= tool.expected
            /\ \E S \in choices :
                   /\ Cardinality(S) = tool.expected
                   /\ tool.text = Substituted(read, tool.old, tool.new, S)

(***************************************************************************)
(* Reading a file page by page, as the model has to, shows every line once *)
(* and in order, and the page after the last is refused.                   *)
(***************************************************************************)
PagesTileTheFile ==
    \A f \in File : files[f] # Missing =>
        LET pages == Pages(files[f]) IN
        /\ FlattenSeq(pages) = ReadText(files[f])
        /\ \A k \in DOMAIN pages : pages[k] # << >>
        /\ files[f] # << >> =>
               ReadRefused(f, files[f], Len(pages) * MaxLines + 1, Missing)

(***************************************************************************)
(* What restore leaves of a protected file with each step, and whether the *)
(* file has become something else before the verification starts.          *)
(***************************************************************************)
Due(f) ==
    CASE restored[f] = "removed" -> Missing
      [] restored[f] = "open" -> << >>
      [] restored[f] = "written" -> snapshot[f]

Tampered(f) ==
    /\ stage \in {"restoring", "verifying"}
    /\ restored[f] # "untouched"
    /\ files[f] # Due(f)

(***************************************************************************)
(* The verification starts from the task's own protected files, whatever   *)
(* the agent did to them: of each the restore is through with what was     *)
(* there before the agent, and what a step of it has left changes only     *)
(* while a process is there that a command has left behind: one that had   *)
(* closed its output, and had left its group if its command was timed out. *)
(***************************************************************************)
VerificationStartsFromOwnTests ==
    /\ [](stage = "verifying" => \A f \in Protected : Due(f) = snapshot[f])
    /\ [][(\E f \in Protected : Tampered(f)' /\ ~Tampered(f)) =>
              \E p \in alive \ output : group[p] \notin expired]_vars
=============================================================================
