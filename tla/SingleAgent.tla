---------------------------- MODULE SingleAgent ----------------------------
(***************************************************************************)
(* SingleAgent.run (agent/single.py): the model/tool loop of one agent.    *)
(* The transcript is what the next request sends, so it is kept message by *)
(* message; the text of the messages is left out, but for what tells a     *)
(* blank answer from another.                                              *)
(***************************************************************************)
EXTENDS Naturals, Sequences

CONSTANTS
    MaxSteps,   \* max_steps
    Blank,      \* empty content, and an absent call id
    Text,       \* non-empty contents of a model's message
    CallId,     \* the call ids a provider may send
    MaxCalls    \* bound: tool calls in one model message

ASSUME SingleAgentAssumption ==
    /\ MaxSteps \in Nat \ {0}
    /\ MaxCalls \in Nat \ {0}
    /\ Blank \notin Text \cup CallId

VARIABLES
    pc,             \* "requesting", "dispatching", "returned" or "raised"
    step,           \* the loop variable
    messages,       \* the transcript after the system and user messages
    resolved_calls, \* tool calls of this step still to dispatch
    model_calls,    \* contents of the answered model calls
    tool_records,   \* the tool calls dispatched, [step, id]
    final_answer,
    forced,         \* steps whose request had tool_choice = "none"
    status

vars == <<pc, step, messages, resolved_calls, model_calls, tool_records,
          final_answer, forced, status>>

(***************************************************************************)
(* A resolved id is the provider's, or made from the step and the          *)
(* position of the call in its message.                                    *)
(***************************************************************************)
FallbackId == (1..MaxSteps) \X (0..MaxCalls - 1)

ResolvedId == CallId \cup FallbackId

Message ==
    [role : {"assistant"}, calls : Seq(ResolvedId)]
        \cup [role : {"tool"}, id : ResolvedId]

Failing == {"failed", "max_steps"}

TypeOK ==
    /\ pc \in {"requesting", "dispatching", "returned", "raised"}
    /\ step \in 1..MaxSteps
    /\ messages \in Seq(Message)
    /\ resolved_calls \in Seq(ResolvedId)
    /\ model_calls \in Seq(Text \cup {Blank})
    /\ tool_records \in Seq([step : 1..MaxSteps, id : ResolvedId])
    /\ final_answer \in Text \cup {Blank}
    /\ forced \subseteq 1..MaxSteps
    /\ status \in {"none", "completed"} \cup Failing

Init ==
    /\ pc = "requesting"
    /\ step = 1
    /\ messages = << >>
    /\ resolved_calls = << >>
    /\ model_calls = << >>
    /\ tool_records = << >>
    /\ final_answer = Blank
    /\ forced = {}
    /\ status = "none"

-----------------------------------------------------------------------------
(***************************************************************************)
(* _complete: the last step asks for an answer without tools.              *)
(***************************************************************************)
Forced == IF step = MaxSteps THEN forced \cup {step} ELSE forced

Request == pc = "requesting" /\ forced' = Forced

RequestFails ==
    /\ Request
    /\ pc' = "returned"
    /\ status' = "failed"
    /\ UNCHANGED <<step, messages, resolved_calls, model_calls, tool_records,
                   final_answer>>

(***************************************************************************)
(* An exception that is not an OpenRouterError leaves run.                 *)
(***************************************************************************)
RequestRaises ==
    /\ Request
    /\ pc' = "raised"
    /\ UNCHANGED <<step, messages, resolved_calls, model_calls, tool_records,
                   final_answer, status>>

(***************************************************************************)
(* Mutated form: a blank answer replaces the final answer.                 *)
(***************************************************************************)
LatestContent(content) == content

LatestText(content) == IF content = Blank THEN final_answer ELSE content

Receive(content) ==
    /\ model_calls' = Append(model_calls, content)
    /\ final_answer' = LatestText(content)

AnswersWithoutTools ==
    /\ Request
    /\ \E content \in Text \cup {Blank} : Receive(content)
    /\ messages' = Append(messages, [role |-> "assistant", calls |-> << >>])
    /\ pc' = "returned"
    /\ status' = "completed"
    /\ UNCHANGED <<step, resolved_calls, tool_records>>

(***************************************************************************)
(* Mutated form: the fallback id does not tell the steps apart.            *)
(***************************************************************************)
ResolveByPosition(ids) ==
    [i \in DOMAIN ids |-> IF ids[i] = Blank THEN <<1, i - 1>> ELSE ids[i]]

Resolve(ids) ==
    [i \in DOMAIN ids |-> IF ids[i] = Blank THEN <<step, i - 1>> ELSE ids[i]]

(***************************************************************************)
(* An answer with tool calls, on the forced last step as on any other: it  *)
(* goes into the transcript with its calls before any of them runs.        *)
(***************************************************************************)
AnswersWithTools ==
    /\ Request
    /\ \E content \in Text \cup {Blank} : Receive(content)
    /\ \E n \in 1..MaxCalls : \E ids \in [1..n -> CallId \cup {Blank}] :
           resolved_calls' = Resolve(ids)
    /\ messages' = Append(messages,
                          [role |-> "assistant", calls |-> resolved_calls'])
    /\ pc' = "dispatching"
    /\ UNCHANGED <<step, tool_records, status>>

-----------------------------------------------------------------------------
(***************************************************************************)
(* One tool call: the dispatcher turns every error of a tool into a        *)
(* response, so each call is recorded and answered.  After the last one    *)
(* the loop takes its next step or gives up.  Mutated forms: the loop      *)
(* makes one step too many; a message's calls after the first are dropped. *)
(***************************************************************************)
NoStepLeftAfterOneMore == step > MaxSteps

NoStepLeft == step = MaxSteps

NoOtherCalls == << >>

OtherCalls == Tail(resolved_calls)

Dispatch ==
    /\ pc = "dispatching"
    /\ LET id == Head(resolved_calls) IN
           /\ tool_records' = Append(tool_records, [step |-> step, id |-> id])
           /\ messages' = Append(messages, [role |-> "tool", id |-> id])
    /\ resolved_calls' = OtherCalls
    /\ IF OtherCalls # << >>
       THEN UNCHANGED <<pc, step, status>>
       ELSE IF NoStepLeft
            THEN /\ pc' = "returned"
                 /\ status' = "max_steps"
                 /\ UNCHANGED step
            ELSE /\ pc' = "requesting"
                 /\ step' = step + 1
                 /\ UNCHANGED status
    /\ UNCHANGED <<model_calls, final_answer, forced>>

Terminated == pc \in {"returned", "raised"} /\ UNCHANGED vars

Next ==
    \/ RequestFails \/ RequestRaises
    \/ AnswersWithoutTools \/ AnswersWithTools
    \/ Dispatch
    \/ Terminated

Spec == Init /\ [][Next]_vars

-----------------------------------------------------------------------------
(***************************************************************************)
(* Every request the model sees is well formed: each assistant message     *)
(* with tool calls is followed by their responses, one for each call and   *)
(* in the order of the calls, and there is no other response.  Providers   *)
(* refuse a transcript in which a call is unanswered.                      *)
(***************************************************************************)
Answered(i) ==
    \A k \in DOMAIN messages[i].calls :
        /\ i + k \in DOMAIN messages
        /\ messages[i+k] = [role |-> "tool", id |-> messages[i].calls[k]]

TranscriptAnswersEveryCall ==
    pc \in {"requesting", "returned"} =>
        /\ \A i \in DOMAIN messages :
               messages[i].role = "assistant" => Answered(i)
        /\ \A j \in DOMAIN messages :
               messages[j].role = "tool" =>
                   \E i \in 1..j-1 :
                       /\ messages[i].role = "assistant"
                       /\ j \in i+1..i+Len(messages[i].calls)

(***************************************************************************)
(* A made-up id names one call of the whole run: a provider that sends no  *)
(* ids still gets each response under an id of its own.                    *)
(***************************************************************************)
FallbackIdsAreUnique ==
    \A i, j \in DOMAIN tool_records :
        /\ tool_records[i].id = tool_records[j].id
        /\ tool_records[i].id \notin CallId
        => i = j

(***************************************************************************)
(* The counts of the result agree: an answered call for each step taken,   *)
(* but for the failed last one; only the last step is forced; a run over   *)
(* its limit used its last, forced answer for tools; and the final answer  *)
(* is the model's latest text.                                             *)
(***************************************************************************)
AnswerIsLatestText ==
    \E n \in 0..Len(model_calls) :
        /\ final_answer = IF n = 0 THEN Blank ELSE model_calls[n]
        /\ n > 0 => model_calls[n] # Blank
        /\ \A i \in n+1..Len(model_calls) : model_calls[i] = Blank

TraceIsConsistent ==
    pc = "returned" =>
        /\ step = Len(model_calls) + (IF status = "failed" THEN 1 ELSE 0)
        /\ forced = {step} \cap {MaxSteps}
        /\ status = "max_steps" => tool_records[Len(tool_records)].step \in forced
        /\ AnswerIsLatestText

-----------------------------------------------------------------------------
(***************************************************************************)
(* For an orchestrator the agent is a worker that makes whole steps: a     *)
(* model call counts when its tool calls have been dispatched.             *)
(***************************************************************************)
WorkerState ==
    CASE pc = "raised" -> "raised"
      [] pc = "returned" -> status
      [] OTHER -> "running"

Contract == INSTANCE WorkerContract
    WITH state <- WorkerState,
         calls <- IF pc = "dispatching" THEN Len(model_calls) - 1
                                        ELSE Len(model_calls)

(***************************************************************************)
(* SingleAgent is a worker as the orchestrated strategies model it.        *)
(***************************************************************************)
ImplementsWorkerContract == Contract!Spec
=============================================================================
