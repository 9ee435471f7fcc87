--------------------------- MODULE AgentRunProofs ---------------------------
(***************************************************************************)
(* The agent without a plan, and its model calls up to the record of the   *)
(* run.  For every limit of steps and calls, every content and every use a *)
(* provider makes of call ids: the transcript answers every call, made-up  *)
(* ids are unique, and the agent is the worker the strategies rely on.     *)
(* For every set of events and however they are framed and cut: what is    *)
(* parsed is what was sent, the message is the one its deltas describe,    *)
(* and the output rate of a run lies between those of its calls.           *)
(***************************************************************************)
EXTENDS SingleAgent, RunTelemetry, SequenceTheorems, FiniteSetTheorems,
        WellFoundedInduction, TLAPS

(***************************************************************************)
(* The model calls answered so far follow the loop variable.               *)
(***************************************************************************)
CountInv ==
    /\ pc \in {"requesting", "returned"} => resolved_calls = << >>
    /\ pc = "requesting" => Len(model_calls) = step - 1
    /\ pc = "dispatching" =>
           Len(model_calls) = step /\ resolved_calls # << >>

TypeInv == TypeOK /\ CountInv

-----------------------------------------------------------------------------
(***************************************************************************)
(* A transcript holds assistant messages, with the calls they ask for, and *)
(* tool messages, each with the id it answers.                             *)
(***************************************************************************)
LEMMA MessageTypes ==
    /\ \A asked \in Seq(ResolvedId) :
           [role |-> "assistant", calls |-> asked] \in Message
    /\ \A id \in ResolvedId : [role |-> "tool", id |-> id] \in Message
    /\ \A m \in Message :
           /\ m.role = "assistant" => m.calls \in Seq(ResolvedId)
           /\ m.role \in {"assistant", "tool"}
BY DEF Message

(***************************************************************************)
(* The ids of a message with tool calls after they have been resolved.     *)
(***************************************************************************)
LEMMA ResolvedCalls ==
    ASSUME TypeOK, NEW n \in 1..MaxCalls,
           NEW ids \in [1..n -> CallId \cup {Blank}]
    PROVE  /\ Resolve(ids) \in Seq(ResolvedId)
           /\ Len(Resolve(ids)) = n
           /\ Resolve(ids) # << >>
           /\ \A i \in 1..n : Resolve(ids)[i] \in CallId \cup {<<step, i - 1>>}
<1>1. n \in Nat \ {0} /\ n <= MaxCalls /\ step \in 1..MaxSteps
  BY SingleAgentAssumption DEF TypeOK
<1>2. \A i \in 1..n : <<step, i - 1>> \in FallbackId
  BY <1>1, SingleAgentAssumption DEF FallbackId
<1>3. Resolve(ids) \in [1..n -> ResolvedId]
  BY <1>2 DEF Resolve, ResolvedId
<1>4. Resolve(ids) \in Seq(ResolvedId)
  BY <1>1, <1>3, SeqDef
<1>5. Len(Resolve(ids)) = n
  BY <1>1, <1>3, <1>4, LenProperties
<1> QED
  BY <1>1, <1>4, <1>5, EmptySeq DEF Resolve

(***************************************************************************)
(* A run starts in the types.                                              *)
(***************************************************************************)
LEMMA InitialTypes == Init => TypeInv
BY SingleAgentAssumption DEF Init, TypeInv, TypeOK, CountInv, Failing

(***************************************************************************)
(* A request notes its step only if it is the forced last one.             *)
(***************************************************************************)
LEMMA RequestTypes ==
    ASSUME TypeInv, Request
    PROVE  forced' \subseteq 1..MaxSteps
BY DEF TypeInv, TypeOK, Request, Forced

(***************************************************************************)
(* An answered request adds one model call, and the final answer is a      *)
(* text.                                                                   *)
(***************************************************************************)
LEMMA ReceiveTypes ==
    ASSUME TypeInv, NEW said \in Text \cup {Blank}, Receive(said)
    PROVE  /\ model_calls' \in Seq(Text \cup {Blank})
           /\ Len(model_calls') = Len(model_calls) + 1
           /\ final_answer' \in Text \cup {Blank}
BY AppendProperties DEF TypeInv, TypeOK, Receive, LatestText

(***************************************************************************)
(* The calls of a message are dispatched from the front, one at a time.    *)
(***************************************************************************)
LEMMA DispatchTypes ==
    ASSUME TypeInv, Dispatch
    PROVE  /\ Head(resolved_calls) \in ResolvedId
           /\ Head(resolved_calls) = resolved_calls[1]
           /\ Len(resolved_calls) \in Nat \ {0}
           /\ OtherCalls \in Seq(ResolvedId)
           /\ Len(OtherCalls) = Len(resolved_calls) - 1
           /\ \A i \in 1..(Len(resolved_calls) - 1) :
                  OtherCalls[i] = resolved_calls[i + 1]
<1>1. resolved_calls \in Seq(ResolvedId) /\ resolved_calls # << >>
  BY DEF TypeInv, TypeOK, CountInv, Dispatch
<1> QED
  BY <1>1, HeadTailProperties, EmptySeq DEF OtherCalls

(***************************************************************************)
(* Every step keeps the types and the count of the calls.                  *)
(***************************************************************************)
LEMMA TypeStep ==
    ASSUME TypeInv, [Next]_vars
    PROVE  TypeInv'
<1>1. CASE RequestFails \/ RequestRaises
  BY <1>1, RequestTypes
     DEF RequestFails, RequestRaises, Request, TypeInv, TypeOK, CountInv, Failing
<1>2. CASE AnswersWithoutTools
  <2>1. PICK said \in Text \cup {Blank} : Receive(said)
    BY <1>2 DEF AnswersWithoutTools
  <2>2. << >> \in Seq(ResolvedId)
    BY EmptySeq
  <2>3. messages' \in Seq(Message)
    BY <1>2, <2>2, MessageTypes, AppendProperties
       DEF AnswersWithoutTools, TypeInv, TypeOK
  <2> QED
    BY <1>2, <2>1, <2>3, RequestTypes, ReceiveTypes
       DEF AnswersWithoutTools, Request, TypeInv, TypeOK, CountInv
<1>3. CASE AnswersWithTools
  <2>1. PICK said \in Text \cup {Blank} : Receive(said)
    BY <1>3 DEF AnswersWithTools
  <2>2. resolved_calls' \in Seq(ResolvedId) /\ resolved_calls' # << >>
    BY <1>3, ResolvedCalls DEF AnswersWithTools, TypeInv
  <2>3. messages' \in Seq(Message)
    BY <1>3, <2>2, MessageTypes, AppendProperties
       DEF AnswersWithTools, TypeInv, TypeOK
  <2> QED
    BY <1>3, <2>1, <2>2, <2>3, RequestTypes, ReceiveTypes
       DEF AnswersWithTools, Request, TypeInv, TypeOK, CountInv
<1>4. CASE Dispatch
  <2> DEFINE id == Head(resolved_calls)
  <2>1. messages' \in Seq(Message)
    BY <1>4, DispatchTypes, MessageTypes, AppendProperties
       DEF Dispatch, TypeInv, TypeOK
  <2>2. tool_records' \in Seq([step : 1..MaxSteps, id : ResolvedId])
    <3>1. [step |-> step, id |-> id] \in [step : 1..MaxSteps, id : ResolvedId]
      BY <1>4, DispatchTypes DEF TypeInv, TypeOK
    <3>2. /\ tool_records \in Seq([step : 1..MaxSteps, id : ResolvedId])
          /\ tool_records' = Append(tool_records, [step |-> step, id |-> id])
      BY <1>4 DEF Dispatch, TypeInv, TypeOK
    <3> QED
      BY <3>1, <3>2, AppendProperties
  <2>3. resolved_calls' = OtherCalls /\ OtherCalls \in Seq(ResolvedId)
    BY <1>4, DispatchTypes DEF Dispatch
  <2>4. UNCHANGED <<model_calls, final_answer, forced>> /\ pc = "dispatching"
    BY <1>4 DEF Dispatch
  <2>5. CASE OtherCalls # << >>
    <3>1. UNCHANGED <<pc, step, status>>
      BY <1>4, <2>5 DEF Dispatch
    <3> QED
      BY <2>1, <2>2, <2>3, <2>4, <2>5, <3>1 DEF TypeInv, TypeOK, CountInv
  <2>6. CASE OtherCalls = << >> /\ NoStepLeft
    <3>1. pc' = "returned" /\ status' = "max_steps" /\ step' = step
      BY <1>4, <2>6 DEF Dispatch
    <3> QED
      BY <2>1, <2>2, <2>3, <2>4, <2>6, <3>1
         DEF TypeInv, TypeOK, CountInv, Failing
  <2>7. CASE OtherCalls = << >> /\ ~NoStepLeft
    <3>1. pc' = "requesting" /\ step' = step + 1 /\ status' = status
      BY <1>4, <2>7 DEF Dispatch
    <3>2. step' \in 1..MaxSteps
      BY <2>7, <3>1, SingleAgentAssumption DEF NoStepLeft, TypeInv, TypeOK
    <3> QED
      BY <2>1, <2>2, <2>3, <2>4, <2>7, <3>1, <3>2
         DEF TypeInv, TypeOK, CountInv
  <2> QED
    BY <2>5, <2>6, <2>7
<1>5. CASE Terminated \/ UNCHANGED vars
  BY <1>5 DEF Terminated, vars, TypeInv, TypeOK, CountInv
<1> QED
  BY <1>1, <1>2, <1>3, <1>4, <1>5 DEF Next

(***************************************************************************)
(* The types, and that the calls counted follow the loop.                  *)
(***************************************************************************)
LEMMA TypesAreInvariant == Spec => []TypeInv
BY InitialTypes, TypeStep, PTL DEF Spec

(***************************************************************************)
(* The transcript, the records and the counters stay in their types.       *)
(***************************************************************************)
THEOREM TypeCorrect == Spec => []TypeOK
BY TypesAreInvariant, PTL DEF TypeInv

-----------------------------------------------------------------------------
(***************************************************************************)
(* The transcript while calls are dispatched: what follows an assistant    *)
(* message are responses to its calls, in order, and the calls that have   *)
(* none yet are those still to dispatch.                                   *)
(***************************************************************************)
Response(call) == [role |-> "tool", id |-> call]

Owned(j) ==
    \E i \in 1..(j - 1) :
        /\ messages[i].role = "assistant"
        /\ j \in (i + 1)..(i + Len(messages[i].calls))

AnsweredOrPending(i) ==
    /\ i + Len(messages[i].calls) <= Len(messages) + Len(resolved_calls)
    /\ \A k \in 1..Len(messages[i].calls) :
           IF i + k <= Len(messages)
           THEN messages[i + k] = Response(messages[i].calls[k])
           ELSE resolved_calls[i + k - Len(messages)] = messages[i].calls[k]

TranscriptInv ==
    /\ \A i \in 1..Len(messages) :
           messages[i].role = "assistant" => AnsweredOrPending(i)
    /\ \A j \in 1..Len(messages) : messages[j].role = "tool" => Owned(j)
    /\ pc = "dispatching" =>
           \E i \in 1..Len(messages) :
               /\ messages[i].role = "assistant"
               /\ i + Len(messages[i].calls)
                      = Len(messages) + Len(resolved_calls)

(***************************************************************************)
(* The lengths that the arguments about the transcript count with.         *)
(***************************************************************************)
LEMMA Lengths ==
    ASSUME TypeInv
    PROVE  /\ Len(messages) \in Nat
           /\ DOMAIN messages = 1..Len(messages)
           /\ Len(resolved_calls) \in Nat
           /\ \A i \in 1..Len(messages) :
                  messages[i].role = "assistant" =>
                      /\ Len(messages[i].calls) \in Nat
                      /\ DOMAIN messages[i].calls = 1..Len(messages[i].calls)
<1>1. messages \in Seq(Message) /\ resolved_calls \in Seq(ResolvedId)
  BY DEF TypeInv, TypeOK
<1>2. \A i \in 1..Len(messages) :
          messages[i].role = "assistant" => messages[i].calls \in Seq(ResolvedId)
  BY <1>1, MessageTypes, ElementOfSeq
<1> QED
  BY <1>1, <1>2, LenProperties

(***************************************************************************)
(* An assistant message at the end: what is answered stays so, and all its *)
(* own calls are pending.                                                  *)
(***************************************************************************)
LEMMA AnswerExtendsTranscript ==
    ASSUME TypeInv, TranscriptInv, pc = "requesting",
           NEW asked \in Seq(ResolvedId),
           messages' = Append(messages, [role |-> "assistant", calls |-> asked]),
           resolved_calls' = asked
    PROVE  TranscriptInv'
<1> DEFINE M == Len(messages)
           m == [role |-> "assistant", calls |-> asked]
<1>1. /\ M \in Nat /\ Len(messages') = M + 1
      /\ \A i \in 1..M : messages'[i] = messages[i]
      /\ messages'[M + 1] = m
  BY MessageTypes, AppendProperties, Lengths DEF TypeInv, TypeOK
<1>2. Len(resolved_calls) = 0 /\ Len(asked) \in Nat
  BY EmptySeq, LenProperties DEF TypeInv, CountInv
<1>3. m.role = "assistant" /\ m.calls = asked
  OBVIOUS
<1> HIDE DEF m
<1>4. \A i \in 1..M : messages[i].role = "assistant" =>
          /\ Len(messages[i].calls) \in Nat
          /\ i + Len(messages[i].calls) <= M
          /\ \A k \in 1..Len(messages[i].calls) :
                 messages[i + k] = Response(messages[i].calls[k])
  BY <1>1, <1>2, Lengths DEF TranscriptInv, AnsweredOrPending
<1>5. ASSUME NEW i \in 1..(M + 1), messages'[i].role = "assistant"
      PROVE  AnsweredOrPending(i)'
  <2>1. CASE i = M + 1
    BY <1>1, <1>2, <1>3, <2>1 DEF AnsweredOrPending
  <2>2. CASE i \in 1..M
    <3>1. messages'[i] = messages[i] /\ messages[i].role = "assistant"
      BY <1>1, <1>5, <2>2
    <3>2. \A k \in 1..Len(messages[i].calls) :
              i + k \in 1..M /\ messages'[i + k] = messages[i + k]
      BY <1>1, <1>4, <2>2, <3>1
    <3> QED
      BY <1>1, <1>2, <1>4, <2>2, <3>1, <3>2 DEF AnsweredOrPending, Response
  <2> QED
    BY <1>1, <2>1, <2>2
<1>6. ASSUME NEW j \in 1..(M + 1), messages'[j].role = "tool"
      PROVE  Owned(j)'
  <2>1. j \in 1..M /\ messages[j].role = "tool"
    BY <1>1, <1>3, <1>6
  <2>2. PICK i \in 1..(j - 1) :
            /\ messages[i].role = "assistant"
            /\ j \in (i + 1)..(i + Len(messages[i].calls))
    BY <2>1 DEF TranscriptInv, Owned
  <2>3. i \in 1..M
    BY <1>1, <2>1
  <2> QED
    BY <1>1, <2>2, <2>3 DEF Owned
<1>7. /\ M + 1 \in 1..(M + 1)
      /\ messages'[M + 1].role = "assistant"
      /\ (M + 1) + Len(messages'[M + 1].calls)
             = Len(messages') + Len(resolved_calls')
  <2>1. messages'[M + 1].role = "assistant" /\ messages'[M + 1].calls = asked
    BY <1>1, <1>3
  <2>2. Len(resolved_calls') = Len(asked)
    OBVIOUS
  <2>3. M + 1 \in 1..(M + 1) /\ Len(messages') = M + 1
    BY <1>1
  <2> QED
    BY <2>1, <2>2, <2>3
<1> QED
  BY <1>1, <1>5, <1>6, <1>7 DEF TranscriptInv

(***************************************************************************)
(* A tool message at the end answers the first call that is pending.       *)
(***************************************************************************)
LEMMA DispatchExtendsTranscript ==
    ASSUME TypeInv, TranscriptInv, Dispatch
    PROVE  TranscriptInv'
<1> DEFINE M == Len(messages)
           R == Len(resolved_calls)
           m == Response(resolved_calls[1])
<1>1. /\ M \in Nat /\ Len(messages') = M + 1
      /\ \A i \in 1..M : messages'[i] = messages[i]
      /\ messages'[M + 1] = m
  <2>1. messages \in Seq(Message) /\ messages' = Append(messages, m)
    BY DispatchTypes DEF Dispatch, TypeInv, TypeOK, Response
  <2>2. m \in Message
    BY DispatchTypes, MessageTypes DEF Response
  <2> QED
    BY <2>1, <2>2, AppendProperties, Lengths
<1>2. /\ R \in Nat \ {0} /\ Len(resolved_calls') = R - 1
      /\ \A i \in 1..(R - 1) : resolved_calls'[i] = resolved_calls[i + 1]
  BY DispatchTypes DEF Dispatch
<1>3. m.role = "tool"
  BY DEF Response
<1>4. \A i \in 1..M : messages[i].role = "assistant" =>
          Len(messages[i].calls) \in Nat
  BY Lengths
<1> HIDE DEF m
<1>5. ASSUME NEW i \in 1..(M + 1), messages'[i].role = "assistant"
      PROVE  AnsweredOrPending(i)'
  <2>1. i \in 1..M /\ messages'[i] = messages[i] /\ messages[i].role = "assistant"
    BY <1>1, <1>3, <1>5
  <2> DEFINE asked == messages[i].calls
  <2>2. AnsweredOrPending(i)
    BY <2>1 DEF TranscriptInv
  <2>3. Len(asked) \in Nat /\ i + Len(asked) <= M + R
    BY <1>4, <2>1, <2>2 DEF AnsweredOrPending
  <2>4. \A k \in 1..Len(asked) :
            IF i + k <= M THEN messages[i + k] = Response(asked[k])
            ELSE resolved_calls[i + k - M] = asked[k]
    BY <2>2 DEF AnsweredOrPending
  <2>5. ASSUME NEW k \in 1..Len(asked)
        PROVE  IF i + k <= M + 1 THEN messages'[i + k] = Response(asked[k])
               ELSE resolved_calls'[i + k - (M + 1)] = asked[k]
    <3>1. i \in Nat /\ k \in Nat /\ k >= 1 /\ i >= 1 /\ i + k <= M + R
      BY <1>1, <1>2, <2>1, <2>3, <2>5
    <3> HIDE DEF M, R, asked
    <3>2. CASE i + k <= M
      <4>1. i + k \in 1..M /\ i + k <= M + 1
        BY <1>1, <3>1, <3>2
      <4> QED
        BY <1>1, <2>4, <2>5, <3>2, <4>1
    <3>3. CASE i + k = M + 1
      <4>1. ~(i + k <= M) /\ i + k - M = 1
        BY <1>1, <3>3
      <4>2. resolved_calls[1] = asked[k]
        BY <2>4, <2>5, <4>1
      <4> QED
        BY <1>1, <3>3, <4>2 DEF m
    <3>4. CASE i + k > M + 1
      <4>1. i + k - (M + 1) \in 1..(R - 1)
        BY <1>1, <1>2, <3>1, <3>4
      <4>2. (i + k - (M + 1)) + 1 = i + k - M /\ ~(i + k <= M + 1) /\ ~(i + k <= M)
        BY <1>1, <3>1, <3>4
      <4>3. resolved_calls'[i + k - (M + 1)] = resolved_calls[i + k - M]
        BY <1>2, <4>1, <4>2
      <4> QED
        BY <2>4, <2>5, <4>2, <4>3
    <3> QED
      BY <1>1, <3>1, <3>2, <3>3, <3>4
  <2>6. i + Len(messages'[i].calls) <= Len(messages') + Len(resolved_calls')
    BY <1>1, <1>2, <2>1, <2>3
  <2>7. \A k \in 1..Len(messages'[i].calls) :
            IF i + k <= Len(messages')
            THEN messages'[i + k] = Response(messages'[i].calls[k])
            ELSE resolved_calls'[i + k - Len(messages')] = messages'[i].calls[k]
    <3> HIDE DEF M, R, asked
    <3>1. Len(messages') = M + 1 /\ messages'[i].calls = asked
      BY <1>1, <2>1 DEF asked
    <3> QED
      BY <2>5, <3>1
  <2> QED
    BY <2>6, <2>7 DEF AnsweredOrPending, Response
<1>6. PICK last \in 1..M :
          /\ messages[last].role = "assistant"
          /\ last + Len(messages[last].calls) = M + R
  BY DEF TranscriptInv, Dispatch
<1>7. ASSUME NEW j \in 1..(M + 1), messages'[j].role = "tool"
      PROVE  Owned(j)'
  <2>1. CASE j = M + 1
    <3>1. last \in 1..(j - 1) /\ j \in (last + 1)..(last + Len(messages[last].calls))
      BY <1>1, <1>2, <1>4, <1>6, <2>1
    <3> QED
      BY <1>1, <1>6, <3>1 DEF Owned
  <2>2. CASE j \in 1..M
    <3>1. PICK i \in 1..(j - 1) :
              /\ messages[i].role = "assistant"
              /\ j \in (i + 1)..(i + Len(messages[i].calls))
      BY <1>1, <1>7, <2>2 DEF TranscriptInv, Owned
    <3>2. i \in 1..M
      BY <1>1, <2>2
    <3> QED
      BY <1>1, <3>1, <3>2 DEF Owned
  <2> QED
    BY <1>1, <2>1, <2>2
<1>8. /\ last \in 1..(M + 1)
      /\ messages'[last].role = "assistant"
      /\ last + Len(messages'[last].calls) = Len(messages') + Len(resolved_calls')
  <2>1. messages'[last] = messages[last] /\ last \in 1..(M + 1)
    BY <1>1, <1>6
  <2>2. Len(messages') + Len(resolved_calls') = M + R
    BY <1>1, <1>2
  <2> QED
    BY <1>6, <2>1, <2>2
<1> QED
  BY <1>1, <1>5, <1>7, <1>8 DEF TranscriptInv

(***************************************************************************)
(* Every step keeps what is known of the transcript.                       *)
(***************************************************************************)
LEMMA TranscriptStep ==
    ASSUME TypeInv, TranscriptInv, [Next]_vars
    PROVE  TranscriptInv'
<1>1. CASE \/ RequestFails \/ RequestRaises \/ Terminated \/ UNCHANGED vars
  <2>1. /\ UNCHANGED <<messages, resolved_calls>>
        /\ pc' = "dispatching" => pc = "dispatching"
    BY <1>1 DEF RequestFails, RequestRaises, Terminated, vars
  <2> QED
    BY <2>1 DEF TranscriptInv, AnsweredOrPending, Owned, Response
<1>2. CASE AnswersWithoutTools
  <2>1. /\ pc = "requesting" /\ resolved_calls = << >>
        /\ resolved_calls' = << >>
        /\ messages' = Append(messages, [role |-> "assistant", calls |-> << >>])
    BY <1>2 DEF AnswersWithoutTools, Request, TypeInv, CountInv
  <2>2. << >> \in Seq(ResolvedId)
    BY EmptySeq
  <2> QED
    BY <2>1, <2>2, AnswerExtendsTranscript
<1>3. CASE AnswersWithTools
  <2>1. resolved_calls' \in Seq(ResolvedId)
    BY <1>3, ResolvedCalls DEF AnswersWithTools, TypeInv
  <2> QED
    BY <1>3, <2>1, AnswerExtendsTranscript DEF AnswersWithTools, Request
<1> QED
  BY <1>1, <1>2, <1>3, DispatchExtendsTranscript DEF Next

(***************************************************************************)
(* Every request a provider gets, and the transcript a run ends with,      *)
(* answers each tool call once, in order, and nothing else.                *)
(***************************************************************************)
THEOREM TranscriptIsAnswered == Spec => []TranscriptAnswersEveryCall
<1>1. Init => TranscriptInv
  BY DEF Init, TranscriptInv
<1>2. TypeInv /\ TranscriptInv => TranscriptAnswersEveryCall
  <2> SUFFICES ASSUME TypeInv, TranscriptInv, pc \in {"requesting", "returned"}
               PROVE  /\ \A i \in 1..Len(messages) :
                             messages[i].role = "assistant" => Answered(i)
                      /\ \A j \in 1..Len(messages) :
                             messages[j].role = "tool" => Owned(j)
    BY Lengths DEF TranscriptAnswersEveryCall, Owned
  <2>1. Len(resolved_calls) = 0
    BY EmptySeq DEF TypeInv, CountInv
  <2>2. ASSUME NEW i \in 1..Len(messages), messages[i].role = "assistant"
        PROVE  Answered(i)
    <3>0. AnsweredOrPending(i)
      BY <2>2 DEF TranscriptInv
    <3>1. Len(messages[i].calls) \in Nat /\ i + Len(messages[i].calls) <= Len(messages)
      BY <2>1, <2>2, <3>0, Lengths DEF AnsweredOrPending
    <3>2. \A k \in 1..Len(messages[i].calls) :
              /\ i + k \in 1..Len(messages)
              /\ messages[i + k] = Response(messages[i].calls[k])
      BY <3>0, <3>1, Lengths DEF AnsweredOrPending
    <3> QED
      BY <2>2, <3>2, Lengths DEF Answered, Response
  <2> QED
    BY <2>2 DEF TranscriptInv
<1> QED
  BY <1>1, <1>2, TranscriptStep, TypesAreInvariant, PTL DEF Spec

-----------------------------------------------------------------------------
(***************************************************************************)
(* A made-up id holds the step and the position of its call: in a step,    *)
(* the positions already dispatched are below those still to dispatch.     *)
(***************************************************************************)
MadeUp(call, s, pos) == call \in CallId \/ call = <<s, pos>>

RecordedIds ==
    \A i \in 1..Len(tool_records) :
        \E pos \in Nat :
            MadeUp(tool_records[i].id, tool_records[i].step, pos)

RequestIsNewStep ==
    pc = "requesting" =>
        \A i \in 1..Len(tool_records) : tool_records[i].step < step

PendingIds ==
    pc = "dispatching" =>
        \E done \in Nat :
            /\ \A k \in 1..Len(resolved_calls) :
                   MadeUp(resolved_calls[k], step, done + k - 1)
            /\ \A i \in 1..Len(tool_records) :
                   \/ tool_records[i].step < step
                   \/ /\ tool_records[i].step = step
                      /\ \E pos \in 0..(done - 1) :
                             MadeUp(tool_records[i].id, step, pos)

IdInv ==
    RecordedIds /\ RequestIsNewStep /\ PendingIds /\ FallbackIdsAreUnique

(***************************************************************************)
(* The indices and steps of the tool records are numbers.                  *)
(***************************************************************************)
LEMMA RecordIndices ==
    ASSUME TypeInv
    PROVE  /\ Len(tool_records) \in Nat
           /\ DOMAIN tool_records = 1..Len(tool_records)
           /\ step \in Nat
           /\ \A i \in 1..Len(tool_records) : tool_records[i].step \in Nat
<1>1. tool_records \in Seq([step : 1..MaxSteps, id : ResolvedId])
  BY DEF TypeInv, TypeOK
<1>2. \A i \in 1..Len(tool_records) :
          tool_records[i] \in [step : 1..MaxSteps, id : ResolvedId]
  BY <1>1, ElementOfSeq
<1> QED
  BY <1>1, <1>2, LenProperties, SingleAgentAssumption DEF TypeInv, TypeOK

(***************************************************************************)
(* The ids made up for a new message carry a step that no record has.      *)
(***************************************************************************)
LEMMA RequestKeepsIds ==
    ASSUME TypeInv, IdInv, AnswersWithTools
    PROVE  IdInv'
<1>0. PICK n \in 1..MaxCalls :
          \E ids \in [1..n -> CallId \cup {Blank}] :
              resolved_calls' = Resolve(ids)
  BY DEF AnswersWithTools
<1>1. PICK ids \in [1..n -> CallId \cup {Blank}] :
          resolved_calls' = Resolve(ids)
  BY <1>0
<1>2. /\ pc = "requesting" /\ pc' = "dispatching"
      /\ UNCHANGED <<step, tool_records>>
  BY DEF AnswersWithTools, Request
<1>3. \A k \in 1..Len(resolved_calls') :
          MadeUp(resolved_calls'[k], step', 0 + k - 1)
  <2>1. n \in Nat
    BY SingleAgentAssumption
  <2> QED
    BY <1>1, <1>2, <2>1, ResolvedCalls DEF TypeInv, MadeUp
<1> QED
  BY <1>2, <1>3
     DEF IdInv, RecordedIds, RequestIsNewStep, PendingIds, MadeUp,
         FallbackIdsAreUnique

(***************************************************************************)
(* The record of a call takes over its id, and the position within the     *)
(* message goes up.                                                        *)
(***************************************************************************)
LEMMA DispatchKeepsIds ==
    ASSUME TypeInv, IdInv, Dispatch
    PROVE  IdInv'
<1> DEFINE N == Len(tool_records)
           R == Len(resolved_calls)
           id == resolved_calls[1]
<1>1. /\ N \in Nat /\ Len(tool_records') = N + 1
      /\ DOMAIN tool_records' = 1..(N + 1) /\ DOMAIN tool_records = 1..N
      /\ \A i \in 1..N : tool_records'[i] = tool_records[i]
      /\ tool_records'[N + 1].step = step /\ tool_records'[N + 1].id = id
  <2> DEFINE r == [step |-> step, id |-> id]
  <2>1. /\ tool_records \in Seq([step : 1..MaxSteps, id : ResolvedId])
        /\ tool_records' = Append(tool_records, r)
        /\ r \in [step : 1..MaxSteps, id : ResolvedId]
    BY DispatchTypes DEF Dispatch, TypeInv, TypeOK
  <2>2. r.step = step /\ r.id = id
    OBVIOUS
  <2> HIDE DEF r, id
  <2>3. /\ tool_records' \in Seq([step : 1..MaxSteps, id : ResolvedId])
        /\ Len(tool_records') = N + 1
        /\ \A i \in 1..N : tool_records'[i] = tool_records[i]
        /\ tool_records'[N + 1] = r
    BY <2>1, AppendProperties
  <2> QED
    BY <2>2, <2>3, LenProperties, RecordIndices
<1>2. /\ R \in Nat \ {0} /\ Len(resolved_calls') = R - 1
      /\ \A i \in 1..(R - 1) : resolved_calls'[i] = resolved_calls[i + 1]
  BY DispatchTypes DEF Dispatch
<1>3. step \in Nat /\ \A i \in 1..N : tool_records[i].step \in Nat
  BY RecordIndices
<1>4. PICK done \in Nat :
          /\ \A k \in 1..R : MadeUp(resolved_calls[k], step, done + k - 1)
          /\ \A i \in 1..N :
                 \/ tool_records[i].step < step
                 \/ /\ tool_records[i].step = step
                    /\ \E pos \in 0..(done - 1) :
                           MadeUp(tool_records[i].id, step, pos)
  BY DEF IdInv, PendingIds, Dispatch
<1>5. MadeUp(id, step, done)
  <2>1. 1 \in 1..R /\ done + 1 - 1 = done
    BY <1>2
  <2> QED
    BY <1>4, <2>1
<1> HIDE DEF N, R, id
<1>6. \A i \in 1..(N + 1) :
          \E pos \in Nat : MadeUp(tool_records'[i].id, tool_records'[i].step, pos)
  <2> TAKE i \in 1..(N + 1)
  <2>1. CASE i = N + 1
    BY <1>1, <1>5, <2>1
  <2>2. CASE i \in 1..N
    BY <1>1, <2>2 DEF IdInv, RecordedIds, N
  <2> QED
    BY <1>1, <2>1, <2>2
<1>7. \A i \in 1..(N + 1) :
          \/ tool_records'[i].step < step
          \/ /\ tool_records'[i].step = step
             /\ \E pos \in 0..done : MadeUp(tool_records'[i].id, step, pos)
  <2> TAKE i \in 1..(N + 1)
  <2>1. CASE i = N + 1
    <3>1. done \in 0..done
      OBVIOUS
    <3> QED
      BY <1>1, <1>5, <2>1, <3>1
  <2>2. CASE i \in 1..N
    <3>1. 0..(done - 1) \subseteq 0..done
      OBVIOUS
    <3> QED
      BY <1>1, <1>4, <2>2, <3>1
  <2> QED
    BY <1>1, <2>1, <2>2
<1>8. ASSUME NEW i \in 1..N, id \notin CallId
      PROVE  tool_records[i].id # id
  <2>1. id = <<step, done>>
    BY <1>5, <1>8 DEF MadeUp
  <2>2. CASE tool_records[i].step < step
    <3>1. PICK pos \in Nat : MadeUp(tool_records[i].id, tool_records[i].step, pos)
      BY DEF IdInv, RecordedIds, N
    <3>2. tool_records[i].step # step
      BY <1>3, <2>2
    <3>3. <<tool_records[i].step, pos>> # <<step, done>>
      BY <3>2
    <3> QED
      BY <1>8, <2>1, <3>1, <3>3 DEF MadeUp
  <2>3. CASE ~(tool_records[i].step < step)
    <3>1. PICK pos \in 0..(done - 1) : MadeUp(tool_records[i].id, step, pos)
      BY <1>4, <2>3
    <3>2. pos # done
      OBVIOUS
    <3>3. <<step, pos>> # <<step, done>>
      BY <3>2
    <3> QED
      BY <1>8, <2>1, <3>1, <3>3 DEF MadeUp
  <2> QED
    BY <2>2, <2>3
<1>9. FallbackIdsAreUnique'
  <2> SUFFICES ASSUME NEW i \in 1..(N + 1), NEW j \in 1..(N + 1),
                      tool_records'[i].id = tool_records'[j].id,
                      tool_records'[i].id \notin CallId
               PROVE  i = j
    BY <1>1 DEF FallbackIdsAreUnique
  <2>1. (i \in 1..N \/ i = N + 1) /\ (j \in 1..N \/ j = N + 1)
    BY <1>1
  <2>2. CASE i \in 1..N /\ j \in 1..N
    BY <1>1, <2>2 DEF IdInv, FallbackIdsAreUnique
  <2> QED
    BY <1>1, <1>8, <2>1, <2>2
<1>10. ASSUME pc' = "requesting"
       PROVE  step' = step + 1
  BY <1>10 DEF Dispatch
<1>11. ASSUME pc' = "dispatching"
       PROVE  step' = step
  BY <1>11 DEF Dispatch
<1>12. \A k \in 1..(R - 1) : MadeUp(resolved_calls'[k], step, (done + 1) + k - 1)
  <2> TAKE k \in 1..(R - 1)
  <2>1. k + 1 \in 1..R /\ (done + 1) + k - 1 = done + (k + 1) - 1
    BY <1>2
  <2> QED
    BY <1>2, <1>4, <2>1
<1>13. RecordedIds'
  BY <1>1, <1>6 DEF RecordedIds, MadeUp
<1>14. RequestIsNewStep'
  <2>1. ASSUME pc' = "requesting", NEW i \in 1..(N + 1)
        PROVE  tool_records'[i].step < step'
    <3>1. tool_records'[i].step < step \/ tool_records'[i].step = step
      BY <1>7
    <3>2. tool_records'[i].step \in Nat
      BY <1>1, <1>3 DEF N
    <3> QED
      BY <1>3, <1>10, <2>1, <3>1, <3>2
  <2> QED
    BY <1>1, <2>1 DEF RequestIsNewStep
<1>15. PendingIds'
  <2> SUFFICES ASSUME pc' = "dispatching" PROVE PendingIds'
    BY DEF PendingIds
  <2>1. done + 1 \in Nat /\ 0..((done + 1) - 1) = 0..done
    OBVIOUS
  <2>2. \A k \in 1..Len(resolved_calls') :
            MadeUp(resolved_calls'[k], step', (done + 1) + k - 1)
    BY <1>2, <1>11, <1>12
  <2>3. \A i \in 1..Len(tool_records') :
            \/ tool_records'[i].step < step'
            \/ /\ tool_records'[i].step = step'
               /\ \E pos \in 0..((done + 1) - 1) :
                      MadeUp(tool_records'[i].id, step', pos)
    BY <1>1, <1>7, <1>11, <2>1
  <2> QED
    BY <2>1, <2>2, <2>3 DEF PendingIds, MadeUp
<1> QED
  BY <1>9, <1>13, <1>14, <1>15 DEF IdInv

(***************************************************************************)
(* Every step keeps what is known of the ids.                              *)
(***************************************************************************)
LEMMA IdStep ==
    ASSUME TypeInv, IdInv, [Next]_vars
    PROVE  IdInv'
<1>1. CASE \/ RequestFails \/ RequestRaises \/ AnswersWithoutTools
           \/ Terminated \/ UNCHANGED vars
  <2>1. /\ UNCHANGED <<step, resolved_calls, tool_records>>
        /\ \A at \in {"requesting", "dispatching"} : pc' = at => pc = at
    BY <1>1 DEF RequestFails, RequestRaises, AnswersWithoutTools, Terminated, vars
  <2>2. RecordedIds' /\ FallbackIdsAreUnique'
    BY <2>1 DEF IdInv, RecordedIds, FallbackIdsAreUnique, MadeUp
  <2>3. RequestIsNewStep'
    BY <2>1 DEF IdInv, RequestIsNewStep
  <2>4. PendingIds'
    BY <2>1 DEF IdInv, PendingIds, MadeUp
  <2> QED
    BY <2>2, <2>3, <2>4 DEF IdInv
<1> QED
  BY <1>1, RequestKeepsIds, DispatchKeepsIds DEF Next

(***************************************************************************)
(* A made-up id names one call of the whole run, whatever ids the provider *)
(* sends with other calls.                                                 *)
(***************************************************************************)
THEOREM MadeUpIdsAreUnique == Spec => []FallbackIdsAreUnique
<1>1. Init => IdInv
  BY DEF Init, IdInv, RecordedIds, RequestIsNewStep, PendingIds,
         FallbackIdsAreUnique
<1>2. IdInv => FallbackIdsAreUnique
  BY DEF IdInv
<1> QED
  BY <1>1, <1>2, IdStep, TypesAreInvariant, PTL DEF Spec

-----------------------------------------------------------------------------
(***************************************************************************)
(* What the trace says at every moment of the run: the answer is the       *)
(* latest text, no step before the last is forced, and a run that ends     *)
(* agrees with its loop on the number of calls.                            *)
(***************************************************************************)
ForcedInv ==
    /\ pc = "requesting" => forced = {}
    /\ pc \in {"dispatching", "returned"} => forced = {step} \cap {MaxSteps}

EndInv ==
    pc = "returned" =>
        /\ step = Len(model_calls) + (IF status = "failed" THEN 1 ELSE 0)
        /\ status = "max_steps" =>
               /\ step = MaxSteps
               /\ tool_records[Len(tool_records)].step = step

TraceInv == AnswerIsLatestText /\ ForcedInv /\ EndInv

(***************************************************************************)
(* A request is forced in the last step and in no other.                   *)
(***************************************************************************)
LEMMA RequestForces ==
    ASSUME TypeInv, TraceInv, Request
    PROVE  forced' = {step} \cap {MaxSteps}
BY DEF TraceInv, ForcedInv, Request, Forced

(***************************************************************************)
(* A blank answer leaves the latest text; any other is the latest.         *)
(***************************************************************************)
LEMMA ReceiveKeepsAnswer ==
    ASSUME TypeInv, AnswerIsLatestText,
           NEW said \in Text \cup {Blank}, Receive(said)
    PROVE  AnswerIsLatestText'
<1> DEFINE L == Len(model_calls)
<1>1. /\ L \in Nat /\ Len(model_calls') = L + 1
      /\ \A i \in 1..L : model_calls'[i] = model_calls[i]
      /\ model_calls'[L + 1] = said
  BY AppendProperties, LenProperties DEF TypeInv, TypeOK, Receive
<1>2. final_answer' = IF said = Blank THEN final_answer ELSE said
  BY DEF Receive, LatestText
<1>3. PICK n \in 0..L :
          /\ final_answer = IF n = 0 THEN Blank ELSE model_calls[n]
          /\ n > 0 => model_calls[n] # Blank
          /\ \A i \in (n + 1)..L : model_calls[i] = Blank
  BY DEF AnswerIsLatestText
<1> HIDE DEF L
<1>4. CASE said = Blank
  <2>1. n \in 0..(L + 1) /\ (n > 0 => n \in 1..L)
    BY <1>1
  <2>2. final_answer' = IF n = 0 THEN Blank ELSE model_calls'[n]
    BY <1>1, <1>2, <1>3, <1>4, <2>1
  <2>3. n > 0 => model_calls'[n] # Blank
    BY <1>1, <1>3, <2>1
  <2>4. \A i \in (n + 1)..(L + 1) : model_calls'[i] = Blank
    <3> TAKE i \in (n + 1)..(L + 1)
    <3>1. i = L + 1 \/ (i \in 1..L /\ i \in (n + 1)..L)
      BY <1>1
    <3> QED
      BY <1>1, <1>3, <1>4, <3>1
  <2> QED
    BY <1>1, <2>1, <2>2, <2>3, <2>4 DEF AnswerIsLatestText
<1>5. CASE said # Blank
  <2>1. L + 1 \in 0..(L + 1) /\ L + 1 > 0 /\ ((L + 1) + 1)..(L + 1) = {}
    BY <1>1
  <2> QED
    BY <1>1, <1>2, <1>5, <2>1 DEF AnswerIsLatestText
<1> QED
  BY <1>4, <1>5

(***************************************************************************)
(* The last record is that of the call just dispatched.                    *)
(***************************************************************************)
LEMMA DispatchRecords ==
    ASSUME TypeInv, Dispatch
    PROVE  tool_records'[Len(tool_records')].step = step
<1> DEFINE r == [step |-> step, id |-> Head(resolved_calls)]
<1>1. r \in [step : 1..MaxSteps, id : ResolvedId] /\ r.step = step
  BY DispatchTypes DEF TypeInv, TypeOK
<1>2. /\ tool_records \in Seq([step : 1..MaxSteps, id : ResolvedId])
      /\ tool_records' = Append(tool_records, r)
  BY DEF Dispatch, TypeInv, TypeOK
<1> HIDE DEF r
<1> QED
  BY <1>1, <1>2, AppendProperties

(***************************************************************************)
(* Every step keeps what the trace says.                                   *)
(***************************************************************************)
LEMMA TraceStep ==
    ASSUME TypeInv, TraceInv, [Next]_vars
    PROVE  TraceInv'
<1>1. CASE RequestFails \/ RequestRaises
  <2>1. /\ pc = "requesting" /\ pc' \in {"returned", "raised"}
        /\ pc' = "returned" => status' = "failed"
        /\ UNCHANGED <<step, model_calls, final_answer>> /\ Request
    BY <1>1 DEF RequestFails, RequestRaises, Request
  <2>2. AnswerIsLatestText'
    BY <2>1 DEF TraceInv, AnswerIsLatestText
  <2>3. ForcedInv'
    BY <2>1, RequestForces DEF ForcedInv
  <2>4. EndInv'
    <3>1. Len(model_calls) = step - 1 /\ step \in Nat
      BY <2>1, RecordIndices DEF TypeInv, CountInv
    <3> QED
      BY <2>1, <3>1 DEF EndInv
  <2> QED
    BY <2>2, <2>3, <2>4 DEF TraceInv
<1>2. CASE AnswersWithoutTools \/ AnswersWithTools
  <2>1. PICK said \in Text \cup {Blank} : Receive(said)
    BY <1>2 DEF AnswersWithoutTools, AnswersWithTools
  <2>2. /\ pc = "requesting" /\ pc' \in {"returned", "dispatching"}
        /\ pc' = "returned" => status' = "completed"
        /\ step' = step /\ Request
    BY <1>2 DEF AnswersWithoutTools, AnswersWithTools, Request
  <2>3. AnswerIsLatestText'
    BY <2>1, ReceiveKeepsAnswer DEF TraceInv
  <2>4. ForcedInv'
    BY <2>2, RequestForces DEF ForcedInv
  <2>5. EndInv'
    <3>1. /\ Len(model_calls) = step - 1 /\ step \in Nat
          /\ Len(model_calls') = Len(model_calls) + 1
      BY <2>1, <2>2, RecordIndices, ReceiveTypes DEF TypeInv, CountInv
    <3> QED
      BY <2>2, <3>1 DEF EndInv
  <2> QED
    BY <2>3, <2>4, <2>5 DEF TraceInv
<1>3. CASE Dispatch
  <2>1. /\ pc = "dispatching" /\ Len(model_calls) = step
        /\ UNCHANGED <<model_calls, final_answer, forced>>
    BY <1>3 DEF Dispatch, TypeInv, CountInv
  <2>2. AnswerIsLatestText'
    BY <2>1 DEF TraceInv, AnswerIsLatestText
  <2>3. forced = {step} \cap {MaxSteps}
    BY <2>1 DEF TraceInv, ForcedInv
  <2>4. \/ pc' = "dispatching" /\ step' = step
        \/ /\ pc' = "returned" /\ step' = step
           /\ status' = "max_steps" /\ step = MaxSteps
        \/ pc' = "requesting" /\ step # MaxSteps
    BY <1>3, <2>1 DEF Dispatch, NoStepLeft
  <2>5. ForcedInv'
    BY <2>1, <2>3, <2>4 DEF ForcedInv
  <2>6. EndInv'
    BY <1>3, <2>1, <2>4, DispatchRecords, RecordIndices DEF EndInv
  <2> QED
    BY <2>2, <2>5, <2>6 DEF TraceInv
<1>4. CASE Terminated \/ UNCHANGED vars
  <2>1. UNCHANGED vars
    BY <1>4 DEF Terminated
  <2> QED
    BY <2>1 DEF vars, TraceInv, AnswerIsLatestText, ForcedInv, EndInv
<1> QED
  BY <1>1, <1>2, <1>3, <1>4 DEF Next

(***************************************************************************)
(* The step count, the forced step, the last tool call and the final       *)
(* answer of a result describe the same run, for every limit of steps.     *)
(***************************************************************************)
THEOREM ResultsAgree == Spec => []TraceIsConsistent
<1>1. Init => TraceInv
  BY DEF Init, TraceInv, AnswerIsLatestText, ForcedInv, EndInv
<1>2. TraceInv => TraceIsConsistent
  BY DEF TraceInv, ForcedInv, EndInv, TraceIsConsistent
<1> QED
  BY <1>1, <1>2, TraceStep, TypesAreInvariant, PTL DEF Spec

-----------------------------------------------------------------------------
(***************************************************************************)
(* A model call and its tool calls are one step of WorkerContract, which   *)
(* is taken when the last of them has been dispatched.                     *)
(***************************************************************************)
Counted == IF pc = "dispatching" THEN Len(model_calls) - 1 ELSE Len(model_calls)

(***************************************************************************)
(* Every step is one of WorkerContract or changes nothing there.           *)
(***************************************************************************)
LEMMA StepRefinesContract ==
    ASSUME TypeInv, [Next]_vars
    PROVE  [Contract!Next]_<<WorkerState, Counted>>
<1>1. step \in 1..MaxSteps /\ Len(model_calls) \in Nat /\ MaxSteps \in Nat
  BY LenProperties, SingleAgentAssumption DEF TypeInv, TypeOK
<1> USE DEF WorkerState, Counted
<1>2. CASE RequestFails \/ RequestRaises
  <2>1. /\ pc = "requesting" /\ Len(model_calls) = step - 1
        /\ model_calls' = model_calls
        /\ WorkerState' \in {"failed", "raised"}
    BY <1>2 DEF RequestFails, RequestRaises, Request, TypeInv, CountInv
  <2>2. Counted' = Counted /\ WorkerState = "running" /\ Counted < MaxSteps
    BY <1>1, <1>2, <2>1 DEF RequestFails, RequestRaises
  <2> QED
    BY <2>1, <2>2 DEF Contract!Next, Contract!Fail
<1>3. CASE AnswersWithoutTools
  <2>1. PICK said \in Text \cup {Blank} : Receive(said)
    BY <1>3 DEF AnswersWithoutTools
  <2>2. /\ pc = "requesting" /\ Len(model_calls) = step - 1
        /\ pc' = "returned" /\ status' = "completed"
        /\ Len(model_calls') = Len(model_calls) + 1
    BY <1>3, <2>1, ReceiveTypes DEF AnswersWithoutTools, Request, TypeInv, CountInv
  <2> QED
    BY <1>1, <2>2 DEF Contract!Next, Contract!Answer
<1>4. CASE AnswersWithTools
  <2>1. PICK said \in Text \cup {Blank} : Receive(said)
    BY <1>4 DEF AnswersWithTools
  <2>2. /\ pc = "requesting" /\ pc' = "dispatching"
        /\ Len(model_calls') = Len(model_calls) + 1
    BY <1>4, <2>1, ReceiveTypes DEF AnswersWithTools, Request
  <2> QED
    BY <1>1, <2>2
<1>5. CASE Dispatch
  <2>1. /\ pc = "dispatching" /\ Len(model_calls) = step
        /\ model_calls' = model_calls
    BY <1>5 DEF Dispatch, TypeInv, CountInv
  <2>2. CASE OtherCalls # << >>
    BY <1>5, <2>1, <2>2 DEF Dispatch
  <2>3. CASE OtherCalls = << >> /\ NoStepLeft
    BY <1>1, <1>5, <2>1, <2>3
       DEF Dispatch, NoStepLeft, Contract!Next, Contract!UseTools
  <2>4. CASE OtherCalls = << >> /\ ~NoStepLeft
    BY <1>1, <1>5, <2>1, <2>4
       DEF Dispatch, NoStepLeft, Contract!Next, Contract!UseTools
  <2> QED
    BY <2>2, <2>3, <2>4
<1>6. CASE Terminated \/ UNCHANGED vars
  BY <1>6 DEF Terminated, vars
<1> QED
  BY <1>2, <1>3, <1>4, <1>5, <1>6 DEF Next

(***************************************************************************)
(* The agent is the worker that the orchestrated strategies rely on.       *)
(***************************************************************************)
THEOREM AgentImplementsContract == Spec => ImplementsWorkerContract
<1>1. Init => Contract!Init
  BY DEF Init, Contract!Init, WorkerState
<1>2. TypeInv /\ [Next]_vars => [Contract!Next]_Contract!vars
  BY StepRefinesContract DEF Contract!vars, Counted
<1> QED
  BY <1>1, <1>2, TypesAreInvariant, PTL
     DEF Spec, ImplementsWorkerContract, Contract!Spec

-----------------------------------------------------------------------------
(***************************************************************************)
(* The most steps an agent has still before it: for each step of its loop, *)
(* the model call and as many tool calls as a message may ask for.         *)
(***************************************************************************)
StepsAhead ==
    CASE pc = "requesting" -> (MaxSteps - step + 1) * (MaxCalls + 1)
      [] pc = "dispatching" ->
             (MaxSteps - step) * (MaxCalls + 1) + Len(resolved_calls)
      [] OTHER -> 0

MostSteps == MaxSteps * (MaxCalls + 1)

(***************************************************************************)
(* No more calls are pending than a message may ask for.                   *)
(***************************************************************************)
FewPending == Len(resolved_calls) <= MaxCalls

(***************************************************************************)
(* Every step keeps the pending calls few.                                 *)
(***************************************************************************)
LEMMA FewPendingStep ==
    ASSUME TypeInv, FewPending, [Next]_vars
    PROVE  FewPending'
<1>1. CASE AnswersWithTools
  <2>1. PICK n \in 1..MaxCalls :
            \E ids \in [1..n -> CallId \cup {Blank}] :
                resolved_calls' = Resolve(ids)
    BY <1>1 DEF AnswersWithTools
  <2>2. Len(resolved_calls') = n
    BY <2>1, ResolvedCalls DEF TypeInv
  <2> QED
    BY <2>2, SingleAgentAssumption DEF FewPending
<1>2. CASE Dispatch
  <2>1. /\ resolved_calls' = OtherCalls
        /\ Len(OtherCalls) = Len(resolved_calls) - 1
        /\ Len(resolved_calls) \in Nat
    BY <1>2, DispatchTypes DEF Dispatch
  <2> QED
    BY <2>1, SingleAgentAssumption DEF FewPending
<1>3. CASE \/ RequestFails \/ RequestRaises \/ AnswersWithoutTools
           \/ Terminated \/ UNCHANGED vars
  BY <1>3 DEF RequestFails, RequestRaises, AnswersWithoutTools, Terminated,
     vars, FewPending
<1> QED
  BY <1>1, <1>2, <1>3 DEF Next

(***************************************************************************)
(* Where the loop has n of its steps to take, one less costs a whole step. *)
(***************************************************************************)
LEMMA StepsOfLoop ==
    ASSUME NEW n \in Nat
    PROVE  /\ n * (MaxCalls + 1) \in Nat
           /\ (n + 1) * (MaxCalls + 1) = n * (MaxCalls + 1) + (MaxCalls + 1)
           /\ \A m \in 0..n : m * (MaxCalls + 1) <= n * (MaxCalls + 1)
<1> DEFINE k == MaxCalls + 1
<1>1. k \in Nat
  BY SingleAgentAssumption
<1> HIDE DEF k
<1>2. n * k \in Nat /\ (n + 1) * k = n * k + k
  BY <1>1
<1>3. ASSUME NEW m \in 0..n PROVE m * k <= n * k
  <2>1. m \in Nat /\ n - m \in Nat /\ m + (n - m) = n
    OBVIOUS
  <2>2. ASSUME NEW a \in Nat, NEW b \in Nat
        PROVE  (a + b) * k = a * k + b * k /\ a * k \in Nat /\ b * k \in Nat
    BY <1>1
  <2>3. /\ (m + (n - m)) * k = m * k + (n - m) * k
        /\ m * k \in Nat /\ (n - m) * k \in Nat
    BY ONLY <2>1, <2>2
  <2> QED
    BY <2>1, <2>3
<1> QED
  BY <1>2, <1>3 DEF k

(***************************************************************************)
(* Every step leaves fewer.                                                *)
(***************************************************************************)
LEMMA StepIsProgress ==
    ASSUME TypeInv, Next, ~UNCHANGED vars, FewPending'
    PROVE  StepsAhead' < StepsAhead
<1> DEFINE k == MaxCalls + 1
           n == MaxSteps - step
<1>1. /\ n \in Nat /\ MaxCalls \in Nat /\ n * k \in Nat
      /\ (n + 1) * k = n * k + k /\ k > 0 /\ k = MaxCalls + 1
  <2>1. n \in Nat /\ MaxCalls \in Nat
    BY SingleAgentAssumption DEF TypeInv, TypeOK
  <2>2. \A m \in Nat : m * k \in Nat /\ (m + 1) * k = m * k + k
    BY StepsOfLoop
  <2> QED
    BY <2>1, <2>2
<1>0. n = MaxSteps - step
  OBVIOUS
<1>2. /\ pc = "requesting" => StepsAhead = (n + 1) * k
      /\ pc = "dispatching" => StepsAhead = n * k + Len(resolved_calls)
      /\ pc' = "dispatching" /\ step' = step =>
             StepsAhead' = n * k + Len(resolved_calls')
      /\ pc' = "requesting" => StepsAhead' = (MaxSteps - step' + 1) * k
      /\ pc' \in {"returned", "raised"} => StepsAhead' = 0
  BY DEF StepsAhead
<1> HIDE DEF k, n
<1>3. CASE RequestFails \/ RequestRaises \/ AnswersWithoutTools
  <2>1. pc = "requesting" /\ pc' \in {"returned", "raised"}
    BY <1>3 DEF RequestFails, RequestRaises, AnswersWithoutTools, Request
  <2> QED
    BY <1>1, <1>2, <2>1
<1>4. CASE AnswersWithTools
  <2>1. pc = "requesting" /\ pc' = "dispatching" /\ step' = step
    BY <1>4 DEF AnswersWithTools, Request
  <2>2. PICK m \in 1..MaxCalls :
            \E ids \in [1..m -> CallId \cup {Blank}] :
                resolved_calls' = Resolve(ids)
    BY <1>4 DEF AnswersWithTools
  <2>3. Len(resolved_calls') = m
    BY <2>2, ResolvedCalls DEF TypeInv
  <2> QED
    BY <1>1, <1>2, <2>1, <2>3
<1>5. CASE Dispatch
  <2>1. /\ pc = "dispatching" /\ Len(resolved_calls) \in Nat \ {0}
        /\ Len(resolved_calls') = Len(resolved_calls) - 1
    BY <1>5, DispatchTypes DEF Dispatch
  <2>2. \/ pc' = "dispatching" /\ step' = step
        \/ pc' = "returned"
        \/ pc' = "requesting" /\ step' = step + 1
    BY <1>5, <2>1 DEF Dispatch
  <2>3. CASE pc' = "requesting" /\ step' = step + 1
    <3>1. MaxSteps - step' + 1 = n
      BY <1>0, <2>3, SingleAgentAssumption DEF TypeInv, TypeOK
    <3> QED
      BY <1>1, <1>2, <2>1, <2>3, <3>1
  <2>4. CASE pc' = "dispatching" /\ step' = step
    BY <1>1, <1>2, <2>1, <2>4
  <2>5. CASE pc' = "returned"
    BY <1>1, <1>2, <2>1, <2>5
  <2> QED
    BY <2>2, <2>3, <2>4, <2>5
<1> QED
  BY <1>3, <1>4, <1>5 DEF Next, Terminated

(***************************************************************************)
(* An agent ends: each of its steps leaves fewer before it, and there are  *)
(* never more than the limit of steps allows.  This is what lets a run     *)
(* wait for its workers.                                                   *)
(***************************************************************************)
THEOREM AgentIsBounded ==
    Spec => [](StepsAhead \in 0..MostSteps) /\ [][StepsAhead' < StepsAhead]_vars
<1>1. Init => FewPending
  BY SingleAgentAssumption DEF Init, FewPending
<1>2. TypeInv /\ FewPending => StepsAhead \in 0..MostSteps
  <2> SUFFICES ASSUME TypeInv, FewPending PROVE StepsAhead \in 0..MostSteps
    OBVIOUS
  <2> DEFINE k == MaxCalls + 1
             n == MaxSteps - step
  <2>1. /\ n \in Nat /\ n + 1 \in 0..MaxSteps /\ MaxSteps \in Nat
        /\ MaxCalls \in Nat /\ Len(resolved_calls) \in 0..MaxCalls
    BY SingleAgentAssumption, Lengths DEF TypeInv, TypeOK, FewPending
  <2>2. /\ StepsAhead \in {(n + 1) * k, n * k + Len(resolved_calls), 0}
        /\ MostSteps = MaxSteps * k /\ k = MaxCalls + 1
    BY DEF StepsAhead, MostSteps
  <2>3. /\ n * k \in Nat /\ (n + 1) * k = n * k + k
        /\ (n + 1) * k <= MaxSteps * k /\ MaxSteps * k \in Nat
    <3>1. \A m \in Nat : /\ m * k \in Nat /\ (m + 1) * k = m * k + k
                          /\ \A l \in 0..m : l * k <= m * k
      BY StepsOfLoop
    <3> HIDE DEF k, n
    <3> QED
      BY <2>1, <3>1
  <2> HIDE DEF k, n
  <2> QED
    BY <2>1, <2>2, <2>3
<1>3. TypeInv /\ FewPending /\ FewPending' /\ [Next]_vars
          => [StepsAhead' < StepsAhead]_vars
  BY StepIsProgress
<1> QED
  BY <1>1, <1>2, <1>3, TypesAreInvariant, FewPendingStep, PTL DEF Spec

-----------------------------------------------------------------------------
(***************************************************************************)
(* A step of the run is one of the stream, leaves it alone, or forgets it. *)
(***************************************************************************)
LEMMA StepOfStream ==
    ASSUME [TelemetryNext]_runVars
    PROVE  StreamNext \/ UNCHANGED streamVars \/ StreamInit'
BY DEF TelemetryNext, Streaming, Recording, RunAborts, Analysing, NothingLeft,
       runVars, ForgetStream, StreamInit

-----------------------------------------------------------------------------
(***************************************************************************)
(* While the client reads, the lines it keeps are those that were sent of  *)
(* the next event, and the events it has parsed are those sent completely. *)
(***************************************************************************)
Half(e) == << <<e, 1, 2>> >>

Begun(lines, e) == lines \in Framings(e) \/ (e # Done /\ lines = Half(e))

FramesInv ==
    /\ events \in Seq(Events)
    /\ partial = << >> \/ \E e \in Events \cup {Done} : Begun(partial, e)
    /\ client = "reading" => data = partial /\ sent = events
    /\ client = "returned" => partial = << >> /\ events = Payload

(***************************************************************************)
(* What is sent is an event or [DONE], never both.                         *)
(***************************************************************************)
LEMMA DoneIsNoEvent == Done \notin Events
<1> SUFFICES ASSUME Done \in Events PROVE FALSE
  OBVIOUS
<1>1. Done \in [error : BOOLEAN, usage : UsageType \cup {None},
                choice : ChoiceType \cup {None}]
  BY StreamAssumption
<1>2. DOMAIN Done = {"error", "usage", "choice"}
  BY <1>1
<1>3. DOMAIN Done = {"done"}
  BY DEF Done
<1> QED
  BY <1>2, <1>3

(***************************************************************************)
(* Before [DONE] the payload is all that was sent.                         *)
(***************************************************************************)
LEMMA NothingIsLeftOut ==
    ASSUME sent \in Seq(Events)
    PROVE  Payload = sent
<1>1. sent # << >> => Last(sent) \in Events
  <2>1. sent # << >> => Len(sent) \in 1..Len(sent)
    BY EmptySeq, LenProperties
  <2> QED
    BY <2>1, ElementOfSeq DEF Last
<1> QED
  BY <1>1, DoneIsNoEvent DEF Payload

(***************************************************************************)
(* The lines of an event tell the event, and a half of it does not parse.  *)
(***************************************************************************)
LEMMA BegunEvent ==
    ASSUME NEW e, NEW lines, Begun(lines, e)
    PROVE  /\ lines # << >> /\ lines[1][1] = e
           /\ Parses(lines) <=> lines \in Framings(e)
           /\ ~Parses(lines) => e # Done /\ lines = Half(e)
<1>1. /\ << <<e, 1, 1>> >>[1][1] = e /\ << <<e, 1, 1>> >> # << >>
      /\ << <<e, 1, 2>>, <<e, 2, 2>> >>[1][1] = e
      /\ << <<e, 1, 2>>, <<e, 2, 2>> >> # << >>
      /\ << <<e, 1, 2>> >>[1][1] = e /\ << <<e, 1, 2>> >> # << >>
  OBVIOUS
<1>2. lines # << >> /\ lines[1][1] = e
  BY <1>1 DEF Begun, Framings, Half
<1> QED
  BY <1>2 DEF Parses, Begun

(***************************************************************************)
(* The line after a part of an event makes a part of it again.             *)
(***************************************************************************)
LEMMA NextLine ==
    ASSUME NEW e, NEW lines \in Framings(e), NEW sofar,
           \/ sofar = << >>
           \/ \E d : Begun(sofar, d) /\ ~Parses(sofar),
           IsStrictPrefix(sofar, lines)
    PROVE  Begun(Append(sofar, lines[Len(sofar) + 1]), e)
<1>1. CASE sofar = << >>
  <2>1. Append(sofar, lines[Len(sofar) + 1]) = <<lines[1]>>
    BY <1>1
  <2>2. \/ lines = << <<e, 1, 1>> >>
        \/ e # Done /\ lines = << <<e, 1, 2>>, <<e, 2, 2>> >>
    BY DEF Framings
  <2> QED
    BY <2>1, <2>2 DEF Begun, Framings, Half
<1>2. ASSUME NEW d, Begun(sofar, d), ~Parses(sofar)
      PROVE  Begun(Append(sofar, lines[Len(sofar) + 1]), e)
  <2>1. sofar = << <<d, 1, 2>> >>
    BY <1>2, BegunEvent DEF Half
  <2>2. Len(sofar) = 1 /\ SubSeq(sofar, 1, 1) = SubSeq(lines, 1, 1)
    BY <2>1 DEF IsStrictPrefix, IsPrefix
  <2>3. \/ lines = << <<e, 1, 1>> >>
        \/ e # Done /\ lines = << <<e, 1, 2>>, <<e, 2, 2>> >>
    BY DEF Framings
  <2>4. /\ SubSeq(<< <<e, 1, 1>> >>, 1, 1)[1] = <<e, 1, 1>>
        /\ SubSeq(<< <<e, 1, 2>>, <<e, 2, 2>> >>, 1, 1)[1] = <<e, 1, 2>>
        /\ SubSeq(<< <<d, 1, 2>> >>, 1, 1)[1] = <<d, 1, 2>>
    OBVIOUS
  <2>5. <<d, 1, 2>> # <<e, 1, 1>>
    OBVIOUS
  <2>6. /\ e # Done /\ lines = << <<e, 1, 2>>, <<e, 2, 2>> >>
        /\ <<d, 1, 2>> = <<e, 1, 2>>
    BY <2>1, <2>2, <2>3, <2>4, <2>5
  <2>7. Append(sofar, lines[Len(sofar) + 1]) = << <<e, 1, 2>>, <<e, 2, 2>> >>
    <3>1. sofar = << <<e, 1, 2>> >> /\ lines[Len(sofar) + 1] = <<e, 2, 2>>
      BY <2>1, <2>2, <2>6
    <3>2. ASSUME NEW T, NEW a \in T, NEW b \in T
          PROVE  Append(<<a>>, b) = <<a, b>>
      <4> DEFINE long == Append(<<a>>, b)
                 pair == <<a, b>>
      <4>1. /\ <<a>> \in Seq(T) /\ Len(<<a>>) = 1 /\ <<a>>[1] = a
            /\ pair \in Seq(T) /\ Len(pair) = 2
            /\ pair[1] = a /\ pair[2] = b
        OBVIOUS
      <4>2. /\ long \in Seq(T) /\ Len(long) = 2
            /\ long[1] = a /\ long[2] = b
        BY <4>1, AppendProperties
      <4> HIDE DEF long, pair
      <4>3. \A i \in 1..2 : long[i] = pair[i]
        BY <4>1, <4>2
      <4>4. long = pair
        BY <4>1, <4>2, <4>3, SeqEqual
      <4> QED
        BY <4>4 DEF long, pair
    <3>3. Append(<< <<e, 1, 2>> >>, <<e, 2, 2>>)
              = << <<e, 1, 2>>, <<e, 2, 2>> >>
      <4> DEFINE a == <<e, 1, 2>>
                 b == <<e, 2, 2>>
      <4>1. a \in {a, b} /\ b \in {a, b}
        OBVIOUS
      <4> HIDE DEF a, b
      <4>2. Append(<<a>>, b) = <<a, b>>
        BY <3>2, <4>1
      <4> QED
        BY <4>2 DEF a, b
    <3> QED
      BY <3>1, <3>3
  <2> QED
    BY <2>6, <2>7 DEF Begun, Framings
<1> QED
  BY <1>1, <1>2

(***************************************************************************)
(* What is handed over while the client reads.                             *)
(***************************************************************************)
LEMMA HandOverKeepsFrames ==
    ASSUME FramesInv, Reading, HandOver, partial # << >>
    PROVE  FramesInv'
<1>1. /\ data = partial /\ sent = events /\ events \in Seq(Events)
  BY DEF FramesInv, Reading
<1>2. PICK e \in Events \cup {Done} : Begun(partial, e)
  BY DEF FramesInv
<1>3. /\ partial[1][1] = e
      /\ Parses(partial) <=> partial \in Framings(e)
      /\ ~Parses(partial) => e # Done /\ partial = Half(e)
  BY <1>2, BegunEvent
<1>4. partial' = << >> /\ data' = << >> /\ Handle(partial)
  BY <1>1 DEF HandOver
<1>5. CASE ~Parses(partial)
  BY <1>1, <1>4, <1>5 DEF Handle, Stop, FramesInv
<1>6. CASE Parses(partial) /\ e = Done
  <2>1. sent' = Append(events, Done)
    BY <1>1, <1>3, <1>6 DEF HandOver, Complete
  <2>2. client' = "returned" /\ events' = events
    BY <1>3, <1>4, <1>6 DEF Handle, ReturnMessage
  <2>3. Payload' = events
    <3>1. /\ sent' # << >> /\ Len(sent') = Len(events) + 1
          /\ sent'[Len(events) + 1] = Done
          /\ Len(events) \in Nat
      BY <1>1, <2>1, AppendProperties, LenProperties
    <3>2. SubSeq(sent', 1, Len(events)) = events
      BY <1>1, <2>1
    <3>3. (Len(events) + 1) - 1 = Len(events)
      BY <3>1
    <3> QED
      BY <3>1, <3>2, <3>3 DEF Payload, Last, Front
  <2> QED
    BY <1>1, <1>4, <2>2, <2>3 DEF FramesInv
<1>7. CASE Parses(partial) /\ e # Done
  <2>1. sent' = Append(events, e)
    BY <1>1, <1>3, <1>7 DEF HandOver, Complete
  <2>2. Take(e)
    BY <1>3, <1>4, <1>7 DEF Handle
  <2>3. events' = Append(events, e) /\ client' \in {"reading", "failed"}
    BY <2>2 DEF Take, Reading
  <2>4. e \in Events
    BY <1>2, <1>7
  <2>5. events' \in Seq(Events)
    BY <1>1, <2>3, <2>4
  <2> QED
    BY <1>4, <2>1, <2>3, <2>5 DEF FramesInv
<1> QED
  BY <1>5, <1>6, <1>7

(***************************************************************************)
(* Every line, and every end of the stream, keeps FramesInv.               *)
(***************************************************************************)
LEMMA StreamKeepsFrames ==
    ASSUME FramesInv, StreamNext
    PROVE  FramesInv'
<1>1. CASE DataLine
  <2>1. PICK e \in Events \cup {Done} : \E lines \in Framings(e) :
            /\ IsStrictPrefix(partial, lines)
            /\ partial' = Append(partial, lines[Len(partial) + 1])
            /\ data' = Append(data, lines[Len(partial) + 1])
    BY <1>1 DEF DataLine
  <2>2. PICK lines \in Framings(e) :
            /\ IsStrictPrefix(partial, lines)
            /\ partial' = Append(partial, lines[Len(partial) + 1])
            /\ data' = Append(data, lines[Len(partial) + 1])
    BY <2>1
  <2>3. partial = << >> \/ \E d : Begun(partial, d) /\ ~Parses(partial)
    BY <1>1 DEF DataLine, Complete, FramesInv
  <2>4. Begun(partial', e)
    BY <2>2, <2>3, NextLine
  <2>5. /\ UNCHANGED <<client, events, sent>> /\ client = "reading"
        /\ data = partial
    BY <1>1 DEF DataLine, Reading, FramesInv
  <2> QED
    BY <2>2, <2>4, <2>5 DEF FramesInv
<1>2. CASE BlankLine
  <2>1. Reading /\ HandOver /\ partial # << >>
    BY <1>2 DEF BlankLine, Complete
  <2> QED
    BY <2>1, HandOverKeepsFrames
<1>3. CASE LastEvent
  <2>1. Reading /\ HandOver /\ partial # << >>
    BY <1>3 DEF LastEvent, FramesInv, Reading
  <2> QED
    BY <2>1, HandOverKeepsFrames
<1>4. CASE SkippedLine \/ ConnectionCloses
  <2>1. UNCHANGED <<client, data, events, sent, partial>>
    BY <1>4 DEF SkippedLine, ConnectionCloses, AfterSkipped, providerVars
  <2> QED
    BY <2>1 DEF FramesInv, Payload
<1>5. CASE ReturnAtEnd
  <2>1. /\ partial = << >> /\ sent = events /\ events \in Seq(Events)
        /\ UNCHANGED <<events, sent, partial>> /\ client' = "returned"
    BY <1>5 DEF ReturnAtEnd, FramesInv, Reading, ReturnMessage, providerVars
  <2>2. Payload = events
    BY <2>1, NothingIsLeftOut
  <2> QED
    BY <2>1, <2>2 DEF FramesInv, Payload
<1>6. CASE HttpError \/ TransportRaises
  <2>1. UNCHANGED <<events, partial>> /\ client' \in {"failed", "raised"}
    BY <1>6 DEF HttpError, TransportRaises, Stop, providerVars
  <2> QED
    BY <2>1 DEF FramesInv
<1> QED
  BY <1>1, <1>2, <1>3, <1>4, <1>5, <1>6 DEF StreamNext

(***************************************************************************)
(* So does the run the stream is part of.                                  *)
(***************************************************************************)
THEOREM FramesAreKept == TelemetrySpec => []FramesInv
<1>1. StreamInit => FramesInv
  BY EmptySeq DEF StreamInit, FramesInv
<1>2. TelemetryInit => FramesInv
  BY <1>1 DEF TelemetryInit
<1>3. FramesInv /\ [TelemetryNext]_runVars => FramesInv'
  <2> SUFFICES ASSUME FramesInv, [TelemetryNext]_runVars PROVE FramesInv'
    OBVIOUS
  <2>1. CASE StreamNext
    BY <2>1, StreamKeepsFrames
  <2>2. CASE UNCHANGED streamVars
    BY <2>2 DEF streamVars, providerVars, FramesInv, Payload
  <2>3. CASE StreamInit'
    BY <2>3, EmptySeq DEF StreamInit, FramesInv
  <2> QED
    BY <2>1, <2>2, <2>3, StepOfStream
<1> QED
  BY <1>2, <1>3, PTL DEF TelemetrySpec

(***************************************************************************)
(* However events are framed and wherever a stream is cut, the events      *)
(* parsed are those sent, and no message is returned of a part of one.     *)
(***************************************************************************)
THEOREM FramingIsLossless == TelemetrySpec => []EventsSurviveFraming
<1>1. FramesInv => EventsSurviveFraming
  <2> SUFFICES ASSUME FramesInv PROVE EventsSurviveFraming
    OBVIOUS
  <2>1. client = "reading" => events = Payload
    BY NothingIsLeftOut DEF FramesInv
  <2> QED
    BY <2>1 DEF FramesInv, EventsSurviveFraming
<1> QED
  BY <1>1, FramesAreKept, PTL

-----------------------------------------------------------------------------
(***************************************************************************)
(* Every non-empty set of natural numbers has a least one.                 *)
(***************************************************************************)
LEMMA LeastNat ==
    ASSUME NEW S \in SUBSET Nat, S # {}
    PROVE  \E n \in S : \A m \in S : n <= m
<1>1. PICK n \in S : \A m \in S : ~ (<<m, n>> \in OpToRel(<, Nat))
  BY Zenon, NatLessThanWellFounded, WFMin
<1>2. \A m \in S : ~ (m < n)
  BY <1>1 DEF OpToRel
<1> QED
  BY <1>2

(***************************************************************************)
(* A definition of a function from S to V in which value[x] makes the      *)
(* value at x from the function, using values of lower rank only.          *)
(***************************************************************************)
Recursion(S, V, bound, rank, value) ==
    /\ bound \in Nat
    /\ V # {}
    /\ rank \in [S -> 0..bound]
    /\ value \in [S -> [[S -> V] -> V]]
    /\ \A x \in S : \A f, g \in [S -> V] :
           (\A y \in S : rank[y] < rank[x] => f[y] = g[y])
               => value[x][f] = value[x][g]

(***************************************************************************)
(* Such a definition is satisfied by a function.                           *)
(***************************************************************************)
LEMMA RecursionHasSolution ==
    ASSUME NEW S, NEW V, NEW B, NEW rank, NEW value,
           Recursion(S, V, B, rank, value)
    PROVE  \E f \in [S -> V] : \A x \in S : f[x] = value[x][f]
<1> DEFINE Solves(f, k) == \A x \in S : rank[x] < k => f[x] = value[x][f]
           unsolved == {k \in Nat : ~ \E f \in [S -> V] : Solves(f, k)}
<1>1. /\ B \in Nat /\ \A x \in S : rank[x] \in 0..B
      /\ value \in [S -> [[S -> V] -> V]]
  BY DEF Recursion
<1>v. PICK v \in V : TRUE
  BY DEF Recursion
<1>2. unsolved = {}
  <2> SUFFICES ASSUME unsolved # {} PROVE FALSE
    OBVIOUS
  <2>1. PICK k \in unsolved : \A j \in unsolved : k <= j
    <3>1. unsolved \in SUBSET Nat
      OBVIOUS
    <3> QED
      BY <3>1, LeastNat
  <2>2. k \in Nat /\ k # 0
    <3>1. [x \in S |-> v] \in [S -> V] /\ Solves([x \in S |-> v], 0)
      BY <1>1, <1>v
    <3> QED
      BY <2>1, <3>1
  <2>3. k - 1 \in Nat /\ k - 1 \notin unsolved
    <3> HIDE DEF unsolved
    <3>1. k - 1 \in Nat /\ ~(k <= k - 1)
      BY <2>2
    <3> QED
      BY <2>1, <3>1
  <2>4. PICK f \in [S -> V] : Solves(f, k - 1)
    BY <2>3
  <2> DEFINE g == [x \in S |-> value[x][f]]
  <2>5. g \in [S -> V]
    BY <1>1, <2>4
  <2>6. \A y \in S : rank[y] < k - 1 => g[y] = f[y]
    BY <2>4
  <2>7. ASSUME NEW x \in S, rank[x] < k
        PROVE  g[x] = value[x][g]
    <3>1. \A y \in S : rank[y] < rank[x] => f[y] = g[y]
      BY <1>1, <2>2, <2>6, <2>7
    <3>2. value[x][f] = value[x][g]
      BY <2>4, <2>5, <3>1 DEF Recursion
    <3> QED
      BY <3>2
  <2> QED
    BY <2>1, <2>5, <2>7
<1>3. B + 1 \in Nat /\ B + 1 \notin unsolved
  <2> HIDE DEF unsolved
  <2> QED
    BY <1>1, <1>2
<1>4. PICK f \in [S -> V] : Solves(f, B + 1)
  BY <1>3
<1> QED
  BY <1>1, <1>4

(***************************************************************************)
(* The greatest of some positions.                                         *)
(***************************************************************************)
LEMMA GreatestPosition ==
    ASSUME NEW n \in Nat, NEW s \in SUBSET (1..n), s # {}
    PROVE  Max(s) \in s /\ \A i \in s : i <= Max(s)
<1> DEFINE distances == {k \in Nat : \E i \in s : k = n - i}
<1>1. distances \in SUBSET Nat /\ distances # {}
  <2>1. PICK i \in s : TRUE
    OBVIOUS
  <2>2. i \in 1..n /\ n - i \in Nat
    BY <2>1
  <2>3. n - i \in distances
    BY <2>1, <2>2
  <2> QED
    BY <2>3
<1>2. PICK k \in distances : \A l \in distances : k <= l
  BY <1>1, LeastNat
<1>3. PICK i \in s : k = n - i
  BY <1>2
<1>4. \A j \in s : i >= j
  <2> TAKE j \in s
  <2>1. n - j \in distances
    OBVIOUS
  <2>2. k <= n - j
    BY <1>2, <2>1
  <2> QED
    BY <1>3, <2>2
<1>5. \E m \in s : \A j \in s : m >= j
  BY <1>4
<1>6. Max(s) \in s /\ \A j \in s : Max(s) >= j
  BY <1>5 DEF Max
<1> QED
  BY <1>6

(***************************************************************************)
(* The greatest of the first positions is the last of them.                *)
(***************************************************************************)
LEMMA GreatestOfInterval ==
    ASSUME NEW k \in Nat \ {0}
    PROVE  Max(1..k) \in 1..k /\ k <= Max(1..k)
<1> DEFINE s == 1..k
<1>1. s \in SUBSET (1..k) /\ s # {} /\ k \in s /\ k \in Nat
  OBVIOUS
<1> HIDE DEF s
<1>2. Max(s) \in s /\ k <= Max(s)
  BY <1>1, GreatestPosition
<1> QED
  BY <1>2 DEF s

(***************************************************************************)
(* A fold over positions, the greatest last, has a value for every set of  *)
(* them; h[i] is what position i makes of the value before.                *)
(***************************************************************************)
Folds(f, n, base, h) ==
    \A s \in SUBSET (1..n) :
        f[s] = IF s = {} THEN base ELSE h[Max(s)][f[s \ {Max(s)}]]

(***************************************************************************)
(* There is a function with these values for all sets of positions.        *)
(***************************************************************************)
LEMMA FoldHasValues ==
    ASSUME NEW n \in Nat, NEW V, NEW base \in V,
           NEW h \in [1..n -> [V -> V]]
    PROVE  \E f \in [SUBSET (1..n) -> V] : Folds(f, n, base, h)
<1> DEFINE S == SUBSET (1..n)
           Body(s, f) == IF s = {} THEN base ELSE h[Max(s)][f[s \ {Max(s)}]]
           rank == [s \in S |-> Cardinality(s)]
           value == [s \in S |-> [f \in [S -> V] |-> Body(s, f)]]
<1>1. \A s \in S : IsFiniteSet(s) /\ Cardinality(s) \in 0..n
  <2> TAKE s \in S
  <2>1. IsFiniteSet(1..n) /\ Cardinality(1..n) = n
    BY FS_Interval
  <2>2. /\ IsFiniteSet(s) /\ Cardinality(s) <= Cardinality(1..n)
        /\ Cardinality(s) \in Nat
    BY <2>1, FS_Subset, FS_CardinalityType
  <2> QED
    BY <2>1, <2>2
<1>2. \A s \in S : s # {} =>
          /\ Max(s) \in 1..n /\ s \ {Max(s)} \in S
          /\ Cardinality(s \ {Max(s)}) < Cardinality(s)
  <2> SUFFICES ASSUME NEW s \in S, s # {}
               PROVE  /\ Max(s) \in 1..n /\ s \ {Max(s)} \in S
                      /\ Cardinality(s \ {Max(s)}) < Cardinality(s)
    OBVIOUS
  <2>1. Max(s) \in s
    BY GreatestPosition
  <2>2. Cardinality(s \ {Max(s)}) = Cardinality(s) - 1
    BY <1>1, <2>1, FS_RemoveElement
  <2>3. Cardinality(s) - 1 < Cardinality(s)
    BY <1>1
  <2>4. Max(s) \in 1..n /\ s \ {Max(s)} \in S
    BY <2>1
  <2> QED
    BY ONLY <2>2, <2>3, <2>4
<1>3. \A s \in S, f \in [S -> V] : Body(s, f) \in V
  <2> SUFFICES ASSUME NEW s \in S, NEW f \in [S -> V] PROVE Body(s, f) \in V
    OBVIOUS
  <2>1. CASE s = {}
    BY <2>1
  <2>2. CASE s # {}
    <3>1. Max(s) \in 1..n /\ s \ {Max(s)} \in S
      BY <1>2, <2>2
    <3> HIDE DEF S
    <3>2. f[s \ {Max(s)}] \in V /\ h[Max(s)] \in [V -> V]
      BY <3>1
    <3> QED
      BY <2>2, <3>2
  <2> QED
    BY <2>1, <2>2
<1>4. rank \in [S -> 0..n] /\ value \in [S -> [[S -> V] -> V]]
  <2>1. rank \in [S -> 0..n]
    BY <1>1
  <2>2. value \in [S -> [[S -> V] -> V]]
    <3> HIDE DEF Body, S
    <3> QED
      BY <1>3
  <2> QED
    BY <2>1, <2>2
<1>5. ASSUME NEW s \in S, NEW f \in [S -> V], NEW g \in [S -> V],
             \A t \in S : rank[t] < rank[s] => f[t] = g[t]
      PROVE  value[s][f] = value[s][g]
  <2>1. s # {} => f[s \ {Max(s)}] = g[s \ {Max(s)}]
    BY <1>2, <1>5
  <2>2. Body(s, f) = Body(s, g)
    BY <2>1
  <2>3. value[s][f] = Body(s, f) /\ value[s][g] = Body(s, g)
    <3> HIDE DEF Body, S
    <3> QED
      OBVIOUS
  <2> QED
    BY <2>2, <2>3
<1>6. Recursion(S, V, n, rank, value)
  <2> HIDE DEF S, rank, value
  <2> QED
    BY <1>4, <1>5 DEF Recursion
<1>7. PICK f \in [S -> V] : \A s \in S : f[s] = value[s][f]
  <2> HIDE DEF S, rank, value
  <2> QED
    BY <1>6, RecursionHasSolution
<1>8. \A s \in S : f[s] = Body(s, f)
  <2> HIDE DEF Body, S
  <2> QED
    BY <1>7
<1> QED
  BY <1>7, <1>8 DEF Folds

(***************************************************************************)
(* Its values for the first positions, one after the other.                *)
(***************************************************************************)
LEMMA FoldGoesUp ==
    ASSUME NEW n \in Nat, NEW f, NEW base, NEW h, Folds(f, n, base, h)
    PROVE  /\ f[1..0] = base
           /\ \A k \in 1..n : f[1..k] = h[k][f[1..(k - 1)]]
<1>1. f[1..0] = base
  <2>1. 1..0 = {} /\ {} \in SUBSET (1..n)
    OBVIOUS
  <2> QED
    BY <2>1 DEF Folds
<1>2. ASSUME NEW k \in 1..n
      PROVE  f[1..k] = h[k][f[1..(k - 1)]]
  <2>1. 1..k \in SUBSET (1..n) /\ 1..k # {}
    <3>1. k \in 1..k /\ \A j \in 1..k : j \in 1..n
      OBVIOUS
    <3> QED
      BY ONLY <3>1
  <2>2. Max(1..k) = k
    <3>1. Max(1..k) \in 1..k /\ k <= Max(1..k)
      BY GreatestOfInterval
    <3> QED
      BY <3>1
  <2>3. (1..k) \ {k} = 1..(k - 1)
    OBVIOUS
  <2> QED
    BY <2>1, <2>2, <2>3 DEF Folds
<1> QED
  BY <1>1, <1>2

(***************************************************************************)
(* Total is the sum of the values.                                         *)
(***************************************************************************)
LEMMA TotalIsSum ==
    ASSUME NEW n \in Nat, NEW values \in [1..n -> Int]
    PROVE  \E sum \in [0..n -> Int] :
               /\ sum[0] = 0
               /\ \A k \in 1..n : sum[k] = sum[k - 1] + values[k]
               /\ Total(values) = sum[n]
<1> DEFINE h == [i \in 1..n |-> [v \in Int |-> v + values[i]]]
           iter == CHOOSE g : g = [s \in SUBSET (1..n) |->
                       IF s = {} THEN 0 ELSE g[s \ {Max(s)}] + values[Max(s)]]
<1>1. h \in [1..n -> [Int -> Int]]
  OBVIOUS
<1>2. PICK f \in [SUBSET (1..n) -> Int] : Folds(f, n, 0, h)
  <2> HIDE DEF h
  <2> DEFINE V == Int
  <2>1. 0 \in V /\ h \in [1..n -> [V -> V]]
    BY <1>1
  <2> HIDE DEF V
  <2>2. \E f \in [SUBSET (1..n) -> V] : Folds(f, n, 0, h)
    BY <2>1, FoldHasValues
  <2> QED
    BY <2>2 DEF V
<1>3. \A s \in SUBSET (1..n) :
          s # {} => Max(s) \in 1..n /\ s \ {Max(s)} \in SUBSET (1..n)
  BY GreatestPosition
<1>4. \A s \in SUBSET (1..n) :
          f[s] = IF s = {} THEN 0 ELSE f[s \ {Max(s)}] + values[Max(s)]
  <2> SUFFICES ASSUME NEW s \in SUBSET (1..n)
               PROVE  f[s] = IF s = {} THEN 0
                             ELSE f[s \ {Max(s)}] + values[Max(s)]
    OBVIOUS
  <2>1. f[s] = IF s = {} THEN 0 ELSE h[Max(s)][f[s \ {Max(s)}]]
    BY <1>2 DEF Folds
  <2>2. s # {} => h[Max(s)][f[s \ {Max(s)}]]
                      = f[s \ {Max(s)}] + values[Max(s)]
    BY <1>3
  <2> QED
    BY <2>1, <2>2
<1>5. f = [s \in SUBSET (1..n) |->
              IF s = {} THEN 0 ELSE f[s \ {Max(s)}] + values[Max(s)]]
  BY <1>4
<1>6. iter = [s \in SUBSET (1..n) |->
                 IF s = {} THEN 0 ELSE iter[s \ {Max(s)}] + values[Max(s)]]
  BY <1>5
<1>7. Total(values) = iter[1..n]
  BY DEF Total, FoldLeft, MapThenFoldSet
<1> HIDE DEF iter, h
<1>8. /\ iter[1..0] = 0
      /\ \A k \in 1..n : iter[1..k] = iter[1..(k - 1)] + values[k]
  <2>1. 1..0 = {} /\ {} \in SUBSET (1..n)
    OBVIOUS
  <2>2. iter[1..0] = 0
    BY <1>6, <2>1
  <2>3. ASSUME NEW k \in 1..n
        PROVE  iter[1..k] = iter[1..(k - 1)] + values[k]
    <3>1. 1..k \in SUBSET (1..n) /\ 1..k # {}
      <4>1. k \in 1..k /\ \A j \in 1..k : j \in 1..n
        OBVIOUS
      <4> QED
        BY ONLY <4>1
    <3>2. Max(1..k) = k
      <4>1. Max(1..k) \in 1..k /\ k <= Max(1..k)
        BY GreatestOfInterval
      <4> QED
        BY <4>1
    <3>3. (1..k) \ {k} = 1..(k - 1)
      OBVIOUS
    <3>4. iter[1..k] = iter[(1..k) \ {k}] + values[k]
      BY <1>6, <3>1, <3>2
    <3> QED
      BY <3>3, <3>4
  <2> QED
    BY <2>2, <2>3
<1> DEFINE sum == [k \in 0..n |-> iter[1..k]]
           wrong == {k \in 0..n : sum[k] \notin Int}
<1>9. wrong = {}
  <2> SUFFICES ASSUME wrong # {} PROVE FALSE
    OBVIOUS
  <2>1. wrong \in SUBSET Nat
    OBVIOUS
  <2>2. PICK k \in wrong : \A l \in wrong : k <= l
    BY <2>1, LeastNat
  <2>3. k # 0
    BY <1>8, <2>2
  <2>4. k \in 1..n /\ k - 1 \in 0..n /\ ~(k <= k - 1)
    BY <2>2, <2>3
  <2>5. sum[k - 1] \in Int
    BY <2>2, <2>4
  <2>6. sum[k] = iter[1..k] /\ sum[k - 1] = iter[1..(k - 1)]
    BY <2>2, <2>4
  <2>7. values[k] \in Int /\ iter[1..k] = iter[1..(k - 1)] + values[k]
    BY <1>8, <2>4
  <2>8. sum[k] \in Int
    BY ONLY <2>5, <2>6, <2>7
  <2> QED
    BY <2>2, <2>8
<1> QED
  <2>1. sum \in [0..n -> Int]
    BY <1>9
  <2>2. sum[0] = 0 /\ \A k \in 1..n : sum[k] = sum[k - 1] + values[k]
    BY <1>8
  <2>3. Total(values) = sum[n]
    BY <1>7
  <2> HIDE DEF sum
  <2> QED
    BY <2>1, <2>2, <2>3

-----------------------------------------------------------------------------
(***************************************************************************)
(* A fraction that is not above p / q, put together with another one, is   *)
(* not above p / q or not above that other one.                            *)
(***************************************************************************)
LEMMA Mediant ==
    ASSUME NEW O \in Int, NEW D \in Nat \ {0}, NEW o \in Int,
           NEW d \in Nat \ {0}, NEW p \in Int, NEW q \in Nat \ {0},
           O * q <= p * D
    PROVE  (O + o) * q <= p * (D + d) \/ (O + o) * d <= o * (D + d)
<1>1. CASE o * q <= p * d
  <2>1. (O + o) * q = O * q + o * q /\ p * (D + d) = p * D + p * d
    OBVIOUS
  <2> QED
    BY <1>1, <2>1
<1>2. CASE p * d < o * q
  <2>1. O * d <= o * D
    <3> SUFFICES ASSUME o * D < O * d PROVE FALSE
      OBVIOUS
    <3>1. (o * D) * q < (O * d) * q
      OBVIOUS
    <3>2. (O * q) * d <= (p * D) * d
      OBVIOUS
    <3>3. (p * d) * D < (o * q) * D
      BY <1>2
    <3>4. /\ (O * d) * q = (O * q) * d /\ (p * D) * d = (p * d) * D
          /\ (o * q) * D = (o * D) * q
      OBVIOUS
    <3> QED
      BY <3>1, <3>2, <3>3, <3>4
  <2>2. (O + o) * d = O * d + o * d /\ o * (D + d) = o * D + o * d
    OBVIOUS
  <2> QED
    BY <2>1, <2>2
<1> QED
  BY <1>1, <1>2

-----------------------------------------------------------------------------
(***************************************************************************)
(* The quotient of two sums is at most one of the quotients, if nothing is *)
(* summed above where nothing is summed below.                             *)
(***************************************************************************)
SumOf(sum, n, part) ==
    /\ sum \in [0..n -> Int]
    /\ sum[0] = 0
    /\ \A k \in 1..n : sum[k] = sum[k - 1] + part[k]

(***************************************************************************)
(* By induction over the parts: one more part moves the quotient towards   *)
(* its own, so one of the parts stays above.                               *)
(***************************************************************************)
LEMMA QuotientOfSums ==
    ASSUME NEW n \in Nat, NEW o \in [1..n -> Int], NEW d \in [1..n -> Nat],
           \A i \in 1..n : d[i] = 0 => o[i] = 0,
           NEW O, SumOf(O, n, o), NEW D, SumOf(D, n, d)
    PROVE  /\ D[n] \in Nat
           /\ D[n] # 0 => \E i \in 1..n : /\ d[i] # 0
                                          /\ O[n] * d[i] <= o[i] * D[n]
<1> DEFINE Bounded(k) == \E i \in 1..n : d[i] # 0 /\ O[k] * d[i] <= o[i] * D[k]
           P(k) == /\ D[k] \in Nat
                   /\ D[k] = 0 => O[k] = 0
                   /\ D[k] # 0 => Bounded(k)
           wrong == {k \in 0..n : ~P(k)}
<1>1. /\ O \in [0..n -> Int] /\ O[0] = 0
      /\ \A k \in 1..n : O[k] = O[k - 1] + o[k]
      /\ D \in [0..n -> Int] /\ D[0] = 0
      /\ \A k \in 1..n : D[k] = D[k - 1] + d[k]
  BY DEF SumOf
<1>2. P(0)
  BY <1>1
<1>3. ASSUME NEW k \in 1..n, P(k - 1)
      PROVE  P(k)
  <2>1. /\ k \in 0..n /\ k - 1 \in 0..n
        /\ O[k - 1] \in Int /\ D[k - 1] \in Nat
        /\ o[k] \in Int /\ d[k] \in Nat
        /\ O[k] = O[k - 1] + o[k] /\ D[k] = D[k - 1] + d[k]
        /\ d[k] = 0 => o[k] = 0
    <3>1. k \in 0..n /\ k - 1 \in 0..n
      OBVIOUS
    <3>2. D[k - 1] \in Nat
      BY <1>3
    <3> HIDE DEF P
    <3>3. O[k - 1] \in Int /\ o[k] \in Int /\ d[k] \in Nat
      BY <1>1, <3>1
    <3>4. O[k] = O[k - 1] + o[k] /\ D[k] = D[k - 1] + d[k]
      BY <1>1
    <3> QED
      BY <3>1, <3>2, <3>3, <3>4
  <2>2. CASE d[k] = 0
    <3>1. O[k] = O[k - 1] /\ D[k] = D[k - 1]
      BY <2>1, <2>2
    <3> QED
      BY <1>3, <3>1
  <2>3. CASE d[k] # 0 /\ D[k - 1] = 0
    <3>1. O[k - 1] = 0
      BY <1>3, <2>3
    <3>2. O[k] = o[k] /\ D[k] = d[k]
      BY <2>1, <2>3, <3>1
    <3>3. O[k] * d[k] <= o[k] * D[k]
      <4>1. o[k] * d[k] \in Int
        BY ONLY <2>1
      <4>2. o[k] * d[k] <= o[k] * d[k]
        BY ONLY <4>1
      <4>3. O[k] * d[k] = o[k] * d[k] /\ o[k] * D[k] = o[k] * d[k]
        BY ONLY <3>2
      <4> QED
        BY ONLY <4>2, <4>3
    <3> QED
      BY <2>1, <2>3, <3>2, <3>3
  <2>4. CASE d[k] # 0 /\ D[k - 1] # 0
    <3>1. PICK i \in 1..n : d[i] # 0 /\ O[k - 1] * d[i] <= o[i] * D[k - 1]
      BY <1>3, <2>4
    <3>2. o[i] \in Int /\ d[i] \in Nat \ {0}
      BY <3>1
    <3>3. d[k] \in Nat \ {0} /\ D[k - 1] \in Nat \ {0}
      BY <2>1, <2>4
    <3>4. \/ (O[k - 1] + o[k]) * d[i] <= o[i] * (D[k - 1] + d[k])
          \/ (O[k - 1] + o[k]) * d[k] <= o[k] * (D[k - 1] + d[k])
      BY ONLY <2>1, <3>1, <3>2, <3>3, Mediant
    <3>5. O[k] * d[i] <= o[i] * D[k] \/ O[k] * d[k] <= o[k] * D[k]
      BY ONLY <2>1, <3>4
    <3>6. D[k] \in Nat /\ D[k] # 0
      BY ONLY <2>1, <3>3
    <3>7. Bounded(k)
      BY <2>4, <3>1, <3>5
    <3> QED
      BY <3>6, <3>7
  <2> QED
    BY <2>2, <2>3, <2>4
<1> HIDE DEF P
<1>4. wrong = {}
  <2> SUFFICES ASSUME wrong # {} PROVE FALSE
    OBVIOUS
  <2>1. wrong \in SUBSET Nat
    OBVIOUS
  <2>2. PICK k \in wrong : \A l \in wrong : k <= l
    BY <2>1, LeastNat
  <2>3. k # 0
    BY <1>2, <2>2
  <2>4. k \in 1..n /\ k - 1 \in 0..n /\ ~(k <= k - 1)
    BY <2>2, <2>3
  <2>5. P(k - 1)
    BY <2>2, <2>4
  <2> QED
    BY <1>3, <2>2, <2>4, <2>5
<1> QED
  <2>1. P(n)
    BY <1>4
  <2> QED
    BY <2>1 DEF P

NegatedProduct(a, b) == (0 - a) * b = 0 - a * b /\ a * b \in Int

(***************************************************************************)
(* The product with a negated factor is negated.                           *)
(***************************************************************************)
LEMMA Negated ==
    ASSUME NEW a \in Int, NEW b \in Int
    PROVE  NegatedProduct(a, b)
BY DEF NegatedProduct

(***************************************************************************)
(* The output rate of calls lies between the rates of two of them.         *)
(***************************************************************************)
Outputs(its) ==
    [i \in DOMAIN its |-> IF its[i].usage = None THEN 0
                          ELSE its[i].usage.output]

Durations(its) == [i \in DOMAIN its |-> Duration(its[i])]

TimesMatchUsage(its) ==
    \A i \in DOMAIN its : (its[i].usage # None) = (Duration(its[i]) > 0)

Between(fraction, its) ==
    \E i, j \in DOMAIN its :
        /\ CallRate(its[i]) # None /\ LessEq(CallRate(its[i]), fraction)
        /\ CallRate(its[j]) # None /\ LessEq(fraction, CallRate(its[j]))

(***************************************************************************)
(* What is reported of calls are numbers.                                  *)
(***************************************************************************)
LEMMA TypeOfCalls ==
    ASSUME NEW its \in Seq(ModelCalls)
    PROVE  /\ Len(its) \in Nat /\ DOMAIN its = 1..Len(its)
           /\ Outputs(its) \in [1..Len(its) -> Int]
           /\ Durations(its) \in [1..Len(its) -> Nat]
<1>1. Len(its) \in Nat /\ DOMAIN its = 1..Len(its)
  BY LenProperties
<1>2. \A i \in 1..Len(its) : its[i] \in ModelCalls
  BY ElementOfSeq
<1>3. \A i \in 1..Len(its) :
          /\ its[i].usage \in UsageType \cup {None}
          /\ its[i].duration \in Nat \cup {None}
  BY <1>2 DEF ModelCalls
<1>4. \A u \in UsageType : u.output \in Int
  BY DEF UsageType
<1> QED
  BY <1>1, <1>3, <1>4 DEF Outputs, Durations, Duration

(***************************************************************************)
(* The bound from above is QuotientOfSums for the outputs, the one from    *)
(* below QuotientOfSums for the negated outputs.                           *)
(***************************************************************************)
LEMMA RateOfCalls ==
    ASSUME NEW its \in Seq(ModelCalls), TimesMatchUsage(its),
           NEW rate, rate = Rate(Total(Outputs(its)), TotalDuration(its)),
           rate # None
    PROVE  Between(rate, its)
<1> DEFINE n == Len(its)
           o == Outputs(its)
           d == Durations(its)
           minus == [i \in 1..n |-> 0 - o[i]]
<1>1. /\ n \in Nat /\ DOMAIN its = 1..n
      /\ o \in [1..n -> Int] /\ d \in [1..n -> Nat]
  BY TypeOfCalls
<1>2. \A i \in 1..n : d[i] = 0 => o[i] = 0
  BY <1>1 DEF TimesMatchUsage, Outputs, Durations
<1>3. \A i \in 1..n : d[i] # 0 => /\ CallRate(its[i]) = <<o[i], d[i]>>
                                  /\ CallRate(its[i]) # None
  <2> SUFFICES ASSUME NEW i \in 1..n, d[i] # 0
               PROVE  /\ CallRate(its[i]) = <<o[i], d[i]>>
                      /\ CallRate(its[i]) # None
    OBVIOUS
  <2>1. o[i] \in Int /\ d[i] \in Nat
    BY <1>1
  <2>2. its[i].usage # None /\ d[i] = Duration(its[i])
    BY <1>1, <2>1 DEF TimesMatchUsage, Durations
  <2>3. o[i] = its[i].usage.output
    BY <1>1, <2>2 DEF Outputs
  <2>4. o[i] # None
    BY <2>1, StreamAssumption
  <2>5. CallRate(its[i]) = <<o[i], d[i]>>
    BY <2>2, <2>3, <2>4 DEF CallRate, Rate, UsageOf
  <2>6. <<o[i], d[i]>> # None
    <3>1. <<o[i], d[i]>> \in Int \X Int
      BY <2>1
    <3> QED
      BY <3>1, MetricsAssumption
  <2> QED
    BY <2>5, <2>6
<1>4. TotalDuration(its) = Total(d)
  BY DEF TotalDuration, Field, Durations
<1>5. rate = <<Total(o), Total(d)>> /\ Total(d) # 0
  BY <1>4 DEF Rate
<1> HIDE DEF n, o, d
<1>6. \A i \in 1..n : minus[i] = 0 - o[i]
  OBVIOUS
<1>7. minus \in [1..n -> Int] /\ \A i \in 1..n : d[i] = 0 => minus[i] = 0
  BY <1>1, <1>2
<1> HIDE DEF minus
<1>8. PICK O : SumOf(O, n, o) /\ Total(o) = O[n]
  BY <1>1, TotalIsSum DEF SumOf
<1>9. PICK D : SumOf(D, n, d) /\ Total(d) = D[n]
  <2>1. d \in [1..n -> Int]
    BY <1>1
  <2> QED
    BY <1>1, <2>1, TotalIsSum DEF SumOf
<1> DEFINE M == [k \in 0..n |-> 0 - O[k]]
<1>10. SumOf(M, n, minus)
  <2>1. /\ O \in [0..n -> Int] /\ O[0] = 0
        /\ \A k \in 1..n : O[k] = O[k - 1] + o[k]
    BY <1>8 DEF SumOf
  <2>2. M \in [0..n -> Int] /\ M[0] = 0
    BY <1>1, <2>1
  <2>3. ASSUME NEW k \in 1..n PROVE M[k] = M[k - 1] + minus[k]
    <3>1. /\ k \in 0..n /\ k - 1 \in 0..n /\ O[k - 1] \in Int /\ o[k] \in Int
          /\ O[k] = O[k - 1] + o[k] /\ minus[k] = 0 - o[k]
      BY <1>1, <1>6, <2>1
    <3>2. M[k] = 0 - O[k] /\ M[k - 1] = 0 - O[k - 1]
      BY <3>1
    <3> QED
      BY ONLY <3>1, <3>2
  <2> HIDE DEF M
  <2> QED
    BY <2>2, <2>3 DEF SumOf
<1>11. M[n] = 0 - O[n] /\ O[n] \in Int
  BY <1>1, <1>8 DEF SumOf
<1> HIDE DEF M
<1>12. /\ D[n] \in Nat
       /\ D[n] # 0 => \E j \in 1..n : d[j] # 0 /\ O[n] * d[j] <= o[j] * D[n]
  BY <1>1, <1>2, <1>8, <1>9, QuotientOfSums
<1>13. D[n] # 0 =>
           \E i \in 1..n : d[i] # 0 /\ M[n] * d[i] <= minus[i] * D[n]
  BY <1>1, <1>7, <1>9, <1>10, QuotientOfSums
<1>14. PICK j \in 1..n : d[j] # 0 /\ O[n] * d[j] <= o[j] * D[n]
  BY <1>5, <1>9, <1>12
<1>15. PICK i \in 1..n : d[i] # 0 /\ o[i] * D[n] <= O[n] * d[i]
  <2>1. PICK i \in 1..n : d[i] # 0 /\ M[n] * d[i] <= minus[i] * D[n]
    BY <1>5, <1>9, <1>13
  <2>2. o[i] \in Int /\ d[i] \in Nat /\ minus[i] = 0 - o[i]
    BY <1>1, <1>6
  <2>3. /\ (0 - O[n]) * d[i] = 0 - O[n] * d[i]
        /\ (0 - o[i]) * D[n] = 0 - o[i] * D[n]
        /\ O[n] * d[i] \in Int /\ o[i] * D[n] \in Int
    <3>1. O[n] \in Int /\ d[i] \in Int /\ o[i] \in Int /\ D[n] \in Int
      BY ONLY <1>11, <1>12, <2>2
    <3>2. NegatedProduct(O[n], d[i]) /\ NegatedProduct(o[i], D[n])
      BY ONLY <3>1, Negated
    <3> QED
      BY ONLY <3>2 DEF NegatedProduct
  <2>4. (0 - O[n]) * d[i] <= (0 - o[i]) * D[n]
    BY <1>11, <2>1, <2>2
  <2>5. o[i] * D[n] <= O[n] * d[i]
    BY ONLY <2>3, <2>4
  <2> QED
    BY <2>1, <2>5
<1>16. rate[1] = O[n] /\ rate[2] = D[n]
  BY <1>5, <1>8, <1>9
<1>17. /\ LessEq(CallRate(its[i]), rate) /\ CallRate(its[i]) # None
       /\ LessEq(rate, CallRate(its[j])) /\ CallRate(its[j]) # None
  BY <1>3, <1>14, <1>15, <1>16 DEF LessEq
<1> QED
  BY <1>1, <1>17 DEF Between

-----------------------------------------------------------------------------
(***************************************************************************)
(* What a line of the stream does to the message: it takes one event, or   *)
(* none.                                                                   *)
(***************************************************************************)
TakesNothing ==
    /\ UNCHANGED <<events, messageVars>>
    /\ now' \in {now, now + 1}
    /\ client' \in {client, "returned", "failed", "raised"}

(***************************************************************************)
(* Only while it is read, and event by event: what is handed over and      *)
(* parses is an event the provider sent.                                   *)
(***************************************************************************)
LEMMA StepTakesEvents ==
    ASSUME FramesInv, StreamNext
    PROVE  /\ Reading
           /\ TakesNothing \/ \E e \in Events : Take(e)
<1>1. Reading
  BY DEF StreamNext, DataLine, BlankLine, SkippedLine, ConnectionCloses,
         LastEvent, ReturnAtEnd, HttpError, TransportRaises
<1>2. CASE DataLine \/ SkippedLine \/ ConnectionCloses
  BY <1>2 DEF DataLine, SkippedLine, ConnectionCloses, TakesNothing
<1>3. CASE ReturnAtEnd \/ HttpError \/ TransportRaises
  BY <1>3 DEF ReturnAtEnd, HttpError, TransportRaises, ReturnMessage, Stop,
              TimeMayPass, TakesNothing
<1>4. CASE BlankLine \/ LastEvent
  <2>1. HandOver /\ data = partial /\ partial # << >>
    BY <1>1, <1>4 DEF BlankLine, LastEvent, Complete, Reading, FramesInv
  <2>2. Handle(partial)
    BY <2>1 DEF HandOver
  <2>3. PICK e \in Events \cup {Done} : Begun(partial, e)
    BY <2>1 DEF FramesInv
  <2>4. partial[1][1] = e
    BY <2>3, BegunEvent
  <2>5. CASE Take(e) /\ e # Done
    BY <1>1, <2>5
  <2>6. CASE Stop("failed") \/ ReturnMessage
    BY <1>1, <2>6 DEF Stop, ReturnMessage, TimeMayPass, TakesNothing
  <2> QED
    BY <2>2, <2>4, <2>5, <2>6 DEF Handle
<1> QED
  BY <1>1, <1>2, <1>3, <1>4 DEF StreamNext

(***************************************************************************)
(* The parts of an event.                                                  *)
(***************************************************************************)
LEMMA TypeOfEvents ==
    ASSUME NEW e \in Events
    PROVE  /\ e.error \in BOOLEAN
           /\ e.usage \in UsageType \cup {None}
           /\ e.choice \in ChoiceType \cup {None}
           /\ e.choice # None =>
                  /\ e.choice.content \in Seq(Piece)
                  /\ e.choice.reasoning \in Seq(Piece)
                  /\ e.choice.deltas \in Seq(DeltaType)
                  /\ e.choice.finish \in Label \cup {None}
<1>1. e \in [error : BOOLEAN, usage : UsageType \cup {None},
             choice : ChoiceType \cup {None}]
  BY StreamAssumption
<1>2. /\ e.error \in BOOLEAN /\ e.usage \in UsageType \cup {None}
      /\ e.choice \in ChoiceType \cup {None}
  BY <1>1
<1> QED
  BY <1>2 DEF ChoiceType

-----------------------------------------------------------------------------
(***************************************************************************)
(* Output is stamped in the order it comes in, the clock never runs back.  *)
(***************************************************************************)
TimesInv ==
    /\ now \in Nat
    /\ stamps \in Seq(Nat)
    /\ \A i \in 1..Len(stamps) : stamps[i] <= now
    /\ \A i, j \in 1..Len(stamps) : i <= j => stamps[i] <= stamps[j]
    /\ usage \in UsageType \cup {None}

(***************************************************************************)
(* An event with output is stamped with the latest time.                   *)
(***************************************************************************)
LEMMA TakeKeepsTimes ==
    ASSUME TimesInv, NEW e \in Events, Take(e)
    PROVE  TimesInv'
<1>1. CASE e.error \/ e.choice = None
  BY <1>1, TypeOfEvents DEF Take, TakeUsage, messageVars, TimesInv
<1>2. CASE ~e.error /\ e.choice # None
  <2>1. usage' \in UsageType \cup {None}
    BY <1>2, TypeOfEvents DEF Take, TakeUsage, TimesInv
  <2>2. \/ UNCHANGED <<now, stamps>>
        \/ now' \in {now, now + 1} /\ stamps' = Append(stamps, now')
    BY <1>2 DEF Take, TakeChoice, TimeMayPass
  <2>3. CASE UNCHANGED <<now, stamps>>
    BY <2>1, <2>3 DEF TimesInv
  <2>4. CASE now' \in {now, now + 1} /\ stamps' = Append(stamps, now')
    <3>1. /\ now \in Nat /\ now' \in Nat /\ now <= now'
          /\ stamps \in Seq(Nat)
      BY <2>4 DEF TimesInv
    <3>2. /\ stamps' \in Seq(Nat) /\ Len(stamps') = Len(stamps) + 1
          /\ \A i \in 1..Len(stamps) : stamps'[i] = stamps[i]
          /\ stamps'[Len(stamps) + 1] = now'
          /\ Len(stamps) \in Nat
      BY <2>4, <3>1, AppendProperties, LenProperties
    <3>3. ASSUME NEW i \in 1..Len(stamps') PROVE stamps'[i] <= now'
      <4>1. CASE i \in 1..Len(stamps)
        <5>1. stamps'[i] = stamps[i] /\ stamps[i] <= now /\ stamps[i] \in Nat
          BY <3>1, <3>2, <4>1, ElementOfSeq DEF TimesInv
        <5> QED
          BY <3>1, <5>1
      <4>2. CASE i = Len(stamps) + 1
        BY <3>1, <3>2, <4>2
      <4> QED
        BY <3>2, <4>1, <4>2
    <3>4. ASSUME NEW i \in 1..Len(stamps'), NEW j \in 1..Len(stamps'), i <= j
          PROVE  stamps'[i] <= stamps'[j]
      <4>1. CASE j \in 1..Len(stamps)
        <5>1. i \in 1..Len(stamps)
          BY <3>2, <3>4, <4>1
        <5> QED
          BY <3>2, <3>4, <4>1, <5>1 DEF TimesInv
      <4>2. CASE j = Len(stamps) + 1
        BY <3>2, <3>3, <4>2
      <4> QED
        BY <3>2, <4>1, <4>2
    <3> QED
      BY <2>1, <3>1, <3>2, <3>3, <3>4 DEF TimesInv
  <2> QED
    BY <2>2, <2>3, <2>4
<1> QED
  BY <1>1, <1>2, TypeOfEvents

(***************************************************************************)
(* The calls of a run have the values records are made of, and the record  *)
(* is made of them.                                                        *)
(***************************************************************************)
CallInv ==
    /\ calls \in Seq(ModelCalls)
    /\ stage = "recorded" =>
           \E task \in Range(Tasks), strategy \in Range(Strategies),
              wall \in WallTimes, passed \in BOOLEAN :
               record = FromResult(task, strategy, passed, wall, calls)

(***************************************************************************)
(* The result of a call: its times are not negative, because the stamps do *)
(* not run back.                                                           *)
(***************************************************************************)
LEMMA TypeOfCall ==
    ASSUME TimesInv
    PROVE  CallResult \in ModelCalls
<1>1. /\ now \in Nat /\ stamps \in Seq(Nat) /\ usage \in UsageType \cup {None}
      /\ Len(stamps) \in Nat
  BY LenProperties DEF TimesInv
<1>2. stamps # << >> => 1 \in 1..Len(stamps) /\ Len(stamps) \in 1..Len(stamps)
  BY <1>1, EmptySeq
<1>3. \A i, j \in 1..Len(stamps) :
          i <= j => stamps[i] \in Nat /\ stamps[j] - stamps[i] \in Nat
  <2> SUFFICES ASSUME NEW i \in 1..Len(stamps), NEW j \in 1..Len(stamps), i <= j
               PROVE  stamps[i] \in Nat /\ stamps[j] - stamps[i] \in Nat
    OBVIOUS
  <2>1. stamps[i] \in Nat /\ stamps[j] \in Nat
    BY <1>1, ElementOfSeq
  <2>2. stamps[i] <= stamps[j]
    BY DEF TimesInv
  <2> QED
    BY <2>1, <2>2
<1>4. Ttft \in Nat \cup {None}
  BY <1>2, <1>3 DEF Ttft, Head
<1>5. GenerationDuration \in Nat \cup {None}
  <2>1. stamps # << >> =>
            Last(stamps) = stamps[Len(stamps)] /\ Head(stamps) = stamps[1]
    BY <1>1 DEF Last
  <2> QED
    BY <1>2, <1>3, <2>1 DEF GenerationDuration
<1>6. Intervals \in Seq(Nat)
  <2>1. \A i \in 1..(Len(stamps) - 1) :
            /\ i \in 1..Len(stamps) /\ i + 1 \in 1..Len(stamps) /\ i <= i + 1
    BY <1>1
  <2>2. Intervals \in [1..(Len(stamps) - 1) -> Nat]
    BY <1>3, <2>1 DEF Intervals
  <2>3. CASE Len(stamps) = 0
    <3>1. 1..(Len(stamps) - 1) = 1..0 /\ 0 \in Nat
      BY <2>3
    <3>2. Intervals \in [1..0 -> Nat]
      BY <2>2, <3>1
    <3>3. \E n \in Nat : Intervals \in [1..n -> Nat]
      BY <3>1, <3>2
    <3> HIDE DEF Intervals
    <3> QED
      BY <3>3, SeqDef
  <2>4. CASE Len(stamps) # 0
    <3>1. Len(stamps) - 1 \in Nat
      BY <1>1, <2>4
    <3>2. \E n \in Nat : Intervals \in [1..n -> Nat]
      BY <2>2, <3>1
    <3> QED
      BY <3>2, SeqDef
  <2> QED
    BY <2>3, <2>4
<1> QED
  BY <1>1, <1>4, <1>5, <1>6 DEF CallResult, ModelCalls

(***************************************************************************)
(* In every state of a run the times are in order and the record is made   *)
(* of the calls of the run.                                                *)
(***************************************************************************)
THEOREM TimesAreKept == TelemetrySpec => [](TimesInv /\ CallInv)
<1>1. StreamInit => TimesInv
  BY EmptySeq DEF StreamInit, TimesInv
<1>2. TelemetryInit => TimesInv /\ CallInv
  BY <1>1, EmptySeq DEF TelemetryInit, CallInv
<1>3. FramesInv /\ TimesInv /\ CallInv /\ [TelemetryNext]_runVars
          => (TimesInv /\ CallInv)'
  <2> SUFFICES ASSUME FramesInv, TimesInv, CallInv, [TelemetryNext]_runVars
               PROVE  TimesInv' /\ CallInv'
    OBVIOUS
  <2>1. TimesInv'
    <3>1. CASE StreamNext
      <4>1. CASE TakesNothing
        BY <4>1 DEF TakesNothing, messageVars, TimesInv
      <4>2. CASE \E e \in Events : Take(e)
        BY <4>2, TakeKeepsTimes
      <4> QED
        BY <3>1, <4>1, <4>2, StepTakesEvents
    <3>2. CASE UNCHANGED streamVars
      BY <3>2 DEF streamVars, messageVars, TimesInv
    <3>3. CASE StreamInit'
      BY <3>3, EmptySeq DEF StreamInit, TimesInv
    <3> QED
      BY <3>1, <3>2, <3>3, StepOfStream
  <2>2. CallInv'
    <3>1. CASE Recording
      <4>1. PICK before \in CallsBeside, after \in CallsBeside :
                calls' = IF client = "failed" THEN before
                         ELSE before \o <<CallResult>> \o after
        BY <3>1 DEF Recording
      <4>2. before \in Seq(ModelCalls) /\ after \in Seq(ModelCalls)
        BY MetricsAssumption
      <4>3. <<CallResult>> \in Seq(ModelCalls)
        BY TypeOfCall
      <4>4. before \o <<CallResult>> \o after \in Seq(ModelCalls)
        <5> DEFINE mine == <<CallResult>>
        <5> HIDE DEF mine
        <5> QED
          BY <4>2, <4>3, ConcatProperties DEF mine
      <4> QED
        BY <3>1, <4>1, <4>2, <4>4 DEF Recording, CallInv
    <3>2. CASE Streaming \/ NothingLeft \/ UNCHANGED runVars
      BY <3>2 DEF Streaming, NothingLeft, runVars, telemetryVars, CallInv
    <3>3. CASE RunAborts \/ Analysing
      <4>1. UNCHANGED calls /\ stage' # "recorded"
        BY <3>3 DEF RunAborts, Analysing
      <4> QED
        BY <4>1 DEF CallInv
    <3> QED
      BY <3>1, <3>2, <3>3 DEF TelemetryNext
  <2> QED
    BY <2>1, <2>2
<1> QED
  BY <1>2, <1>3, FramesAreKept, PTL DEF TelemetrySpec

-----------------------------------------------------------------------------
(***************************************************************************)
(* The rate a record gives is the total output divided by the total time:  *)
(* calls without usage add nothing to the output.                          *)
(***************************************************************************)
LEMMA RateOfRecord ==
    ASSUME NEW its \in Seq(ModelCalls), NEW task, NEW strategy, NEW passed,
           NEW wall, NEW r, r = FromResult(task, strategy, passed, wall, its),
           r.rate # None
    PROVE  r.rate = Rate(Total(Outputs(its)), TotalDuration(its))
<1> DEFINE output == [i \in DOMAIN its |->
                         IF its[i].usage = None THEN None
                         ELSE its[i].usage.output]
<1>1. r.rate = Rate(TotalReported(output), TotalDuration(its))
  BY DEF FromResult, Field, UsageOf
<1>2. TotalReported(output) # None
  BY <1>1 DEF Rate
<1>3. TotalReported(output)
          = Total([i \in DOMAIN its |-> IF output[i] = None THEN 0
                                        ELSE output[i]])
  BY <1>2 DEF TotalReported
<1>4. \A i \in DOMAIN its :
          its[i].usage # None => its[i].usage.output # None
  <2> SUFFICES ASSUME NEW i \in DOMAIN its, its[i].usage # None
               PROVE  its[i].usage.output # None
    OBVIOUS
  <2>1. its[i] \in ModelCalls
    BY ElementOfSeq, LenProperties
  <2>2. its[i].usage \in UsageType
    BY <2>1 DEF ModelCalls
  <2>3. its[i].usage.output \in Int
    BY <2>2 DEF UsageType
  <2> QED
    BY <2>3, StreamAssumption
<1>5. Outputs(its)
          = [i \in DOMAIN its |-> IF output[i] = None THEN 0 ELSE output[i]]
  BY <1>4 DEF Outputs
<1> QED
  BY <1>1, <1>3, <1>5

(***************************************************************************)
(* The output rate of a run (RunRecord.from_result) lies between the rates *)
(* of its calls, for any number of calls, if the calls that report usage   *)
(* are those whose output took time.                                       *)
(***************************************************************************)
THEOREM RatesAreMeans == TelemetrySpec => []RateLiesBetweenItsCalls
<1>1. CallInv => RateLiesBetweenItsCalls
  <2> SUFFICES ASSUME CallInv, stage = "recorded",
                      \A i \in DOMAIN calls :
                          (calls[i].usage # None) = (Duration(calls[i]) > 0),
                      record.rate # None
               PROVE  LET rates == {CallRate(c) : c \in Range(calls)} \ {None}
                      IN  /\ \E f \in rates : LessEq(f, record.rate)
                          /\ \E f \in rates : LessEq(record.rate, f)
    BY DEF RateLiesBetweenItsCalls
  <2>1. PICK task \in Range(Tasks), strategy \in Range(Strategies),
               wall \in WallTimes, passed \in BOOLEAN :
            record = FromResult(task, strategy, passed, wall, calls)
    BY DEF CallInv
  <2>2. calls \in Seq(ModelCalls) /\ TimesMatchUsage(calls)
    BY DEF CallInv, TimesMatchUsage
  <2>3. record.rate = Rate(Total(Outputs(calls)), TotalDuration(calls))
    BY <2>1, <2>2, RateOfRecord
  <2>4. Between(record.rate, calls)
    BY <2>2, <2>3, RateOfCalls
  <2> QED
    BY <2>4 DEF Between, Range
<1> QED
  BY <1>1, TimesAreKept, PTL

-----------------------------------------------------------------------------
(***************************************************************************)
(* FlattenSeq puts the sequences one after the other.                      *)
(***************************************************************************)
LEMMA Flattening ==
    ASSUME NEW T, NEW s \in Seq(Seq(T))
    PROVE  \E flat \in [0..Len(s) -> Seq(T)] :
               /\ flat[0] = << >>
               /\ \A i \in 1..Len(s) : flat[i] = flat[i - 1] \o s[i]
               /\ FlattenSeq(s) = flat[Len(s)]
<1> DEFINE n == Len(s)
           S == 1..n
           V == Seq(T)
           Body(f, i) == IF i = 1 THEN s[i] ELSE f[i - 1] \o s[i]
           rank == [i \in S |-> i]
           value == [i \in S |-> [f \in [S -> V] |-> Body(f, i)]]
<1>1. n \in Nat /\ << >> \in V /\ \A i \in S : s[i] \in V /\ i \in Nat
  BY LenProperties, ElementOfSeq, EmptySeq
<1>2. CASE n = 0
  <2>1. s = << >> /\ FlattenSeq(s) = s
    BY <1>2, EmptySeq DEF FlattenSeq
  <2> DEFINE flat == [i \in 0..n |-> << >>]
  <2>2. /\ flat \in [0..n -> V] /\ flat[0] = << >>
        /\ FlattenSeq(s) = flat[n] /\ 1..n = {}
    BY <1>1, <1>2, <2>1
  <2> HIDE DEF flat
  <2> QED
    BY <2>2
<1>3. CASE n # 0
  <2> HIDE DEF n, V
  <2>1. ASSUME NEW i \in S, i # 1 PROVE i - 1 \in S /\ i - 1 < i
    BY <1>1, <2>1
  <2>2. \A i \in S, f \in [S -> V] : Body(f, i) \in V
    BY <1>1, <2>1, ConcatProperties DEF V
  <2>3. value \in [S -> [[S -> V] -> V]] /\ rank \in [S -> 0..n]
    BY <1>1, <2>2
  <2>4. ASSUME NEW i \in S, NEW f \in [S -> V], NEW g \in [S -> V],
               \A j \in S : rank[j] < rank[i] => f[j] = g[j]
        PROVE  value[i][f] = value[i][g]
    BY <2>1, <2>4
  <2>5. Recursion(S, V, n, rank, value)
    <3> HIDE DEF rank, value, S
    <3>1. \A x \in S : \A f, g \in [S -> V] :
              (\A y \in S : rank[y] < rank[x] => f[y] = g[y])
                  => value[x][f] = value[x][g]
      BY <2>4
    <3> QED
      BY <1>1, <2>3, <3>1 DEF Recursion
  <2>6. PICK f \in [S -> V] : \A i \in S : f[i] = value[i][f]
    <3> HIDE DEF rank, value, S
    <3> QED
      BY <2>5, RecursionHasSolution
  <2>7. f = [i \in S |-> Body(f, i)]
    BY <2>6
  <2> DEFINE F == CHOOSE g : g = [i \in S |-> Body(g, i)]
  <2>8. F = [i \in S |-> Body(F, i)]
    <3> HIDE DEF S, Body
    <3> QED
      BY <2>7
  <2>9. FlattenSeq(s) = F[n]
    BY <1>3 DEF FlattenSeq, n
  <2> HIDE DEF F
  <2>10. \A i \in S : F[i] = Body(F, i)
    <3> HIDE DEF Body
    <3> QED
      BY <2>8
  <2> DEFINE untyped == {i \in S : F[i] \notin V}
  <2>11. untyped = {}
    <3> SUFFICES ASSUME untyped # {} PROVE FALSE
      OBVIOUS
    <3>1. untyped \in SUBSET Nat
      BY <1>1
    <3>2. PICK i \in untyped : \A j \in untyped : i <= j
      BY <3>1, LeastNat
    <3>3. CASE i = 1
      BY <1>1, <2>10, <3>2, <3>3
    <3>4. CASE i # 1
      <4>1. i - 1 \in S /\ i - 1 \notin untyped
        BY <1>1, <2>1, <3>2, <3>4
      <4>2. F[i - 1] \in V /\ s[i] \in V
        BY <1>1, <3>2, <4>1
      <4>3. F[i] = F[i - 1] \o s[i]
        BY <2>10, <3>2, <3>4
      <4>4. F[i] \in V
        BY <4>2, <4>3, ConcatProperties DEF V
      <4> QED
        BY <3>2, <4>4
    <3> QED
      BY <3>3, <3>4
  <2> DEFINE flat == [i \in 0..n |-> IF i = 0 THEN << >> ELSE F[i]]
  <2>12. flat \in [0..n -> V] /\ flat[0] = << >> /\ flat[n] = F[n]
    BY <1>1, <1>3, <2>11
  <2>13. ASSUME NEW i \in 1..n PROVE flat[i] = flat[i - 1] \o s[i]
    <3>1. CASE i = 1
      <4>1. flat[i] = s[i] /\ flat[i - 1] = << >>
        BY <1>1, <2>10, <3>1
      <4> QED
        BY <1>1, <4>1, ConcatEmptySeq DEF V
    <3>2. CASE i # 1
      <4>1. i \in 0..n /\ i - 1 \in 0..n /\ i # 0 /\ i - 1 # 0
        BY <1>1, <3>2
      <4>2. flat[i] = F[i] /\ flat[i - 1] = F[i - 1]
        BY <4>1
      <4> QED
        BY <2>10, <3>2, <4>2
    <3> QED
      BY <3>1, <3>2
  <2>14. FlattenSeq(s) = flat[n]
    BY <2>9, <2>12
  <2> HIDE DEF flat
  <2>15. \E g \in [0..n -> V] :
             /\ g[0] = << >>
             /\ \A i \in 1..n : g[i] = g[i - 1] \o s[i]
             /\ FlattenSeq(s) = g[n]
    BY <2>12, <2>13, <2>14
  <2> QED
    BY <2>15 DEF n, V
<1> QED
  BY <1>2, <1>3

(***************************************************************************)
(* With one more sequence it puts that one behind.                         *)
(***************************************************************************)
LEMMA FlatteningOneMore ==
    ASSUME NEW T, NEW s \in Seq(Seq(T)), NEW x \in Seq(T)
    PROVE  /\ FlattenSeq(s) \in Seq(T)
           /\ FlattenSeq(Append(s, x)) = FlattenSeq(s) \o x
<1> DEFINE n == Len(s)
           V == Seq(T)
           t == Append(s, x)
<1>1. /\ n \in Nat /\ s \in Seq(V) /\ x \in V
      /\ t \in Seq(V) /\ Len(t) = n + 1 /\ t[n + 1] = x
      /\ \A i \in 1..n : t[i] = s[i]
  BY LenProperties, AppendProperties
<1>2. PICK short \in [0..n -> V] :
          /\ short[0] = << >>
          /\ \A i \in 1..n : short[i] = short[i - 1] \o s[i]
          /\ FlattenSeq(s) = short[n]
  BY Flattening
<1>3. PICK long \in [0..Len(t) -> V] :
          /\ long[0] = << >>
          /\ \A i \in 1..Len(t) : long[i] = long[i - 1] \o t[i]
          /\ FlattenSeq(t) = long[Len(t)]
  <2> HIDE DEF t
  <2> QED
    BY <1>1, Flattening
<1> DEFINE wrong == {i \in 0..n : long[i] # short[i]}
<1> HIDE DEF n, V, t
<1>4. wrong = {}
  <2> SUFFICES ASSUME wrong # {} PROVE FALSE
    OBVIOUS
  <2>1. wrong \in SUBSET Nat
    OBVIOUS
  <2>2. PICK i \in wrong : \A j \in wrong : i <= j
    BY <2>1, LeastNat
  <2>3. i # 0
    BY <1>2, <1>3, <2>2
  <2>4. /\ i \in 1..n /\ i \in 1..Len(t) /\ i - 1 \in 0..n
        /\ ~(i <= i - 1)
    BY <1>1, <2>2, <2>3
  <2>5. long[i - 1] = short[i - 1]
    BY <2>2, <2>4
  <2>6. long[i] = long[i - 1] \o t[i] /\ short[i] = short[i - 1] \o s[i]
    BY <1>2, <1>3, <2>4
  <2> QED
    BY <1>1, <2>2, <2>4, <2>5, <2>6
<1>5. long[n] = short[n]
  <2>1. n \in 0..n
    BY <1>1
  <2> QED
    BY <1>4, <2>1
<1>6. long[n + 1] = long[n] \o t[n + 1]
  <2>1. n + 1 \in 1..Len(t) /\ (n + 1) - 1 = n
    BY <1>1
  <2> QED
    BY <1>3, <2>1
<1>7. short[n] \in V
  BY <1>1, <1>2
<1> QED
  BY <1>1, <1>2, <1>3, <1>5, <1>6, <1>7 DEF V, t

(***************************************************************************)
(* What Joined makes of elements that part maps to sequences.              *)
(***************************************************************************)
JoinedBy(part, seq) == FlattenSeq([k \in DOMAIN seq |-> part[seq[k]]])

(***************************************************************************)
(* There are as many parts as elements.                                    *)
(***************************************************************************)
LEMMA PartsOf ==
    ASSUME NEW S, NEW V, NEW part \in [S -> V], NEW seq \in Seq(S)
    PROVE  /\ [k \in DOMAIN seq |-> part[seq[k]]] \in Seq(V)
           /\ Len([k \in DOMAIN seq |-> part[seq[k]]]) = Len(seq)
<1> DEFINE n == Len(seq)
           parts == [k \in DOMAIN seq |-> part[seq[k]]]
<1>1. n \in Nat /\ DOMAIN seq = 1..n /\ \A k \in 1..n : seq[k] \in S
  BY LenProperties, ElementOfSeq
<1> HIDE DEF n
<1>2. parts \in [1..n -> V] /\ DOMAIN parts = 1..n
  BY <1>1
<1> HIDE DEF parts
<1>3. parts \in Seq(V)
  BY <1>1, <1>2, SeqDef
<1>4. Len(parts) = n
  BY <1>1, <1>2, <1>3, LenProperties
<1> QED
  BY <1>3, <1>4 DEF parts, n

JoinsOneMore(T, part, seq, e) ==
    /\ JoinedBy(part, seq) \in Seq(T)
    /\ JoinedBy(part, Append(seq, e)) = JoinedBy(part, seq) \o part[e]

(***************************************************************************)
(* One more element joins its part behind the others.                      *)
(***************************************************************************)
LEMMA JoiningOneMore ==
    ASSUME NEW S, NEW T, NEW part \in [S -> Seq(T)],
           NEW seq \in Seq(S), NEW e \in S
    PROVE  JoinsOneMore(T, part, seq, e)
<1> DEFINE V == Seq(T)
           n == Len(seq)
           more == Append(seq, e)
           short == [k \in DOMAIN seq |-> part[seq[k]]]
           long == [k \in DOMAIN more |-> part[more[k]]]
           last == part[e]
<1>1. part \in [S -> V] /\ last \in V
  OBVIOUS
<1>2. /\ n \in Nat /\ DOMAIN seq = 1..n
      /\ more \in Seq(S) /\ Len(more) = n + 1 /\ DOMAIN more = 1..(n + 1)
      /\ more[n + 1] = e /\ \A k \in 1..n : more[k] = seq[k]
  BY LenProperties, AppendProperties
<1>3. JoinedBy(part, seq) = FlattenSeq(short)
      /\ JoinedBy(part, more) = FlattenSeq(long)
  BY DEF JoinedBy
<1>4. /\ \A k \in 1..n : short[k] = part[seq[k]]
      /\ \A k \in 1..(n + 1) : long[k] = part[more[k]]
  BY <1>2
<1> HIDE DEF V, n, more
<1>5. short \in Seq(V) /\ Len(short) = n /\ long \in Seq(V) /\ Len(long) = n + 1
  BY <1>1, <1>2, PartsOf DEF n
<1> HIDE DEF short, long, last
<1>6. /\ Append(short, last) \in Seq(V) /\ Len(Append(short, last)) = n + 1
      /\ Append(short, last)[n + 1] = last
      /\ \A k \in 1..n : Append(short, last)[k] = short[k]
  BY <1>1, <1>5, AppendProperties
<1>7. \A k \in 1..(n + 1) : long[k] = Append(short, last)[k]
  <2> SUFFICES ASSUME NEW k \in 1..(n + 1)
               PROVE  long[k] = Append(short, last)[k]
    OBVIOUS
  <2>1. CASE k = n + 1
    BY <1>2, <1>4, <1>6, <2>1 DEF last
  <2>2. CASE k \in 1..n
    <3>1. long[k] = part[more[k]] /\ short[k] = part[seq[k]]
      BY <1>4, <2>2
    <3>2. more[k] = seq[k] /\ Append(short, last)[k] = short[k]
      BY <1>2, <1>6, <2>2
    <3> QED
      BY ONLY <3>1, <3>2
  <2>3. k = n + 1 \/ k \in 1..n
    BY <1>2
  <2> QED
    BY ONLY <2>1, <2>2, <2>3
<1>8. long = Append(short, last)
  BY <1>5, <1>6, <1>7, SeqEqual
<1>9. FlattenSeq(short) \in V /\ FlattenSeq(long) = FlattenSeq(short) \o last
  <2>1. short \in Seq(Seq(T)) /\ last \in Seq(T)
    BY <1>1, <1>5 DEF V
  <2> QED
    BY ONLY <1>8, <2>1, FlatteningOneMore DEF V
<1> QED
  BY <1>3, <1>9 DEF JoinsOneMore, V, more, last

(***************************************************************************)
(* Empty parts make an empty sequence.                                     *)
(***************************************************************************)
LEMMA JoiningNothing ==
    ASSUME NEW S, NEW T, NEW part \in [S -> Seq(T)], NEW seq \in Seq(S),
           \A k \in 1..Len(seq) : part[seq[k]] = << >>
    PROVE  JoinedBy(part, seq) = << >>
<1> DEFINE V == Seq(T)
           n == Len(seq)
           parts == [k \in DOMAIN seq |-> part[seq[k]]]
<1>1. part \in [S -> V] /\ n \in Nat /\ DOMAIN seq = 1..n
  BY LenProperties
<1>2. \A k \in 1..n : parts[k] = << >>
  BY <1>1
<1> HIDE DEF V, n
<1>3. parts \in Seq(V) /\ Len(parts) = n
  BY <1>1, PartsOf DEF n
<1> HIDE DEF parts
<1>4. PICK flat \in [0..n -> V] :
          /\ flat[0] = << >>
          /\ \A i \in 1..n : flat[i] = flat[i - 1] \o parts[i]
          /\ FlattenSeq(parts) = flat[n]
  BY <1>3, Flattening DEF V
<1> DEFINE wrong == {i \in 0..n : flat[i] # << >>}
<1>5. wrong = {}
  <2> SUFFICES ASSUME wrong # {} PROVE FALSE
    OBVIOUS
  <2>1. wrong \in SUBSET Nat
    OBVIOUS
  <2>2. PICK i \in wrong : \A j \in wrong : i <= j
    BY <2>1, LeastNat
  <2>3. i # 0
    BY <1>4, <2>2
  <2>4. i \in 1..n /\ i - 1 \in 0..n /\ ~(i <= i - 1)
    BY <1>1, <2>2, <2>3
  <2>5. flat[i - 1] = << >> /\ parts[i] = << >>
    BY <1>2, <2>2, <2>4
  <2>6. flat[i] = << >> \o << >>
    BY <1>4, <2>4, <2>5
  <2>7. << >> \o << >> = << >>
    BY EmptySeq, ConcatEmptySeq
  <2> QED
    BY <2>2, <2>6, <2>7
<1>6. flat[n] = << >>
  BY <1>1, <1>5
<1> QED
  BY <1>4, <1>6 DEF JoinedBy, parts

-----------------------------------------------------------------------------
(***************************************************************************)
(* The deltas of a call make its id, its name and its arguments, one delta *)
(* at a time.                                                              *)
(***************************************************************************)
NameFor(i) == [d \in DeltaType |-> IF d.index = i THEN d.name ELSE << >>]

ArgumentsFor(i) ==
    [d \in DeltaType |-> IF d.index = i THEN d.arguments ELSE << >>]

(***************************************************************************)
(* The texts of a call are joined from the parts that are about it.        *)
(***************************************************************************)
LEMMA TextsOfCall ==
    ASSUME NEW ds \in Seq(DeltaType), NEW i
    PROVE  /\ NameFor(i) \in [DeltaType -> Seq(Piece)]
           /\ ArgumentsFor(i) \in [DeltaType -> Seq(Piece)]
           /\ TextFor(i, ds, LAMBDA d : d.name) = JoinedBy(NameFor(i), ds)
           /\ TextFor(i, ds, LAMBDA d : d.arguments)
                  = JoinedBy(ArgumentsFor(i), ds)
<1>1. << >> \in Seq(Piece)
  BY EmptySeq
<1>2. \A d \in DeltaType : d.name \in Seq(Piece) /\ d.arguments \in Seq(Piece)
  BY DEF DeltaType
<1>3. NameFor(i) \in [DeltaType -> Seq(Piece)]
  BY <1>1, <1>2 DEF NameFor
<1>4. ArgumentsFor(i) \in [DeltaType -> Seq(Piece)]
  BY <1>1, <1>2 DEF ArgumentsFor
<1>5. \A k \in DOMAIN ds : ds[k] \in DeltaType
  BY ElementOfSeq, LenProperties
<1>6. [k \in DOMAIN ds |-> IF ds[k].index = i THEN ds[k].name ELSE << >>]
          = [k \in DOMAIN ds |-> NameFor(i)[ds[k]]]
  BY <1>5 DEF NameFor
<1>7. [k \in DOMAIN ds |-> IF ds[k].index = i THEN ds[k].arguments ELSE << >>]
          = [k \in DOMAIN ds |-> ArgumentsFor(i)[ds[k]]]
  BY <1>5 DEF ArgumentsFor
<1>8. TextFor(i, ds, LAMBDA d : d.name) = JoinedBy(NameFor(i), ds)
  BY <1>6 DEF TextFor, Joined, JoinedBy
<1>9. TextFor(i, ds, LAMBDA d : d.arguments) = JoinedBy(ArgumentsFor(i), ds)
  BY <1>7 DEF TextFor, Joined, JoinedBy
<1> QED
  BY <1>3, <1>4, <1>8, <1>9

Named(i, ds) == {k \in DOMAIN ds : ds[k].index = i /\ ds[k].id # None}

(***************************************************************************)
(* The id of a call is that of the last delta that is about it and has     *)
(* one.                                                                    *)
(***************************************************************************)
LEMMA IdOfMore ==
    ASSUME NEW ds \in Seq(DeltaType), NEW d \in DeltaType, NEW i
    PROVE  IdFor(i, Append(ds, d)) = IF d.index = i /\ d.id # None THEN d.id
                                     ELSE IdFor(i, ds)
<1> DEFINE n == Len(ds)
           more == Append(ds, d)
<1>1. /\ n \in Nat /\ DOMAIN ds = 1..n
      /\ DOMAIN more = 1..(n + 1)
      /\ more[n + 1] = d /\ \A k \in 1..n : more[k] = ds[k]
  BY LenProperties, AppendProperties
<1>2. /\ IdFor(i, ds) = IF Named(i, ds) = {} THEN None
                        ELSE ds[Max(Named(i, ds))].id
      /\ IdFor(i, more) = IF Named(i, more) = {} THEN None
                          ELSE more[Max(Named(i, more))].id
  BY DEF IdFor, Named
<1> HIDE DEF n, more
<1>3. CASE d.index = i /\ d.id # None
  <2> DEFINE s == Named(i, more)
  <2>1. s \in SUBSET (1..(n + 1)) /\ n + 1 \in s
    BY <1>1, <1>3 DEF Named
  <2> HIDE DEF s
  <2>2. n + 1 \in Nat /\ s # {}
    BY <1>1, <2>1
  <2>3. Max(s) \in s /\ n + 1 <= Max(s)
    BY <2>1, <2>2, GreatestPosition
  <2>4. Max(s) = n + 1
    <3>1. Max(s) \in 1..(n + 1)
      BY <2>1, <2>3
    <3> QED
      BY ONLY <1>1, <2>3, <3>1
  <2> QED
    BY <1>1, <1>2, <1>3, <2>2, <2>4 DEF s, more
<1>4. CASE ~(d.index = i /\ d.id # None)
  <2>1. Named(i, more) = Named(i, ds)
    <3>1. \A k : k \in 1..(n + 1) <=> k \in 1..n \/ k = n + 1
      BY <1>1
    <3>2. n + 1 \notin Named(i, more)
      BY <1>1, <1>4 DEF Named
    <3>3. \A k : k \in Named(i, more) <=> k \in Named(i, ds)
      <4> SUFFICES ASSUME NEW k
                   PROVE  k \in Named(i, more) <=> k \in Named(i, ds)
        OBVIOUS
      <4>1. CASE k \in 1..n
        <5>1. more[k] = ds[k] /\ k \in DOMAIN ds /\ k \in DOMAIN more
          BY <1>1, <3>1, <4>1
        <5> QED
          BY ONLY <5>1 DEF Named
      <4>2. CASE k = n + 1
        BY <1>1, <3>2, <4>2 DEF Named
      <4>3. CASE k \notin 1..(n + 1)
        BY <1>1, <3>1, <4>3 DEF Named
      <4> QED
        BY <3>1, <4>1, <4>2, <4>3
    <3> QED
      BY <3>3
  <2>2. CASE Named(i, ds) = {}
    BY <1>2, <1>4, <2>1, <2>2 DEF more
  <2>3. CASE Named(i, ds) # {}
    <3> DEFINE s == Named(i, ds)
    <3>1. s \in SUBSET (1..n) /\ s # {}
      BY <1>1, <2>3 DEF Named
    <3> HIDE DEF s
    <3>2. Max(s) \in 1..n
      BY <1>1, <3>1, GreatestPosition
    <3>3. more[Max(s)] = ds[Max(s)]
      BY <1>1, <3>2
    <3> QED
      BY <1>2, <1>4, <2>1, <2>3, <3>3 DEF s, more
  <2> QED
    BY <2>2, <2>3
<1> QED
  BY <1>3, <1>4 DEF more

IndicesOf(ds) == {ds[k].index : k \in DOMAIN ds}

CallFor(i, ds) ==
    [id |-> IdFor(i, ds),
     name |-> JoinedBy(NameFor(i), ds),
     arguments |-> JoinedBy(ArgumentsFor(i), ds)]

(***************************************************************************)
(* The calls described are one for each index.                             *)
(***************************************************************************)
LEMMA CallsAreCallsFor ==
    ASSUME NEW ds \in Seq(DeltaType)
    PROVE  CallsDescribed(ds) = [i \in IndicesOf(ds) |-> CallFor(i, ds)]
BY TextsOfCall DEF CallsDescribed, IndicesOf, CallFor

(***************************************************************************)
(* A call that no delta is about has nothing in it.                        *)
(***************************************************************************)
LEMMA CallOfNoDelta ==
    ASSUME NEW ds \in Seq(DeltaType), NEW i, i \notin IndicesOf(ds)
    PROVE  CallFor(i, ds) = [id |-> None, name |-> << >>, arguments |-> << >>]
<1>1. \A k \in 1..Len(ds) : ds[k] \in DeltaType /\ ds[k].index # i
  BY ElementOfSeq, LenProperties DEF IndicesOf
<1>2. \A k \in 1..Len(ds) :
          NameFor(i)[ds[k]] = << >> /\ ArgumentsFor(i)[ds[k]] = << >>
  BY <1>1 DEF NameFor, ArgumentsFor
<1>3. /\ NameFor(i) \in [DeltaType -> Seq(Piece)]
      /\ ArgumentsFor(i) \in [DeltaType -> Seq(Piece)]
  BY TextsOfCall
<1>4. JoinedBy(NameFor(i), ds) = << >> /\ JoinedBy(ArgumentsFor(i), ds) = << >>
  BY ONLY <1>2, <1>3, ds \in Seq(DeltaType), JoiningNothing
<1>5. Named(i, ds) = {}
  BY <1>1, LenProperties DEF Named
<1>6. IdFor(i, ds) = None
  BY <1>5 DEF IdFor, Named
<1> QED
  BY <1>4, <1>6 DEF CallFor

(***************************************************************************)
(* With one more delta a call has more in it, if the delta is about it.    *)
(***************************************************************************)
LEMMA CallOfMore ==
    ASSUME NEW ds \in Seq(DeltaType), NEW d \in DeltaType, NEW i
    PROVE  CallFor(i, Append(ds, d)) =
               IF d.index = i
               THEN [id |-> IF d.id = None THEN CallFor(i, ds).id ELSE d.id,
                     name |-> CallFor(i, ds).name \o d.name,
                     arguments |-> CallFor(i, ds).arguments \o d.arguments]
               ELSE CallFor(i, ds)
<1> DEFINE more == Append(ds, d)
           names == NameFor(i)
           texts == ArgumentsFor(i)
<1>1. names \in [DeltaType -> Seq(Piece)] /\ texts \in [DeltaType -> Seq(Piece)]
  BY TextsOfCall
<1>2. /\ names[d] = IF d.index = i THEN d.name ELSE << >>
      /\ texts[d] = IF d.index = i THEN d.arguments ELSE << >>
  BY DEF NameFor, ArgumentsFor
<1>3. IdFor(i, more) = IF d.index = i /\ d.id # None THEN d.id
                       ELSE IdFor(i, ds)
  BY IdOfMore
<1>4. /\ CallFor(i, more).id = IdFor(i, more)
      /\ CallFor(i, ds) = [id |-> IdFor(i, ds), name |-> JoinedBy(names, ds),
                           arguments |-> JoinedBy(texts, ds)]
      /\ CallFor(i, more) = [id |-> IdFor(i, more),
                             name |-> JoinedBy(names, more),
                             arguments |-> JoinedBy(texts, more)]
  BY DEF CallFor
<1> HIDE DEF names, texts
<1>5. /\ JoinedBy(names, ds) \in Seq(Piece)
      /\ JoinedBy(names, more) = JoinedBy(names, ds) \o names[d]
      /\ JoinedBy(texts, ds) \in Seq(Piece)
      /\ JoinedBy(texts, more) = JoinedBy(texts, ds) \o texts[d]
  <2>1. /\ JoinsOneMore(Piece, names, ds, d)
        /\ JoinsOneMore(Piece, texts, ds, d)
    BY ONLY <1>1, ds \in Seq(DeltaType), d \in DeltaType, JoiningOneMore
  <2> QED
    BY <2>1 DEF JoinsOneMore
<1>6. /\ JoinedBy(names, ds) \o << >> = JoinedBy(names, ds)
      /\ JoinedBy(texts, ds) \o << >> = JoinedBy(texts, ds)
  BY <1>5, ConcatEmptySeq
<1> HIDE DEF more
<1>7. CASE d.index = i
  <2>1. /\ CallFor(i, ds).id = IdFor(i, ds)
        /\ CallFor(i, ds).name = JoinedBy(names, ds)
        /\ CallFor(i, ds).arguments = JoinedBy(texts, ds)
    BY ONLY <1>4
  <2>2. /\ IdFor(i, more) = IF d.id = None THEN CallFor(i, ds).id ELSE d.id
        /\ JoinedBy(names, more) = CallFor(i, ds).name \o d.name
        /\ JoinedBy(texts, more) = CallFor(i, ds).arguments \o d.arguments
    BY ONLY <1>2, <1>3, <1>5, <1>7, <2>1
  <2>3. CallFor(i, more) =
            [id |-> IF d.id = None THEN CallFor(i, ds).id ELSE d.id,
             name |-> CallFor(i, ds).name \o d.name,
             arguments |-> CallFor(i, ds).arguments \o d.arguments]
    BY ONLY <1>4, <2>2
  <2> QED
    BY <1>7, <2>3 DEF more
<1>8. CASE d.index # i
  BY <1>2, <1>3, <1>4, <1>5, <1>6, <1>8 DEF more
<1> QED
  <2>1. d.index = i \/ d.index # i
    OBVIOUS
  <2> QED
    BY ONLY <1>7, <1>8, <2>1

(***************************************************************************)
(* One more delta adds its index.                                          *)
(***************************************************************************)
LEMMA IndicesOfMore ==
    ASSUME NEW ds \in Seq(DeltaType), NEW d \in DeltaType
    PROVE  IndicesOf(Append(ds, d)) = IndicesOf(ds) \cup {d.index}
<1> DEFINE n == Len(ds)
           more == Append(ds, d)
<1>1. /\ n \in Nat /\ DOMAIN ds = 1..n
      /\ DOMAIN more = 1..(n + 1)
      /\ more[n + 1] = d /\ \A k \in 1..n : more[k] = ds[k]
      /\ \A k : k \in 1..(n + 1) <=> k \in 1..n \/ k = n + 1
  BY LenProperties, AppendProperties
<1> HIDE DEF n, more
<1>2. IndicesOf(more) = IndicesOf(ds) \cup {d.index}
  BY <1>1 DEF IndicesOf
<1> QED
  BY <1>2 DEF more

(***************************************************************************)
(* ApplyDelta makes of the calls described so far those that one more      *)
(* delta describes.                                                        *)
(***************************************************************************)
LEMMA ApplyingOneMore ==
    ASSUME NEW ds \in Seq(DeltaType), NEW d \in DeltaType
    PROVE  ApplyDelta(CallsDescribed(ds), d) = CallsDescribed(Append(ds, d))
<1> DEFINE old == CallsDescribed(ds)
           more == Append(ds, d)
           i == d.index
<1>1. old = [j \in IndicesOf(ds) |-> CallFor(j, ds)]
  BY CallsAreCallsFor
<1>2. more \in Seq(DeltaType)
  BY AppendProperties
<1>3. CallsDescribed(more) = [j \in IndicesOf(more) |-> CallFor(j, more)]
  BY <1>2, CallsAreCallsFor
<1>4. IndicesOf(more) = IndicesOf(ds) \cup {i}
  BY IndicesOfMore
<1>5. BufferOf(old, i) = CallFor(i, ds)
  BY <1>1, CallOfNoDelta DEF BufferOf
<1>6. CallFor(i, more) =
          [id |-> IF d.id = None THEN CallFor(i, ds).id ELSE d.id,
           name |-> CallFor(i, ds).name \o d.name,
           arguments |-> CallFor(i, ds).arguments \o d.arguments]
  BY CallOfMore
<1>7. \A j : j # i => CallFor(j, more) = CallFor(j, ds)
  BY CallOfMore
<1>8. ApplyDelta(old, d) = Store(old, i, CallFor(i, more))
  BY <1>5, <1>6 DEF ApplyDelta
<1>9. DOMAIN old = IndicesOf(ds)
      /\ \A j \in IndicesOf(ds) : old[j] = CallFor(j, ds)
  BY <1>1
<1> HIDE DEF old, more, i
<1>10. Store(old, i, CallFor(i, more))
           = [j \in IndicesOf(more) |-> CallFor(j, more)]
  BY <1>4, <1>7, <1>9 DEF Store
<1> QED
  BY <1>3, <1>8, <1>10 DEF old, more

-----------------------------------------------------------------------------
(***************************************************************************)
(* What the buffers of tool calls may be.                                  *)
(***************************************************************************)
BufferType ==
    [id : Label \cup {None}, name : Seq(Piece), arguments : Seq(Piece)]

BufferMaps == UNION {[s -> BufferType] : s \in SUBSET Int}

(***************************************************************************)
(* A delta leaves buffers of tool calls.                                   *)
(***************************************************************************)
LEMMA ApplyDeltaType ==
    ASSUME NEW b \in BufferMaps, NEW d \in DeltaType
    PROVE  ApplyDelta(b, d) \in BufferMaps
<1> DEFINE old == BufferOf(b, d.index)
           new == [id |-> IF d.id = None THEN old.id ELSE d.id,
                   name |-> old.name \o d.name,
                   arguments |-> old.arguments \o d.arguments]
<1>1. /\ d.index \in Int /\ d.id \in Label \cup {None}
      /\ d.name \in Seq(Piece) /\ d.arguments \in Seq(Piece)
  BY DEF DeltaType
<1>2. PICK s \in SUBSET Int : b \in [s -> BufferType]
  BY DEF BufferMaps
<1>3. [id |-> None, name |-> << >>, arguments |-> << >>] \in BufferType
  BY EmptySeq DEF BufferType
<1>4. old \in BufferType
  BY <1>2, <1>3 DEF BufferOf
<1> HIDE DEF old
<1>5. /\ old.id \in Label \cup {None}
      /\ old.name \in Seq(Piece) /\ old.arguments \in Seq(Piece)
  BY <1>4 DEF BufferType
<1>6. /\ old.name \o d.name \in Seq(Piece)
      /\ old.arguments \o d.arguments \in Seq(Piece)
  BY <1>1, <1>5, ConcatProperties
<1>7. new \in BufferType
  BY <1>1, <1>5, <1>6 DEF BufferType
<1>8. ApplyDelta(b, d) = Store(b, d.index, new)
  BY DEF ApplyDelta, old
<1> HIDE DEF new
<1>9. Store(b, d.index, new) \in [s \cup {d.index} -> BufferType]
  BY <1>1, <1>2, <1>7 DEF Store
<1>10. s \cup {d.index} \in SUBSET Int
  BY <1>1
<1> QED
  BY <1>8, <1>9, <1>10 DEF BufferMaps

(***************************************************************************)
(* ApplyDeltas applies one delta after the other.                          *)
(***************************************************************************)
LEMMA ApplyingAll ==
    ASSUME NEW b \in BufferMaps, NEW ds \in Seq(DeltaType)
    PROVE  \E sofar :
               /\ sofar[1..0] = b
               /\ \A k \in 1..Len(ds) :
                      sofar[1..k] = ApplyDelta(sofar[1..(k - 1)], ds[k])
               /\ ApplyDeltas(b, ds) = sofar[1..Len(ds)]
<1> DEFINE n == Len(ds)
           V == BufferMaps
           h == [i \in 1..n |-> [v \in V |-> ApplyDelta(v, ds[i])]]
           iter == CHOOSE g : g = [s \in SUBSET (1..n) |->
                       IF s = {} THEN b
                       ELSE ApplyDelta(g[s \ {Max(s)}], ds[Max(s)])]
<1>1. n \in Nat /\ DOMAIN ds = 1..n /\ \A i \in 1..n : ds[i] \in DeltaType
  BY LenProperties, ElementOfSeq
<1>2. ApplyDeltas(b, ds) = iter[1..n]
  BY <1>1 DEF ApplyDeltas, FoldLeft, MapThenFoldSet
<1> HIDE DEF n, V
<1>3. h \in [1..n -> [V -> V]]
  BY <1>1, ApplyDeltaType DEF V
<1>4. PICK f \in [SUBSET (1..n) -> V] : Folds(f, n, b, h)
  <2> HIDE DEF h
  <2>1. b \in V
    BY DEF V
  <2> QED
    BY <1>1, <1>3, <2>1, FoldHasValues
<1>5. \A s \in SUBSET (1..n) :
          s # {} => Max(s) \in 1..n /\ s \ {Max(s)} \in SUBSET (1..n)
  BY <1>1, GreatestPosition
<1>6. \A s \in SUBSET (1..n) :
          f[s] = IF s = {} THEN b ELSE ApplyDelta(f[s \ {Max(s)}], ds[Max(s)])
  <2> SUFFICES ASSUME NEW s \in SUBSET (1..n)
               PROVE  f[s] = IF s = {} THEN b
                             ELSE ApplyDelta(f[s \ {Max(s)}], ds[Max(s)])
    OBVIOUS
  <2>1. f[s] = IF s = {} THEN b ELSE h[Max(s)][f[s \ {Max(s)}]]
    BY <1>4 DEF Folds
  <2>2. s # {} => h[Max(s)][f[s \ {Max(s)}]]
                      = ApplyDelta(f[s \ {Max(s)}], ds[Max(s)])
    BY <1>4, <1>5
  <2> QED
    BY <2>1, <2>2
<1>7. f = [s \in SUBSET (1..n) |->
              IF s = {} THEN b ELSE ApplyDelta(f[s \ {Max(s)}], ds[Max(s)])]
  BY <1>4, <1>6
<1>8. iter = [s \in SUBSET (1..n) |->
                 IF s = {} THEN b
                 ELSE ApplyDelta(iter[s \ {Max(s)}], ds[Max(s)])]
  BY <1>7
<1> HIDE DEF iter, h
<1>9. iter[1..0] = b
  <2>1. 1..0 = {} /\ {} \in SUBSET (1..n)
    OBVIOUS
  <2> QED
    BY <1>8, <2>1
<1>10. ASSUME NEW k \in 1..n
       PROVE  iter[1..k] = ApplyDelta(iter[1..(k - 1)], ds[k])
  <2>1. 1..k \in SUBSET (1..n) /\ 1..k # {} /\ k \in Nat \ {0}
    <3>1. k \in 1..k /\ (\A j \in 1..k : j \in 1..n) /\ k \in Nat \ {0}
      BY <1>1
    <3> QED
      BY ONLY <3>1
  <2>2. Max(1..k) = k
    <3>1. Max(1..k) \in 1..k /\ k <= Max(1..k)
      BY <2>1, GreatestOfInterval
    <3> QED
      BY <3>1
  <2>3. (1..k) \ {k} = 1..(k - 1)
    OBVIOUS
  <2>4. iter[1..k] = ApplyDelta(iter[(1..k) \ {k}], ds[k])
    BY <1>8, <2>1, <2>2
  <2> QED
    BY <2>3, <2>4
<1> QED
  BY <1>2, <1>9, <1>10 DEF n

(***************************************************************************)
(* Applying the deltas of an event to the calls described so far.          *)
(***************************************************************************)
LEMMA ApplyingIsDescribing ==
    ASSUME NEW ds \in Seq(DeltaType), NEW es \in Seq(DeltaType),
           CallsDescribed(ds) \in BufferMaps
    PROVE  /\ ApplyDeltas(CallsDescribed(ds), es) = CallsDescribed(ds \o es)
           /\ CallsDescribed(ds \o es) \in BufferMaps
<1> DEFINE n == Len(es)
           b == CallsDescribed(ds)
           upto(k) == ds \o SubSeq(es, 1, k)
<1>1. n \in Nat /\ \A k \in 1..n : es[k] \in DeltaType
  BY LenProperties, ElementOfSeq
<1>2. PICK sofar :
          /\ sofar[1..0] = b
          /\ \A k \in 1..n : sofar[1..k] = ApplyDelta(sofar[1..(k - 1)], es[k])
          /\ ApplyDeltas(b, es) = sofar[1..n]
  BY ApplyingAll
<1>3. upto(0) = ds /\ upto(n) = ds \o es
  <2>1. SubSeq(es, 1, 0) = << >> /\ SubSeq(es, 1, n) = es
    <3>1. SubSeq(es, 1, 0) = << >>
      BY EmptySeq, SubSeqProperties
    <3>2. SubSeq(es, 1, n) = es
      OBVIOUS
    <3> QED
      BY <3>1, <3>2
  <2> QED
    BY <2>1, ConcatEmptySeq
<1>4. ASSUME NEW k \in 1..n
      PROVE  /\ upto(k - 1) \in Seq(DeltaType)
             /\ upto(k) = Append(upto(k - 1), es[k])
  <2> DEFINE T == DeltaType
             part == SubSeq(es, 1, k - 1)
             more == SubSeq(es, 1, k)
             e == es[k]
  <2>1. /\ es \in Seq(T) /\ ds \in Seq(T) /\ e \in T
        /\ k - 1 \in Nat /\ k \in Nat /\ k <= n
    BY <1>1
  <2>2. part \in Seq(T) /\ more = Append(part, e)
    <3>1. /\ part \in Seq(T) /\ Len(part) = k - 1
          /\ \A j \in 1..(k - 1) : part[j] = es[j]
      BY <1>1, <2>1, SubSeqProperties
    <3>2. /\ more \in Seq(T) /\ Len(more) = k
          /\ \A j \in 1..k : more[j] = es[j]
      BY <1>1, <2>1, SubSeqProperties
    <3> HIDE DEF part, more, T
    <3>3. /\ Append(part, e) \in Seq(T) /\ Len(Append(part, e)) = (k - 1) + 1
          /\ \A j \in 1..(k - 1) : Append(part, e)[j] = part[j]
          /\ Append(part, e)[(k - 1) + 1] = e
      BY <2>1, <3>1, AppendProperties
    <3>4. (k - 1) + 1 = k /\ \A j : j \in 1..k <=> j \in 1..(k - 1) \/ j = k
      BY <2>1
    <3>5. \A j \in 1..k : more[j] = Append(part, e)[j]
      BY <3>1, <3>2, <3>3, <3>4
    <3> QED
      BY <3>1, <3>2, <3>3, <3>4, <3>5, SeqEqual
  <2> HIDE DEF part, more, T, e
  <2>3. ds \o part \in Seq(T) /\ ds \o Append(part, e) = Append(ds \o part, e)
    <3> DEFINE left == ds \o Append(part, e)
               right == Append(ds \o part, e)
               m == Len(ds)
               l == Len(part)
    <3>1. /\ m \in Nat /\ l \in Nat
          /\ ds \o part \in Seq(T) /\ Len(ds \o part) = m + l
          /\ \A j \in 1..(m + l) :
                 (ds \o part)[j] = IF j <= m THEN ds[j] ELSE part[j - m]
      BY <2>1, <2>2, ConcatProperties, LenProperties
    <3>2. /\ Append(part, e) \in Seq(T) /\ Len(Append(part, e)) = l + 1
          /\ \A j \in 1..l : Append(part, e)[j] = part[j]
          /\ Append(part, e)[l + 1] = e
      BY <2>1, <2>2, AppendProperties
    <3>3. /\ left \in Seq(T) /\ Len(left) = m + (l + 1)
          /\ \A j \in 1..(m + (l + 1)) :
                 left[j] = IF j <= m THEN ds[j] ELSE Append(part, e)[j - m]
      BY <2>1, <3>2, ConcatProperties
    <3>4. /\ right \in Seq(T) /\ Len(right) = (m + l) + 1
          /\ \A j \in 1..(m + l) : right[j] = (ds \o part)[j]
          /\ right[(m + l) + 1] = e
      BY <2>1, <3>1, AppendProperties
    <3> HIDE DEF left, right, m, l
    <3>5. /\ m + (l + 1) = (m + l) + 1
          /\ \A j \in 1..(m + (l + 1)) :
                 \/ j \in 1..(m + l) /\ j <= m
                 \/ j \in 1..(m + l) /\ ~(j <= m) /\ j - m \in 1..l
                 \/ j = (m + l) + 1 /\ ~(j <= m) /\ j - m = l + 1
      BY ONLY <3>1
    <3>6. \A j \in 1..(m + (l + 1)) : left[j] = right[j]
      <4> SUFFICES ASSUME NEW j \in 1..(m + (l + 1)) PROVE left[j] = right[j]
        OBVIOUS
      <4>1. CASE j \in 1..(m + l) /\ j <= m
        BY ONLY <3>1, <3>3, <3>4, <4>1, j \in 1..(m + (l + 1))
      <4>2. CASE j \in 1..(m + l) /\ ~(j <= m) /\ j - m \in 1..l
        BY ONLY <3>1, <3>2, <3>3, <3>4, <4>2, j \in 1..(m + (l + 1))
      <4>3. CASE j = (m + l) + 1 /\ ~(j <= m) /\ j - m = l + 1
        BY ONLY <3>2, <3>3, <3>4, <4>3, j \in 1..(m + (l + 1))
      <4> QED
        BY <3>5, <4>1, <4>2, <4>3
    <3>7. left = right
      BY <3>3, <3>4, <3>5, <3>6, SeqEqual
    <3> QED
      BY <3>1, <3>7 DEF left, right
  <2> QED
    BY <2>2, <2>3 DEF part, more, T, e
<1> HIDE DEF upto, n, b
<1> DEFINE P(k) == /\ sofar[1..k] = CallsDescribed(upto(k))
                   /\ CallsDescribed(upto(k)) \in BufferMaps
           wrong == {k \in 0..n : ~P(k)}
<1>5. P(0)
  BY <1>2, <1>3 DEF b
<1>6. ASSUME NEW k \in 1..n, P(k - 1) PROVE P(k)
  <2>1. ApplyDelta(CallsDescribed(upto(k - 1)), es[k]) = CallsDescribed(upto(k))
    BY <1>1, <1>4, ApplyingOneMore
  <2>2. ApplyDelta(CallsDescribed(upto(k - 1)), es[k]) \in BufferMaps
    BY <1>1, <1>6, ApplyDeltaType
  <2>3. sofar[1..k] = ApplyDelta(sofar[1..(k - 1)], es[k])
    BY <1>2
  <2> QED
    BY <1>6, <2>1, <2>2, <2>3
<1> HIDE DEF P
<1>7. wrong = {}
  <2> SUFFICES ASSUME wrong # {} PROVE FALSE
    OBVIOUS
  <2>1. wrong \in SUBSET Nat
    OBVIOUS
  <2>2. PICK k \in wrong : \A l \in wrong : k <= l
    BY <2>1, LeastNat
  <2>3. k # 0
    BY <1>5, <2>2
  <2>4. k \in 1..n /\ k - 1 \in 0..n /\ ~(k <= k - 1)
    BY <1>1, <2>2, <2>3
  <2>5. P(k - 1)
    BY <2>2, <2>4
  <2> QED
    BY <1>6, <2>2, <2>4, <2>5
<1>8. P(n)
  <2>1. n \in 0..n
    BY <1>1
  <2> QED
    BY <1>7, <2>1
<1> QED
  BY <1>2, <1>3, <1>8 DEF P, b

-----------------------------------------------------------------------------
(***************************************************************************)
(* While the message is put together, and when it is returned, it is the   *)
(* one the events so far describe.                                         *)
(***************************************************************************)
MessageDescribed ==
    /\ buffers = CallsDescribed(DeltasSent)
    /\ buffers \in BufferMaps
    /\ content = FromChoices(LAMBDA c : c.content)
    /\ reasoning = FromChoices(LAMBDA c : c.reasoning)

LastUsageKept ==
    \A k \in 1..Len(events) :
        /\ events[k].usage # None
        /\ \A j \in (k + 1)..Len(events) : events[j].usage = None
        => usage = events[k].usage

MessageInv == client \in {"reading", "returned"} =>
                  MessageDescribed /\ LastUsageKept

ContentOf ==
    [e \in Events |-> IF e.choice = None THEN << >> ELSE e.choice.content]

ReasoningOf ==
    [e \in Events |-> IF e.choice = None THEN << >> ELSE e.choice.reasoning]

DeltasOf ==
    [e \in Events |-> IF e.choice = None THEN << >> ELSE e.choice.deltas]

(***************************************************************************)
(* What events carry, and what it is joined to.                            *)
(***************************************************************************)
LEMMA PartsOfEvents ==
    ASSUME NEW its \in Seq(Events)
    PROVE  /\ ContentOf \in [Events -> Seq(Piece)]
           /\ ReasoningOf \in [Events -> Seq(Piece)]
           /\ DeltasOf \in [Events -> Seq(DeltaType)]
           /\ FlattenSeq([k \in DOMAIN its |->
                             IF its[k].choice = None THEN << >>
                             ELSE its[k].choice.deltas])
                  = JoinedBy(DeltasOf, its)
           /\ FlattenSeq([k \in DOMAIN its |->
                             IF its[k].choice = None THEN << >>
                             ELSE its[k].choice.content])
                  = JoinedBy(ContentOf, its)
           /\ FlattenSeq([k \in DOMAIN its |->
                             IF its[k].choice = None THEN << >>
                             ELSE its[k].choice.reasoning])
                  = JoinedBy(ReasoningOf, its)
<1>1. << >> \in Seq(Piece) /\ << >> \in Seq(DeltaType)
  BY EmptySeq
<1>2. /\ ContentOf \in [Events -> Seq(Piece)]
      /\ ReasoningOf \in [Events -> Seq(Piece)]
      /\ DeltasOf \in [Events -> Seq(DeltaType)]
  BY <1>1, TypeOfEvents DEF ContentOf, ReasoningOf, DeltasOf
<1>3. \A k \in DOMAIN its : its[k] \in Events
  BY ElementOfSeq, LenProperties
<1>4. /\ [k \in DOMAIN its |-> IF its[k].choice = None THEN << >>
                               ELSE its[k].choice.deltas]
             = [k \in DOMAIN its |-> DeltasOf[its[k]]]
      /\ [k \in DOMAIN its |-> IF its[k].choice = None THEN << >>
                               ELSE its[k].choice.content]
             = [k \in DOMAIN its |-> ContentOf[its[k]]]
      /\ [k \in DOMAIN its |-> IF its[k].choice = None THEN << >>
                               ELSE its[k].choice.reasoning]
             = [k \in DOMAIN its |-> ReasoningOf[its[k]]]
  BY <1>3 DEF DeltasOf, ContentOf, ReasoningOf
<1> QED
  BY <1>2, <1>4 DEF JoinedBy

(***************************************************************************)
(* At the start nothing is described and nothing put together.             *)
(***************************************************************************)
LEMMA NothingDescribed ==
    ASSUME StreamInit
    PROVE  MessageInv
<1>1. events = << >> /\ << >> \in Seq(Events) /\ Len(<< >>) = 0
  BY EmptySeq DEF StreamInit
<1>2. /\ DeltasSent = << >>
      /\ FromChoices(LAMBDA c : c.content) = << >>
      /\ FromChoices(LAMBDA c : c.reasoning) = << >>
  BY <1>1 DEF DeltasSent, FromChoices, Joined, FlattenSeq
<1>3. CallsDescribed(<< >>) = NoBuffers
  BY DEF CallsDescribed, NoBuffers
<1>4. NoBuffers \in BufferMaps
  <2>1. NoBuffers \in [{} -> BufferType] /\ {} \in SUBSET Int
    BY DEF NoBuffers
  <2> QED
    BY <2>1 DEF BufferMaps
<1>5. MessageDescribed
  BY <1>2, <1>3, <1>4 DEF MessageDescribed, StreamInit
<1>6. LastUsageKept
  BY <1>1 DEF LastUsageKept
<1> QED
  BY <1>5, <1>6 DEF MessageInv

(***************************************************************************)
(* An event adds to the message what it adds to the description.           *)
(***************************************************************************)
LEMMA TakeDescribes ==
    ASSUME FramesInv, MessageDescribed, NEW e \in Events, Take(e), ~e.error
    PROVE  MessageDescribed'
<1> DEFINE more == Append(events, e)
           ds == JoinedBy(DeltasOf, events)
           es == DeltasOf[e]
<1>1. events \in Seq(Events) /\ events' = more /\ more \in Seq(Events)
  BY AppendProperties DEF FramesInv, Take
<1>2. /\ ContentOf \in [Events -> Seq(Piece)]
      /\ ReasoningOf \in [Events -> Seq(Piece)]
      /\ DeltasOf \in [Events -> Seq(DeltaType)]
      /\ DeltasSent = ds
      /\ FromChoices(LAMBDA c : c.content) = JoinedBy(ContentOf, events)
      /\ FromChoices(LAMBDA c : c.reasoning) = JoinedBy(ReasoningOf, events)
  BY <1>1, PartsOfEvents DEF DeltasSent, FromChoices, Joined
<1>3. /\ DeltasSent' = JoinedBy(DeltasOf, more)
      /\ FromChoices(LAMBDA c : c.content)' = JoinedBy(ContentOf, more)
      /\ FromChoices(LAMBDA c : c.reasoning)' = JoinedBy(ReasoningOf, more)
  <2> HIDE DEF more
  <2> QED
    BY <1>1, PartsOfEvents DEF DeltasSent, FromChoices, Joined
<1>4. /\ JoinsOneMore(Piece, ContentOf, events, e)
      /\ JoinsOneMore(Piece, ReasoningOf, events, e)
      /\ JoinsOneMore(DeltaType, DeltasOf, events, e)
  BY ONLY <1>1, <1>2, e \in Events, JoiningOneMore
<1>5. /\ JoinedBy(ContentOf, more) = content \o ContentOf[e]
      /\ JoinedBy(ReasoningOf, more) = reasoning \o ReasoningOf[e]
      /\ JoinedBy(DeltasOf, more) = ds \o es
      /\ content \in Seq(Piece) /\ reasoning \in Seq(Piece)
      /\ ds \in Seq(DeltaType) /\ es \in Seq(DeltaType)
      /\ buffers = CallsDescribed(ds) /\ buffers \in BufferMaps
  BY <1>2, <1>4 DEF JoinsOneMore, MessageDescribed
<1>6. /\ ContentOf[e] = IF e.choice = None THEN << >> ELSE e.choice.content
      /\ ReasoningOf[e] = IF e.choice = None THEN << >> ELSE e.choice.reasoning
      /\ es = IF e.choice = None THEN << >> ELSE e.choice.deltas
  BY DEF ContentOf, ReasoningOf, DeltasOf
<1> HIDE DEF more, ds, es
<1>7. CASE e.choice = None
  <2>1. UNCHANGED <<content, reasoning, buffers>>
    BY <1>7 DEF Take
  <2>2. /\ content \o << >> = content /\ reasoning \o << >> = reasoning
        /\ ds \o << >> = ds
    BY <1>5, ConcatEmptySeq
  <2>3. /\ DeltasSent' = ds
        /\ FromChoices(LAMBDA c : c.content)' = content
        /\ FromChoices(LAMBDA c : c.reasoning)' = reasoning
    BY ONLY <1>3, <1>5, <1>6, <1>7, <2>2
  <2> QED
    BY <1>5, <2>1, <2>3 DEF MessageDescribed
<1>8. CASE e.choice # None
  <2>1. /\ content' = content \o e.choice.content
        /\ reasoning' = reasoning \o e.choice.reasoning
        /\ buffers' = ApplyDeltas(buffers, e.choice.deltas)
    BY <1>8 DEF Take, TakeChoice
  <2>2. /\ DeltasSent' = ds \o es
        /\ FromChoices(LAMBDA c : c.content)' = content'
        /\ FromChoices(LAMBDA c : c.reasoning)' = reasoning'
        /\ buffers' = ApplyDeltas(CallsDescribed(ds), es)
    BY ONLY <1>3, <1>5, <1>6, <1>8, <2>1
  <2>3. /\ ApplyDeltas(CallsDescribed(ds), es) = CallsDescribed(ds \o es)
        /\ CallsDescribed(ds \o es) \in BufferMaps
    BY ONLY <1>5, ApplyingIsDescribing
  <2> QED
    BY <2>2, <2>3 DEF MessageDescribed
<1> QED
  BY <1>7, <1>8

(***************************************************************************)
(* An event with usage replaces the usage, one without keeps it.           *)
(***************************************************************************)
LEMMA TakeKeepsLastUsage ==
    ASSUME FramesInv, LastUsageKept, NEW e \in Events, Take(e), ~e.error
    PROVE  LastUsageKept'
<1> DEFINE n == Len(events)
<1>1. /\ n \in Nat /\ Len(events') = n + 1 /\ events'[n + 1] = e
      /\ \A k \in 1..n : events'[k] = events[k]
  BY AppendProperties, LenProperties DEF FramesInv, Take
<1>2. usage' = IF e.usage = None THEN usage ELSE e.usage
  BY DEF Take, TakeUsage
<1> HIDE DEF n
<1>3. ASSUME NEW k \in 1..(n + 1), events'[k].usage # None,
             \A j \in (k + 1)..(n + 1) : events'[j].usage = None
      PROVE  usage' = events'[k].usage
  <2>1. CASE k = n + 1
    BY <1>1, <1>2, <1>3, <2>1
  <2>2. CASE k \in 1..n
    <3>1. n + 1 \in (k + 1)..(n + 1)
      BY <1>1, <2>2
    <3>2. e.usage = None
      BY <1>1, <1>3, <3>1
    <3>3. \A j \in (k + 1)..n : events[j].usage = None
      <4> TAKE j \in (k + 1)..n
      <4>1. j \in 1..n /\ j \in (k + 1)..(n + 1)
        BY <1>1, <2>2
      <4>2. events'[j] = events[j] /\ events'[j].usage = None
        BY <1>1, <1>3, <4>1
      <4> QED
        BY ONLY <4>2
    <3>4. events[k].usage # None /\ events'[k] = events[k]
      BY <1>1, <1>3, <2>2
    <3>5. usage = events[k].usage
      BY <2>2, <3>3, <3>4 DEF LastUsageKept, n
    <3> QED
      BY <1>2, <3>2, <3>4, <3>5
  <2>3. k = n + 1 \/ k \in 1..n
    BY <1>1
  <2> QED
    BY <2>1, <2>2, <2>3
<1> QED
  BY <1>1, <1>3 DEF LastUsageKept

(***************************************************************************)
(* In every state of a run the message so far is the one the events so far *)
(* describe.                                                               *)
(***************************************************************************)
THEOREM MessageIsKept == TelemetrySpec => []MessageInv
<1>1. TelemetryInit => MessageInv
  BY NothingDescribed DEF TelemetryInit
<1>2. FramesInv /\ MessageInv /\ [TelemetryNext]_runVars => MessageInv'
  <2> SUFFICES ASSUME FramesInv, MessageInv, [TelemetryNext]_runVars
               PROVE  MessageInv'
    OBVIOUS
  <2>1. CASE StreamNext
    <3>1. MessageDescribed /\ LastUsageKept
      BY <2>1, StepTakesEvents DEF MessageInv, Reading
    <3>2. CASE TakesNothing
      BY <3>1, <3>2
      DEF TakesNothing, messageVars, MessageInv, MessageDescribed,
          LastUsageKept, DeltasSent, FromChoices, Joined
    <3>3. ASSUME NEW e \in Events, Take(e) PROVE MessageInv'
      <4>1. CASE e.error
        BY <3>3, <4>1 DEF Take, MessageInv
      <4>2. CASE ~e.error
        BY <3>1, <3>3, <4>2, TakeDescribes, TakeKeepsLastUsage DEF MessageInv
      <4> QED
        BY <4>1, <4>2
    <3> QED
      BY <2>1, <3>2, <3>3, StepTakesEvents
  <2>2. CASE UNCHANGED streamVars
    BY <2>2
    DEF streamVars, messageVars, MessageInv, MessageDescribed,
        LastUsageKept, DeltasSent, FromChoices, Joined
  <2>3. CASE StreamInit'
    BY <2>3, NothingDescribed, PTL
  <2> QED
    BY <2>1, <2>2, <2>3, StepOfStream
<1> QED
  BY <1>1, <1>2, FramesAreKept, PTL DEF TelemetrySpec

(***************************************************************************)
(* The message that is returned is the one the deltas describe.            *)
(***************************************************************************)
THEOREM MessagesAreAssembled == TelemetrySpec => []CallsAreAssembled
<1>1. FramesInv /\ MessageInv => CallsAreAssembled
  <2> SUFFICES ASSUME FramesInv, MessageInv, client = "returned"
               PROVE  CallsAreAssembled
    BY DEF CallsAreAssembled
  <2>1. MessageDescribed /\ LastUsageKept /\ DOMAIN events = 1..Len(events)
    BY LenProperties DEF MessageInv, FramesInv
  <2> QED
    BY <2>1 DEF MessageDescribed, LastUsageKept, CallsAreAssembled
<1> QED
  BY <1>1, FramesAreKept, MessageIsKept, PTL

-----------------------------------------------------------------------------
(***************************************************************************)
(* What holds of 0, and of each number whose predecessor it holds of.      *)
(***************************************************************************)
LEMMA UpTo ==
    ASSUME NEW n \in Nat, NEW good, 0 \in good,
           \A k \in 1..n : k - 1 \in good => k \in good
    PROVE  \A k \in 0..n : k \in good
<1> DEFINE wrong == {k \in 0..n : k \notin good}
<1> SUFFICES ASSUME wrong # {} PROVE FALSE
  OBVIOUS
<1>1. wrong \in SUBSET Nat
  OBVIOUS
<1>2. PICK k \in wrong : \A l \in wrong : k <= l
  BY <1>1, LeastNat
<1>3. k # 0
  BY <1>2
<1>4. k \in 1..n /\ k - 1 \in 0..n /\ ~(k <= k - 1)
  BY <1>2, <1>3
<1>5. k - 1 \in good
  BY <1>2, <1>4
<1> QED
  BY <1>2, <1>4, <1>5

-----------------------------------------------------------------------------
(***************************************************************************)
(* A total is determined by its partial sums.                              *)
(***************************************************************************)
LEMMA TotalIsUnique ==
    ASSUME NEW n \in Nat, NEW values \in [1..n -> Int],
           NEW sum, SumOf(sum, n, values)
    PROVE  Total(values) = sum[n] /\ Total(values) \in Int
<1>1. PICK s : SumOf(s, n, values) /\ Total(values) = s[n]
  BY TotalIsSum DEF SumOf
<1> DEFINE good == {k \in 0..n : s[k] = sum[k]}
<1>2. 0 \in good
  BY <1>1 DEF SumOf
<1>3. \A k \in 1..n : k - 1 \in good => k \in good
  BY <1>1 DEF SumOf
<1>4. n \in good
  <2> HIDE DEF good
  <2>1. \A k \in 0..n : k \in good
    BY <1>2, <1>3, UpTo
  <2> QED
    BY <2>1
<1> QED
  BY <1>1, <1>4 DEF SumOf

(***************************************************************************)
(* There are partial sums.                                                 *)
(***************************************************************************)
LEMMA PartialSums ==
    ASSUME NEW n \in Nat, NEW values \in [1..n -> Int]
    PROVE  /\ \E sum : SumOf(sum, n, values) /\ Total(values) = sum[n]
           /\ Total(values) \in Int
<1>1. PICK sum \in [0..n -> Int] :
          /\ sum[0] = 0
          /\ \A k \in 1..n : sum[k] = sum[k - 1] + values[k]
          /\ Total(values) = sum[n]
  BY TotalIsSum
<1>2. SumOf(sum, n, values)
  BY <1>1 DEF SumOf
<1>3. Total(values) \in Int
  BY <1>2, TotalIsUnique
<1> QED
  BY <1>1, <1>2, <1>3

(***************************************************************************)
(* Two totals add up.                                                      *)
(***************************************************************************)
LEMMA TotalsAddUp ==
    ASSUME NEW n \in Nat, NEW u \in [1..n -> Int], NEW v \in [1..n -> Int],
           NEW w \in [1..n -> Int], \A i \in 1..n : w[i] = u[i] + v[i]
    PROVE  Total(w) = Total(u) + Total(v)
<1>1. PICK U : SumOf(U, n, u) /\ Total(u) = U[n]
  BY PartialSums
<1>2. PICK V : SumOf(V, n, v) /\ Total(v) = V[n]
  BY PartialSums
<1> DEFINE W == [k \in 0..n |-> U[k] + V[k]]
<1>3. SumOf(W, n, w)
  <2>1. W \in [0..n -> Int] /\ W[0] = 0
    BY <1>1, <1>2 DEF SumOf
  <2>2. ASSUME NEW k \in 1..n PROVE W[k] = W[k - 1] + w[k]
    <3>1. k \in 0..n /\ k - 1 \in 0..n
      OBVIOUS
    <3>2. /\ U[k - 1] \in Int /\ V[k - 1] \in Int /\ u[k] \in Int /\ v[k] \in Int
          /\ U[k] = U[k - 1] + u[k] /\ V[k] = V[k - 1] + v[k]
      BY <1>1, <1>2, <3>1 DEF SumOf
    <3>3. W[k] = U[k] + V[k] /\ W[k - 1] = U[k - 1] + V[k - 1]
      BY <3>1
    <3> QED
      BY ONLY <3>2, <3>3, w[k] = u[k] + v[k]
  <2> HIDE DEF W
  <2> QED
    BY <2>1, <2>2 DEF SumOf
<1>4. Total(w) = W[n]
  <2> HIDE DEF W
  <2> QED
    BY <1>3, TotalIsUnique
<1> QED
  BY <1>1, <1>2, <1>4

(***************************************************************************)
(* Of values that vanish but for one, the total is that one.               *)
(***************************************************************************)
LEMMA TotalOfOne ==
    ASSUME NEW n \in Nat, NEW v \in [1..n -> Int],
           NEW j \in 1..n, \A i \in 1..n : i # j => v[i] = 0
    PROVE  Total(v) = v[j]
<1> DEFINE sum == [k \in 0..n |-> IF k < j THEN 0 ELSE v[j]]
<1>1. SumOf(sum, n, v)
  <2>1. sum \in [0..n -> Int] /\ sum[0] = 0
    OBVIOUS
  <2>2. ASSUME NEW k \in 1..n PROVE sum[k] = sum[k - 1] + v[k]
    <3>1. k \in 0..n /\ k - 1 \in 0..n /\ v[j] \in Int
      OBVIOUS
    <3>2. /\ sum[k] = IF k < j THEN 0 ELSE v[j]
          /\ sum[k - 1] = IF k - 1 < j THEN 0 ELSE v[j]
      BY <3>1
    <3> HIDE DEF sum
    <3>3. CASE k = j
      BY <3>1, <3>2, <3>3
    <3>4. CASE k # j
      BY <3>1, <3>2, <3>4
    <3> QED
      BY <3>3, <3>4
  <2> HIDE DEF sum
  <2> QED
    BY <2>1, <2>2 DEF SumOf
<1>2. Total(v) = sum[n]
  <2> HIDE DEF sum
  <2> QED
    BY <1>1, TotalIsUnique
<1> QED
  BY <1>2

(***************************************************************************)
(* Of values that all vanish, the total is zero.                           *)
(***************************************************************************)
LEMMA TotalOfNone ==
    ASSUME NEW n \in Nat, NEW v \in [1..n -> Int], \A i \in 1..n : v[i] = 0
    PROVE  Total(v) = 0
<1> DEFINE sum == [k \in 0..n |-> 0]
<1>1. SumOf(sum, n, v)
  BY DEF SumOf
<1>2. Total(v) = sum[n]
  <2> HIDE DEF sum
  <2> QED
    BY <1>1, TotalIsUnique
<1> QED
  BY <1>2

(***************************************************************************)
(* One more value adds to the total.                                       *)
(***************************************************************************)
LEMMA TotalOfOneMore ==
    ASSUME NEW n \in Nat, NEW v \in [1..n -> Int],
           NEW w \in [1..(n + 1) -> Int], \A i \in 1..n : w[i] = v[i]
    PROVE  Total(w) = Total(v) + w[n + 1]
<1>1. PICK V : SumOf(V, n, v) /\ Total(v) = V[n]
  BY PartialSums
<1>2. PICK W : SumOf(W, n + 1, w) /\ Total(w) = W[n + 1]
  BY PartialSums
<1> DEFINE good == {k \in 0..n : W[k] = V[k]}
<1>3. 0 \in good
  BY <1>1, <1>2 DEF SumOf
<1>4. \A k \in 1..n : k - 1 \in good => k \in good
  <2> SUFFICES ASSUME NEW k \in 1..n, k - 1 \in good PROVE k \in good
    OBVIOUS
  <2>1. k \in 1..(n + 1) /\ W[k - 1] = V[k - 1]
    OBVIOUS
  <2>2. W[k] = W[k - 1] + w[k] /\ V[k] = V[k - 1] + v[k] /\ w[k] = v[k]
    BY <1>1, <1>2, <2>1 DEF SumOf
  <2> QED
    BY <2>1, <2>2
<1>5. n \in good
  <2> HIDE DEF good
  <2>1. \A k \in 0..n : k \in good
    BY <1>3, <1>4, UpTo
  <2> QED
    BY <2>1
<1>6. n + 1 \in 1..(n + 1) /\ (n + 1) - 1 = n
  OBVIOUS
<1>7. W[n + 1] = W[n] + w[n + 1]
  BY <1>2, <1>6 DEF SumOf
<1> QED
  BY <1>1, <1>2, <1>5, <1>7

-----------------------------------------------------------------------------
(***************************************************************************)
(* Among takes one member after the other.                                 *)
(***************************************************************************)
TakesInOrder(taken, n, seq, S) ==
    /\ taken[0] = << >>
    /\ \A k \in 1..n :
           taken[k] = IF seq[k] \in S THEN Append(taken[k - 1], seq[k])
                      ELSE taken[k - 1]

LEMMA AmongGrows ==
    ASSUME NEW R, NEW seq \in Seq(R), NEW S
    PROVE  \E taken \in [0..Len(seq) -> Seq(R)] :
               /\ TakesInOrder(taken, Len(seq), seq, S)
               /\ Among(seq, S) = taken[Len(seq)]
<1> DEFINE n == Len(seq)
           V == Seq(R)
           Keep(kept, x) == IF x \in S THEN Append(kept, x) ELSE kept
           h == [i \in 1..n |-> [v \in V |-> Keep(v, seq[i])]]
           iter == CHOOSE g : g = [s \in SUBSET (1..n) |->
                       IF s = {} THEN << >>
                       ELSE Keep(g[s \ {Max(s)}], seq[Max(s)])]
<1>1. /\ n \in Nat /\ DOMAIN seq = 1..n /\ \A i \in 1..n : seq[i] \in R
      /\ << >> \in V
  BY LenProperties, ElementOfSeq, EmptySeq
<1>2. \A v \in V, x \in R : Keep(v, x) \in V
  BY AppendProperties
<1>3. h \in [1..n -> [V -> V]]
  BY <1>1, <1>2
<1>4. PICK f \in [SUBSET (1..n) -> V] : Folds(f, n, << >>, h)
  <2> HIDE DEF h, n, V
  <2> QED
    BY <1>1, <1>3, FoldHasValues
<1>5. \A s \in SUBSET (1..n) :
          s # {} => Max(s) \in 1..n /\ s \ {Max(s)} \in SUBSET (1..n)
  BY <1>1, GreatestPosition
<1>6. \A s \in SUBSET (1..n) :
          f[s] = IF s = {} THEN << >> ELSE Keep(f[s \ {Max(s)}], seq[Max(s)])
  <2> SUFFICES ASSUME NEW s \in SUBSET (1..n)
               PROVE  f[s] = IF s = {} THEN << >>
                             ELSE Keep(f[s \ {Max(s)}], seq[Max(s)])
    OBVIOUS
  <2>1. f[s] = IF s = {} THEN << >> ELSE h[Max(s)][f[s \ {Max(s)}]]
    BY <1>4 DEF Folds
  <2>2. s # {} => h[Max(s)][f[s \ {Max(s)}]]
                      = Keep(f[s \ {Max(s)}], seq[Max(s)])
    <3> HIDE DEF Keep, V
    <3> QED
      BY <1>4, <1>5
  <2> HIDE DEF h, Keep
  <2> QED
    BY <2>1, <2>2
<1>7. f = [s \in SUBSET (1..n) |->
              IF s = {} THEN << >> ELSE Keep(f[s \ {Max(s)}], seq[Max(s)])]
  <2> HIDE DEF Keep
  <2> QED
    BY <1>4, <1>6
<1>8. iter = [s \in SUBSET (1..n) |->
                 IF s = {} THEN << >>
                 ELSE Keep(iter[s \ {Max(s)}], seq[Max(s)])]
  <2> HIDE DEF Keep
  <2> QED
    BY <1>7
<1>9. Among(seq, S) = iter[1..n]
  BY <1>1 DEF Among, FoldLeft, MapThenFoldSet
<1> HIDE DEF iter, h
<1>10. /\ iter[1..0] = << >>
       /\ \A k \in 1..n : iter[1..k] = Keep(iter[1..(k - 1)], seq[k])
  <2> HIDE DEF Keep
  <2>1. 1..0 = {} /\ {} \in SUBSET (1..n)
    OBVIOUS
  <2>2. iter[1..0] = << >>
    BY <1>8, <2>1
  <2>3. ASSUME NEW k \in 1..n
        PROVE  iter[1..k] = Keep(iter[1..(k - 1)], seq[k])
    <3>1. 1..k \in SUBSET (1..n) /\ 1..k # {}
      <4>1. k \in 1..k /\ \A j \in 1..k : j \in 1..n
        BY <1>1
      <4> QED
        BY ONLY <4>1
    <3>2. Max(1..k) = k
      <4>1. Max(1..k) \in 1..k /\ k <= Max(1..k)
        BY <1>1, GreatestOfInterval
      <4> QED
        BY <1>1, <4>1
    <3>3. (1..k) \ {k} = 1..(k - 1)
      BY <1>1
    <3>4. iter[1..k] = Keep(iter[(1..k) \ {k}], seq[k])
      BY <1>8, <3>1, <3>2
    <3> QED
      BY <3>3, <3>4
  <2> QED
    BY <2>2, <2>3
<1> DEFINE taken == [k \in 0..n |-> iter[1..k]]
           good == {k \in 0..n : taken[k] \in V}
<1>11. TakesInOrder(taken, n, seq, S)
  BY <1>1, <1>10 DEF TakesInOrder
<1>12. taken \in [0..n -> V]
  <2> HIDE DEF V, taken
  <2>1. 0 \in good
    BY <1>1, <1>11 DEF TakesInOrder
  <2>2. \A k \in 1..n : k - 1 \in good => k \in good
    <3> SUFFICES ASSUME NEW k \in 1..n, k - 1 \in good PROVE k \in good
      OBVIOUS
    <3>1. seq[k] \in R /\ k \in 0..n /\ taken[k - 1] \in V
      BY <1>1
    <3>2. taken[k] = Keep(taken[k - 1], seq[k])
      BY <1>11 DEF TakesInOrder
    <3> HIDE DEF Keep
    <3>3. taken[k] \in V
      BY <1>2, <3>1, <3>2
    <3> QED
      BY <3>1, <3>3
  <2> HIDE DEF good
  <2>3. \A k \in 0..n : k \in good
    BY <1>1, <2>1, <2>2, UpTo
  <2>4. taken = [k \in 0..n |-> taken[k]]
    BY DEF taken
  <2> QED
    BY <2>3, <2>4 DEF good
<1>13. Among(seq, S) = taken[n]
  BY <1>1, <1>9
<1> QED
  BY <1>11, <1>12, <1>13

(***************************************************************************)
(* What is summed over a sequence when w gives each member a value.        *)
(***************************************************************************)
Weight(seq, w) == Total([i \in DOMAIN seq |-> w[seq[i]]])

LEMMA WeightOfOneMore ==
    ASSUME NEW R, NEW seq \in Seq(R), NEW x \in R, NEW w \in [R -> Int]
    PROVE  /\ Weight(seq, w) \in Int
           /\ Weight(Append(seq, x), w) = Weight(seq, w) + w[x]
<1> DEFINE n == Len(seq)
           more == Append(seq, x)
           short == [i \in DOMAIN seq |-> w[seq[i]]]
           long == [i \in DOMAIN more |-> w[more[i]]]
<1>1. /\ n \in Nat /\ DOMAIN seq = 1..n /\ \A i \in 1..n : seq[i] \in R
      /\ DOMAIN more = 1..(n + 1)
      /\ more[n + 1] = x /\ \A i \in 1..n : more[i] = seq[i]
  <2>1. /\ more \in Seq(R) /\ Len(more) = n + 1
        /\ more[n + 1] = x /\ \A i \in 1..n : more[i] = seq[i]
    BY AppendProperties
  <2> HIDE DEF more
  <2> QED
    BY <2>1, LenProperties, ElementOfSeq
<1> HIDE DEF n, more
<1>2. \A i \in 1..(n + 1) : more[i] \in R
  <2> TAKE i \in 1..(n + 1)
  <2>1. i \in 1..n \/ i = n + 1
    BY <1>1
  <2> QED
    BY <1>1, <2>1
<1>3. short \in [1..n -> Int] /\ long \in [1..(n + 1) -> Int]
  BY <1>1, <1>2
<1>4. (\A i \in 1..n : long[i] = short[i]) /\ long[n + 1] = w[x]
  BY <1>1
<1> HIDE DEF short, long
<1>5. Total(long) = Total(short) + w[x] /\ Total(short) \in Int
  <2>1. Total(long) = Total(short) + long[n + 1]
    BY ONLY <1>1, <1>3, <1>4, TotalOfOneMore
  <2>2. Total(short) \in Int
    BY <1>1, <1>3, PartialSums
  <2> QED
    BY <1>4, <2>1, <2>2
<1> QED
  BY <1>5 DEF Weight, short, long, more

(***************************************************************************)
(* Its members, and what is summed over them: the others count nothing.    *)
(***************************************************************************)
Restricted(w, R, S) == [x \in R |-> IF x \in S THEN w[x] ELSE 0]

LEMMA AmongIsRestriction ==
    ASSUME NEW R, NEW seq \in Seq(R), NEW S
    PROVE  /\ Among(seq, S) \in Seq(R)
           /\ Range(Among(seq, S)) = Range(seq) \cap S
           /\ \A w \in [R -> Int] :
                  Weight(Among(seq, S), w) = Weight(seq, Restricted(w, R, S))
<1> DEFINE n == Len(seq)
<1>1. n \in Nat /\ DOMAIN seq = 1..n /\ \A i \in 1..n : seq[i] \in R
  BY LenProperties, ElementOfSeq
<1> HIDE DEF n
<1>2. PICK taken \in [0..n -> Seq(R)] :
          TakesInOrder(taken, n, seq, S) /\ Among(seq, S) = taken[n]
  BY AmongGrows DEF n
<1>3. Among(seq, S) \in Seq(R)
  BY <1>1, <1>2
<1>4. Range(Among(seq, S)) = Range(seq) \cap S
  <2> DEFINE Members(k) == {seq[i] : i \in 1..k} \cap S
             good == {k \in 0..n : Range(taken[k]) = Members(k)}
  <2>1. 0 \in good
    <3>1. taken[0] = << >> /\ Range(<< >>) = {} /\ 1..0 = {}
      BY <1>2 DEF TakesInOrder, Range
    <3> QED
      BY <1>1, <3>1
  <2>2. \A k \in 1..n : k - 1 \in good => k \in good
    <3> SUFFICES ASSUME NEW k \in 1..n, k - 1 \in good PROVE k \in good
      OBVIOUS
    <3>9. Range(taken[k - 1]) = Members(k - 1)
      OBVIOUS
    <3> SUFFICES Range(taken[k]) = Members(k)
      BY <1>1
    <3>1. k - 1 \in 0..n /\ taken[k - 1] \in Seq(R) /\ seq[k] \in R
      BY <1>1, <1>2
    <3>2. {seq[i] : i \in 1..k} = {seq[i] : i \in 1..(k - 1)} \cup {seq[k]}
      <4>1. 1..k = (1..(k - 1)) \cup {k}
        BY <1>1
      <4> QED
        BY <4>1
    <3>3. CASE seq[k] \in S
      <4> DEFINE short == taken[k - 1]
      <4>1. taken[k] = Append(short, seq[k])
        BY <1>2, <3>3 DEF TakesInOrder
      <4>2. short \in Seq(R)
        BY <3>1
      <4> HIDE DEF short
      <4>3. Range(Append(short, seq[k])) = Range(short) \cup {seq[k]}
        <5>1. /\ Append(short, seq[k]) \in Seq(R)
              /\ Len(Append(short, seq[k])) = Len(short) + 1
              /\ \A i \in 1..Len(short) : Append(short, seq[k])[i] = short[i]
              /\ Append(short, seq[k])[Len(short) + 1] = seq[k]
          BY <3>1, <4>2, AppendProperties
        <5>2. /\ Len(short) \in Nat /\ DOMAIN short = 1..Len(short)
              /\ DOMAIN Append(short, seq[k]) = 1..(Len(short) + 1)
          BY <4>2, <5>1, LenProperties
        <5>3. 1..(Len(short) + 1) = (1..Len(short)) \cup {Len(short) + 1}
          BY <5>2
        <5> QED
          BY <5>1, <5>2, <5>3 DEF Range
      <4>4. Range(short) = Members(k - 1)
        BY <3>9 DEF short
      <4> QED
        BY <3>2, <3>3, <4>1, <4>3, <4>4
    <3>4. CASE seq[k] \notin S
      <4>1. taken[k] = taken[k - 1]
        BY <1>2, <3>4 DEF TakesInOrder
      <4> QED
        BY <3>9, <3>2, <3>4, <4>1
    <3> QED
      BY <3>3, <3>4
  <2> HIDE DEF good
  <2>3. \A k \in 0..n : k \in good
    BY <1>1, <2>1, <2>2, UpTo
  <2>4. Range(taken[n]) = Members(n)
    BY <1>1, <2>3 DEF good
  <2>5. Range(seq) = {seq[i] : i \in 1..n}
    BY <1>1 DEF Range
  <2> QED
    BY <1>2, <2>4, <2>5
<1>5. ASSUME NEW w \in [R -> Int]
      PROVE  Weight(Among(seq, S), w) = Weight(seq, Restricted(w, R, S))
  <2> DEFINE r == Restricted(w, R, S)
             values == [i \in DOMAIN seq |-> r[seq[i]]]
  <2>1. \A x \in R : r[x] = IF x \in S THEN w[x] ELSE 0
    BY DEF Restricted
  <2>2. values \in [1..n -> Int]
    BY <1>1, <2>1
  <2>3. \A k \in 1..n : values[k] = r[seq[k]]
    BY <1>1
  <2> HIDE DEF values, r
  <2>4. PICK sum : SumOf(sum, n, values) /\ Total(values) = sum[n]
    BY <1>1, <2>2, PartialSums
  <2> DEFINE good == {k \in 0..n : Weight(taken[k], w) = sum[k]}
  <2>5. 0 \in good
    <3>1. taken[0] = << >> /\ sum[0] = 0
      BY <1>2, <2>4 DEF TakesInOrder, SumOf
    <3>2. Weight(<< >>, w) = 0
      <4> DEFINE v == [i \in DOMAIN << >> |-> w[<< >>[i]]]
      <4>1. v \in [1..0 -> Int] /\ \A i \in 1..0 : v[i] = 0
        OBVIOUS
      <4> HIDE DEF v
      <4>2. Total(v) = 0
        BY <4>1, TotalOfNone
      <4> QED
        BY <4>2 DEF Weight, v
    <3> QED
      BY <1>1, <3>1, <3>2
  <2>6. \A k \in 1..n : k - 1 \in good => k \in good
    <3> SUFFICES ASSUME NEW k \in 1..n, k - 1 \in good PROVE k \in good
      OBVIOUS
    <3>9. Weight(taken[k - 1], w) = sum[k - 1]
      OBVIOUS
    <3> SUFFICES Weight(taken[k], w) = sum[k]
      BY <1>1
    <3>1. k - 1 \in 0..n /\ taken[k - 1] \in Seq(R) /\ seq[k] \in R
      BY <1>1, <1>2
    <3>2. sum[k] = sum[k - 1] + r[seq[k]] /\ sum[k - 1] \in Int
      BY <2>3, <2>4, <3>1 DEF SumOf
    <3>3. Weight(Append(taken[k - 1], seq[k]), w)
              = Weight(taken[k - 1], w) + w[seq[k]]
      BY <3>1, WeightOfOneMore
    <3>4. taken[k] = IF seq[k] \in S THEN Append(taken[k - 1], seq[k])
                     ELSE taken[k - 1]
      BY <1>2 DEF TakesInOrder
    <3>5. r[seq[k]] = IF seq[k] \in S THEN w[seq[k]] ELSE 0
      BY <2>1, <3>1
    <3> QED
      BY <3>9, <3>2, <3>3, <3>4, <3>5
  <2> HIDE DEF good
  <2>7. \A k \in 0..n : k \in good
    BY <1>1, <2>5, <2>6, UpTo
  <2>8. Weight(taken[n], w) = sum[n]
    BY <1>1, <2>7 DEF good
  <2> QED
    BY <1>2, <2>4, <2>8 DEF Weight, values, r
<1> QED
  BY <1>3, <1>4, <1>5

(***************************************************************************)
(* Weights that agree on the members of a sequence give the same.          *)
(***************************************************************************)
LEMMA WeightOfSame ==
    ASSUME NEW R, NEW seq \in Seq(R), NEW v, NEW w,
           \A i \in 1..Len(seq) : v[seq[i]] = w[seq[i]]
    PROVE  Weight(seq, v) = Weight(seq, w)
<1>1. DOMAIN seq = 1..Len(seq)
  BY LenProperties
<1>2. [i \in DOMAIN seq |-> v[seq[i]]] = [i \in DOMAIN seq |-> w[seq[i]]]
  BY <1>1
<1> QED
  BY <1>2 DEF Weight

(***************************************************************************)
(* The values that are summed are numbers.                                 *)
(***************************************************************************)
LEMMA WeightValues ==
    ASSUME NEW R, NEW seq \in Seq(R), NEW w \in [R -> Int]
    PROVE  /\ Len(seq) \in Nat
           /\ [i \in DOMAIN seq |-> w[seq[i]]] \in [1..Len(seq) -> Int]
           /\ Weight(seq, w) \in Int
<1>1. /\ Len(seq) \in Nat /\ DOMAIN seq = 1..Len(seq)
      /\ \A i \in 1..Len(seq) : seq[i] \in R
  BY LenProperties, ElementOfSeq
<1>2. [i \in DOMAIN seq |-> w[seq[i]]] \in [1..Len(seq) -> Int]
  BY <1>1
<1>3. Weight(seq, w) \in Int
  <2> DEFINE v == [i \in DOMAIN seq |-> w[seq[i]]]
  <2>1. v \in [1..Len(seq) -> Int]
    BY <1>2
  <2> HIDE DEF v
  <2>2. Total(v) \in Int
    BY <1>1, <2>1, PartialSums
  <2> QED
    BY <2>2 DEF Weight, v
<1> QED
  BY <1>1, <1>2, <1>3

(***************************************************************************)
(* When each member counts once, the length is summed.                     *)
(***************************************************************************)
Ones(R) == [x \in R |-> 1]

LEMMA LengthIsWeight ==
    ASSUME NEW R, NEW seq \in Seq(R)
    PROVE  Weight(seq, Ones(R)) = Len(seq)
<1> DEFINE n == Len(seq)
           v == [i \in DOMAIN seq |-> Ones(R)[seq[i]]]
           sum == [k \in 0..n |-> k]
<1>1. /\ n \in Nat /\ DOMAIN seq = 1..n /\ \A i \in 1..n : seq[i] \in R
  BY LenProperties, ElementOfSeq
<1> HIDE DEF n
<1>2. v \in [1..n -> Int] /\ \A i \in 1..n : v[i] = 1
  BY <1>1 DEF Ones
<1> HIDE DEF v
<1>3. SumOf(sum, n, v)
  BY <1>1, <1>2 DEF SumOf
<1>4. Total(v) = sum[n]
  <2> HIDE DEF sum
  <2> QED
    BY <1>1, <1>2, <1>3, TotalIsUnique
<1> QED
  BY <1>1, <1>4 DEF Weight, v, n

-----------------------------------------------------------------------------
(***************************************************************************)
(* What is reported of values: their total counts those that are missing   *)
(* for nothing.                                                            *)
(***************************************************************************)
OrZero(v) == IF v = None THEN 0 ELSE v

LEMMA ReportedTotals ==
    ASSUME NEW n \in Nat, NEW values \in [1..n -> Int \cup {None}]
    PROVE  /\ [i \in 1..n |-> OrZero(values[i])] \in [1..n -> Int]
           /\ Total(Reported(values)) = Total([i \in 1..n |-> OrZero(values[i])])
           /\ Reported(values) \in Seq(Int)
           /\ TotalReported(values) =
                  IF \A i \in 1..n : values[i] = None THEN None
                  ELSE Total([i \in 1..n |-> OrZero(values[i])])
<1> DEFINE R == Int \cup {None}
           S == Range(values) \ {None}
           w == [x \in R |-> OrZero(x)]
           zero == [i \in 1..n |-> OrZero(values[i])]
           kept == Among(values, S)
<1>1. /\ values \in Seq(R) /\ Len(values) = n /\ DOMAIN values = 1..n
  <2>1. values \in Seq(R)
    BY SeqDef
  <2> QED
    BY <2>1, LenProperties
<1>2. zero \in [1..n -> Int] /\ w \in [R -> Int]
  BY DEF OrZero
<1>3. /\ kept \in Seq(R) /\ Range(kept) = Range(values) \cap S
      /\ Weight(kept, w) = Weight(values, Restricted(w, R, S))
  <2> HIDE DEF R, S, w
  <2> QED
    BY <1>1, <1>2, AmongIsRestriction
<1> HIDE DEF kept
<1>4. DOMAIN kept = 1..Len(kept) /\ Len(kept) \in Nat
      /\ \A i \in 1..Len(kept) : kept[i] \in Int /\ kept[i] # None
  <2>1. DOMAIN kept = 1..Len(kept) /\ Len(kept) \in Nat
    BY <1>3, LenProperties
  <2>2. \A i \in 1..Len(kept) : kept[i] \in Range(kept)
    BY <2>1 DEF Range
  <2>3. \A x \in Range(kept) : x \in Int /\ x # None
    BY <1>1, <1>3 DEF Range
  <2> QED
    BY <2>1, <2>2, <2>3
<1>5. kept \in Seq(Int)
  <2>1. kept \in [1..Len(kept) -> Int]
    BY <1>3, <1>4, LenProperties
  <2> QED
    BY <1>4, <2>1, SeqDef
<1>6. [i \in DOMAIN kept |-> w[kept[i]]] = kept
  <2>1. kept = [i \in DOMAIN kept |-> kept[i]]
    BY <1>3, LenProperties
  <2>2. \A i \in DOMAIN kept : w[kept[i]] = kept[i]
    BY <1>4 DEF OrZero
  <2> HIDE DEF w
  <2> QED
    BY <2>1, <2>2
<1>7. [i \in DOMAIN values |-> Restricted(w, R, S)[values[i]]] = zero
  <2>1. \A i \in 1..n : values[i] \in R
                        /\ (values[i] \in S <=> values[i] # None)
    BY <1>1 DEF Range
  <2>2. \A i \in 1..n : Restricted(w, R, S)[values[i]] = OrZero(values[i])
    <3>1. \A x \in R : Restricted(w, R, S)[x] = IF x \in S THEN w[x] ELSE 0
      BY DEF Restricted
    <3>2. \A x \in R : w[x] = OrZero(x)
      OBVIOUS
    <3> HIDE DEF w, R, S
    <3> QED
      BY <2>1, <3>1, <3>2 DEF OrZero
  <2> HIDE DEF w, R, S
  <2> QED
    BY <1>1, <2>2
<1>8. Reported(values) = kept
  BY DEF Reported, kept
<1>9. Total(kept) = Total(zero)
  BY <1>3, <1>6, <1>7 DEF Weight
<1>10. TotalReported(values) = IF \A i \in 1..n : values[i] = None THEN None
                               ELSE Total(zero)
  BY <1>1 DEF TotalReported, OrZero
<1> QED
  BY <1>2, <1>5, <1>8, <1>9, <1>10

-----------------------------------------------------------------------------
(***************************************************************************)
(* The three columns of a summary that add up, and what a record adds to   *)
(* each.                                                                   *)
(***************************************************************************)
Columns == {"runs", "passed", "cost"}

Adds(column, R) ==
    [r \in R |-> IF column = "runs" THEN 1
                 ELSE IF column = "passed" THEN IF r.passed THEN 1 ELSE 0
                 ELSE OrZero(r.cost)]

AreRecords(R) == \A r \in R : IsRunRecord(r)

LEMMA AddsType ==
    ASSUME NEW R, AreRecords(R), NEW c \in Columns
    PROVE  Adds(c, R) \in [R -> Int]
BY DEF AreRecords, IsRunRecord, Adds, Columns, OrZero

(***************************************************************************)
(* A summary of records has in each column what the records add.           *)
(***************************************************************************)
LEMMA SummaryColumns ==
    ASSUME NEW R, AreRecords(R), NEW recs \in Seq(R), NEW p, NEW c \in Columns
    PROVE  /\ SummarizeStrategy(p, recs).strategy = p
           /\ SummarizeStrategy(p, recs)[c] \in Int \cup {None}
           /\ OrZero(SummarizeStrategy(p, recs)[c]) = Weight(recs, Adds(c, R))
<1> DEFINE x == SummarizeStrategy(p, recs)
           n == Len(recs)
           costs == [i \in DOMAIN recs |-> recs[i].cost]
           good == {r \in Range(recs) : r.passed}
<1>1. /\ n \in Nat /\ DOMAIN recs = 1..n
      /\ \A i \in 1..n : recs[i] \in R /\ recs[i] \in Range(recs)
  BY LenProperties, ElementOfSeq DEF Range
<1>2. None \notin Int
  BY StreamAssumption
<1>3. /\ x.strategy = p /\ x["runs"] = n
      /\ x["passed"] = Len(Among(recs, good))
      /\ x["cost"] = TotalReported(costs)
  BY DEF SummarizeStrategy, Field
<1> HIDE DEF x
<1>4. CASE c = "runs"
  <2>1. Adds(c, R) = Ones(R)
    BY <1>4 DEF Adds, Ones
  <2>2. Weight(recs, Adds(c, R)) = n
    BY <2>1, LengthIsWeight
  <2> QED
    BY <1>1, <1>2, <1>3, <1>4, <2>2 DEF OrZero, x
<1>5. CASE c = "passed"
  <2>1. /\ Among(recs, good) \in Seq(R)
        /\ Weight(Among(recs, good), Ones(R))
               = Weight(recs, Restricted(Ones(R), R, good))
    <3>1. Ones(R) \in [R -> Int]
      BY DEF Ones
    <3> HIDE DEF good
    <3> QED
      BY <3>1, AmongIsRestriction
  <2>2. Weight(Among(recs, good), Ones(R)) = Len(Among(recs, good))
    BY <2>1, LengthIsWeight
  <2>3. \A i \in 1..n : Restricted(Ones(R), R, good)[recs[i]]
                            = Adds(c, R)[recs[i]]
    <3>1. \A r \in R : Restricted(Ones(R), R, good)[r]
                           = IF r \in good THEN 1 ELSE 0
      BY DEF Restricted, Ones
    <3>2. \A r \in R : Adds(c, R)[r] = IF r.passed THEN 1 ELSE 0
      BY <1>5 DEF Adds
    <3> QED
      BY <1>1, <3>1, <3>2
  <2>4. Weight(recs, Restricted(Ones(R), R, good)) = Weight(recs, Adds(c, R))
    <3> HIDE DEF good
    <3> QED
      BY <2>3, WeightOfSame
  <2>5. Len(Among(recs, good)) \in Nat
    BY <2>1, LenProperties
  <2> QED
    BY <1>2, <1>3, <1>5, <2>1, <2>2, <2>4, <2>5 DEF OrZero, x
<1>6. CASE c = "cost"
  <2>1. costs \in [1..n -> Int \cup {None}]
    BY <1>1 DEF AreRecords, IsRunRecord
  <2> DEFINE zero == [i \in 1..n |-> OrZero(costs[i])]
  <2>2. /\ zero \in [1..n -> Int]
        /\ TotalReported(costs) = IF \A i \in 1..n : costs[i] = None THEN None
                                  ELSE Total(zero)
    <3> HIDE DEF costs
    <3> QED
      BY <1>1, <2>1, ReportedTotals
  <2>3. zero = [i \in DOMAIN recs |-> Adds(c, R)[recs[i]]]
    BY <1>1, <1>6 DEF Adds
  <2>4. Total(zero) = Weight(recs, Adds(c, R))
    BY <2>3 DEF Weight
  <2>5. Total(zero) \in Int
    <3> HIDE DEF zero
    <3> QED
      BY <1>1, <2>2, PartialSums
  <2>6. (\A i \in 1..n : costs[i] = None) => Total(zero) = 0
    <3> SUFFICES ASSUME \A i \in 1..n : costs[i] = None PROVE Total(zero) = 0
      OBVIOUS
    <3>1. \A i \in 1..n : zero[i] = 0
      BY DEF OrZero
    <3> HIDE DEF zero
    <3> QED
      BY <1>1, <2>2, <3>1, TotalOfNone
  <2> HIDE DEF zero, costs
  <2> QED
    BY <1>2, <1>3, <1>6, <2>2, <2>4, <2>5, <2>6 DEF OrZero, x
<1> QED
  BY <1>4, <1>5, <1>6 DEF Columns

-----------------------------------------------------------------------------
(***************************************************************************)
(* The summaries of records: one for each strategy that has some.          *)
(***************************************************************************)
Present(recs) == Among(Strategies, {r.strategy : r \in Range(recs)})

LEMMA SummariesOf ==
    ASSUME NEW R, AreRecords(R), NEW recs \in Seq(R)
    PROVE  /\ Strategies \in Seq(Range(Strategies))
           /\ Present(recs) \in Seq(Range(Strategies))
           /\ Range(Present(recs)) = {r.strategy : r \in Range(recs)}
           /\ Summaries(recs) \in Seq(Range(Summaries(recs)))
           /\ DOMAIN Summaries(recs) = DOMAIN Present(recs)
           /\ \A i \in DOMAIN Present(recs) :
                  Summaries(recs)[i] = SummarizeStrategy(Present(recs)[i],
                                           OfStrategy(recs, Present(recs)[i]))
<1> DEFINE P == {r.strategy : r \in Range(recs)}
           present == Present(recs)
           sums == Summaries(recs)
           n == Len(present)
<1>1. Strategies \in Seq(Range(Strategies))
  BY MetricsAssumption
<1>2. /\ present \in Seq(Range(Strategies))
      /\ Range(present) = Range(Strategies) \cap P
  <2> HIDE DEF P
  <2> QED
    BY <1>1, AmongIsRestriction DEF Present, P
<1>3. P \subseteq Range(Strategies)
  <2>1. \A r \in Range(recs) : r \in R
    BY LenProperties, ElementOfSeq DEF Range
  <2> QED
    BY <2>1 DEF AreRecords, IsRunRecord
<1>4. sums = [i \in DOMAIN present |->
                 SummarizeStrategy(present[i], OfStrategy(recs, present[i]))]
  BY DEF Summaries, Present
<1> HIDE DEF present, sums
<1>5. n \in Nat /\ DOMAIN present = 1..n
  BY <1>2, LenProperties
<1>6. sums \in Seq(Range(sums))
  <2>1. DOMAIN sums = 1..n /\ \A i \in 1..n : sums[i] \in Range(sums)
    BY <1>4, <1>5 DEF Range
  <2>2. sums = [i \in 1..n |-> sums[i]]
    BY <1>4, <1>5
  <2>3. sums \in [1..n -> Range(sums)]
    BY <2>1, <2>2
  <2> QED
    BY <1>5, <2>3, SeqDef
<1> QED
  BY <1>1, <1>2, <1>3, <1>4, <1>6 DEF present, sums

(***************************************************************************)
(* What the summaries of one strategy report in a column.                  *)
(***************************************************************************)
Column(sums, s, c) ==
    LET its == Among(sums, {x \in Range(sums) : x.strategy = s})
    IN  Total(Reported([i \in DOMAIN its |-> its[i][c]]))

OfIts(R, s) == {r \in R : r.strategy = s}

(***************************************************************************)
(* It is what the records of the strategy add.                             *)
(***************************************************************************)
LEMMA ColumnIsWeight ==
    ASSUME NEW R, AreRecords(R), NEW recs \in Seq(R),
           NEW s \in Range(Strategies), NEW c \in Columns
    PROVE  Column(Summaries(recs), s, c)
               = Weight(recs, Restricted(Adds(c, R), R, OfIts(R, s)))
<1> DEFINE sums == Summaries(recs)
           present == Present(recs)
           X == Range(sums)
           S == {x \in X : x.strategy = s}
           its == Among(sums, S)
           values == [i \in DOMAIN its |-> its[i][c]]
           w == [x \in X |-> OrZero(x[c])]
           all == Range(Strategies)
           P == {r.strategy : r \in Range(recs)}
           V == Weight(OfStrategy(recs, s), Adds(c, R))
           u == [p \in all |-> IF p = s THEN V ELSE 0]
           mine == Restricted(Adds(c, R), R, OfIts(R, s))
<1>1. /\ Strategies \in Seq(all) /\ present \in Seq(all)
      /\ sums \in Seq(X) /\ DOMAIN sums = DOMAIN present
      /\ \A i \in DOMAIN present :
             sums[i] = SummarizeStrategy(present[i], OfStrategy(recs, present[i]))
  BY SummariesOf
<1>2. /\ Adds(c, R) \in [R -> Int]
      /\ \A p : /\ OfStrategy(recs, p) \in Seq(R)
                /\ Weight(OfStrategy(recs, p), Adds(c, R)) \in Int
  <2>1. Adds(c, R) \in [R -> Int]
    BY AddsType
  <2>2. ASSUME NEW p
        PROVE  OfStrategy(recs, p) \in Seq(R)
    <3> DEFINE T == {r \in Range(recs) : r.strategy = p}
    <3> HIDE DEF T
    <3>1. Among(recs, T) \in Seq(R)
      BY AmongIsRestriction
    <3> QED
      BY <3>1 DEF OfStrategy, T
  <2> QED
    BY <2>1, <2>2, WeightValues
<1>3. \A x \in X : x[c] \in Int \cup {None}
  <2> SUFFICES ASSUME NEW i \in DOMAIN sums PROVE sums[i][c] \in Int \cup {None}
    BY DEF Range
  <2>1. sums[i] = SummarizeStrategy(present[i], OfStrategy(recs, present[i]))
    BY <1>1
  <2>2. OfStrategy(recs, present[i]) \in Seq(R)
    BY <1>2
  <2> HIDE DEF sums, present
  <2>3. SummarizeStrategy(present[i], OfStrategy(recs, present[i]))[c]
            \in Int \cup {None}
    BY <2>2, SummaryColumns
  <2> QED
    BY <2>1, <2>3
<1>4. \A i \in DOMAIN present : /\ sums[i].strategy = present[i]
                                /\ present[i] = s => w[sums[i]] = V
  <2> SUFFICES ASSUME NEW i \in DOMAIN present
               PROVE  /\ sums[i].strategy = present[i]
                      /\ present[i] = s => w[sums[i]] = V
    OBVIOUS
  <2>1. sums[i] = SummarizeStrategy(present[i], OfStrategy(recs, present[i]))
    BY <1>1
  <2>2. OfStrategy(recs, present[i]) \in Seq(R)
    BY <1>2
  <2>3. sums[i] \in X
    BY <1>1 DEF Range
  <2> HIDE DEF sums, present, X
  <2>4. /\ sums[i].strategy = present[i]
        /\ OrZero(sums[i][c])
               = Weight(OfStrategy(recs, present[i]), Adds(c, R))
    BY <2>1, <2>2, SummaryColumns
  <2> QED
    BY <2>3, <2>4
<1> HIDE DEF sums, present
<1>5. w \in [X -> Int]
  BY <1>3 DEF OrZero
<1>6. /\ its \in Seq(X)
      /\ Weight(its, w) = Weight(sums, Restricted(w, X, S))
  <2> HIDE DEF w, X, S
  <2> QED
    BY <1>1, <1>5, AmongIsRestriction
<1> HIDE DEF its
<1>7. Total(Reported(values)) = Weight(its, w)
  <2>1. /\ Len(its) \in Nat /\ DOMAIN its = 1..Len(its)
        /\ \A i \in 1..Len(its) : its[i] \in X
    <3> HIDE DEF X
    <3> QED
      BY <1>6, LenProperties, ElementOfSeq
  <2>2. values \in [1..Len(its) -> Int \cup {None}]
    <3> HIDE DEF X
    <3> QED
      BY <1>3, <2>1
  <2>3. [i \in 1..Len(its) |-> OrZero(values[i])]
            = [i \in DOMAIN its |-> w[its[i]]]
    <3> HIDE DEF X
    <3> QED
      BY <2>1
  <2>4. Total(Reported(values))
            = Total([i \in 1..Len(its) |-> OrZero(values[i])])
    <3> HIDE DEF values
    <3> QED
      BY <2>1, <2>2, ReportedTotals
  <2> QED
    BY <2>3, <2>4 DEF Weight
<1>8. u \in [all -> Int]
  BY <1>2
<1>9. Weight(sums, Restricted(w, X, S)) = Weight(present, u)
  <2>1. ASSUME NEW i \in DOMAIN present
        PROVE  Restricted(w, X, S)[sums[i]] = u[present[i]]
    <3>1. sums[i] \in X /\ present[i] \in all
      BY <1>1, LenProperties, ElementOfSeq DEF Range
    <3>2. Restricted(w, X, S)[sums[i]]
              = IF sums[i].strategy = s THEN w[sums[i]] ELSE 0
      BY <3>1 DEF Restricted
    <3>3. u[present[i]] = IF present[i] = s THEN V ELSE 0
      BY <3>1
    <3> HIDE DEF u, w, V, X, S
    <3> QED
      BY <1>4, <3>2, <3>3
  <2> HIDE DEF u, w, V, X, S
  <2>2. [i \in DOMAIN sums |-> Restricted(w, X, S)[sums[i]]]
            = [i \in DOMAIN present |-> u[present[i]]]
    BY <1>1, <2>1
  <2> QED
    BY <2>2 DEF Weight
<1>10. Weight(present, u) = Weight(Strategies, Restricted(u, all, P))
  <2> HIDE DEF u, P
  <2> QED
    BY <1>1, <1>8, AmongIsRestriction DEF present, Present, P
<1>11. V = Weight(recs, mine)
  <2> DEFINE T == {r \in Range(recs) : r.strategy = s}
  <2>1. V = Weight(recs, Restricted(Adds(c, R), R, T))
    <3> HIDE DEF T
    <3> QED
      BY <1>2, AmongIsRestriction DEF OfStrategy, T
  <2>2. \A i \in 1..Len(recs) :
            Restricted(Adds(c, R), R, T)[recs[i]] = mine[recs[i]]
    <3> TAKE i \in 1..Len(recs)
    <3>1. recs[i] \in R /\ recs[i] \in Range(recs)
      BY LenProperties, ElementOfSeq DEF Range
    <3> QED
      BY <3>1 DEF Restricted, OfIts
  <2> HIDE DEF T, mine
  <2> QED
    BY <2>1, <2>2, WeightOfSame
<1>12. s \notin P => Weight(recs, mine) = 0
  <2> SUFFICES ASSUME s \notin P PROVE Weight(recs, mine) = 0
    OBVIOUS
  <2> DEFINE zero == [i \in DOMAIN recs |-> mine[recs[i]]]
             n == Len(recs)
  <2>1. n \in Nat /\ DOMAIN recs = 1..n
    BY LenProperties
  <2>2. \A i \in 1..n : zero[i] = 0
    <3> TAKE i \in 1..n
    <3>1. recs[i] \in R /\ recs[i] \in Range(recs)
      BY LenProperties, ElementOfSeq DEF Range
    <3>2. recs[i].strategy # s
      BY <3>1
    <3> QED
      BY <2>1, <3>1, <3>2 DEF Restricted, OfIts
  <2>3. zero \in [1..n -> Int]
    BY <2>1, <2>2
  <2> HIDE DEF zero, n
  <2>4. Total(zero) = 0
    BY <2>1, <2>2, <2>3, TotalOfNone
  <2> QED
    BY <2>4 DEF Weight, zero
<1>13. Weight(Strategies, Restricted(u, all, P)) = IF s \in P THEN V ELSE 0
  <2> DEFINE n == Len(Strategies)
             v == [i \in DOMAIN Strategies |-> Restricted(u, all, P)[Strategies[i]]]
  <2>1. n \in Nat /\ DOMAIN Strategies = 1..n
    BY <1>1, LenProperties
  <2>2. \A i \in 1..n : v[i] = IF Strategies[i] = s /\ s \in P THEN V ELSE 0
    <3> TAKE i \in 1..n
    <3>1. Strategies[i] \in all
      BY <2>1 DEF Range
    <3>2. v[i] = IF Strategies[i] \in P THEN u[Strategies[i]] ELSE 0
      BY <2>1, <3>1 DEF Restricted
    <3>3. u[Strategies[i]] = IF Strategies[i] = s THEN V ELSE 0
      BY <3>1
    <3> HIDE DEF u, v, V
    <3> QED
      BY <3>2, <3>3
  <2>3. V \in Int
    BY <1>2
  <2> HIDE DEF u, P
  <2>4. v \in [1..n -> Int]
    <3>1. v = [i \in 1..n |-> v[i]]
      BY <2>1
    <3> HIDE DEF v, V
    <3> QED
      BY <2>2, <2>3, <3>1
  <2>5. PICK j \in 1..n : Strategies[j] = s
    BY <2>1 DEF Range
  <2>6. \A i \in 1..n : i # j => Strategies[i] # s
    BY <2>1, <2>5, MetricsAssumption DEF IsInjective
  <2>7. \A i \in 1..n : i # j => v[i] = 0
    BY <2>2, <2>6
  <2> HIDE DEF v, n, V
  <2>8. v[j] = IF s \in P THEN V ELSE 0
    BY <2>2, <2>5
  <2>9. Total(v) = v[j]
    BY <2>1, <2>4, <2>5, <2>7, TotalOfOne
  <2> QED
    BY <2>8, <2>9 DEF Weight, v
<1>14. Column(sums, s, c) = Total(Reported(values))
  BY DEF Column, its
<1> HIDE DEF values, w, u, V, mine, P, S, X, all
<1>15. Column(sums, s, c) = IF s \in P THEN V ELSE 0
  BY <1>6, <1>7, <1>9, <1>10, <1>13, <1>14
<1> QED
  BY <1>11, <1>12, <1>15 DEF sums, mine

-----------------------------------------------------------------------------
OfIt(R, t) == {r \in R : r.task = t}

(***************************************************************************)
(* What the records of each task add is what all of them add.              *)
(***************************************************************************)
LEMMA TasksAddUp ==
    ASSUME NEW R, AreRecords(R), NEW recs \in Seq(R), NEW w \in [R -> Int]
    PROVE  Total([i \in DOMAIN Tasks |->
                     Weight(recs, Restricted(w, R, OfIt(R, Tasks[i])))])
               = Weight(recs, w)
<1> DEFINE m == Len(Tasks)
           part(i) == Restricted(w, R, OfIt(R, Tasks[i]))
           values == [i \in DOMAIN Tasks |-> Weight(recs, part(i))]
           First(k) == {r \in R : \E i \in 1..k : r.task = Tasks[i]}
           sofar(k) == Restricted(w, R, First(k))
           sum == [k \in 0..m |-> Weight(recs, sofar(k))]
           n == Len(recs)
<1>1. m \in Nat /\ DOMAIN Tasks = 1..m
  BY MetricsAssumption, LenProperties
<1>2. n \in Nat /\ DOMAIN recs = 1..n /\ \A i \in 1..n : recs[i] \in R
  BY LenProperties, ElementOfSeq
<1>3. \A S : Restricted(w, R, S) \in [R -> Int]
  BY DEF Restricted
<1>4. \A S : Weight(recs, Restricted(w, R, S)) \in Int
  BY <1>3, WeightValues
<1>5. values \in [1..m -> Int]
  BY <1>1, <1>4
<1>6. SumOf(sum, m, values)
  <2>1. sum \in [0..m -> Int]
    BY <1>4
  <2>2. sum[0] = 0
    <3> DEFINE zero == [i \in DOMAIN recs |-> sofar(0)[recs[i]]]
    <3>1. \A i \in 1..n : zero[i] = 0
      <4> TAKE i \in 1..n
      <4>1. recs[i] \in R /\ recs[i] \notin First(0)
        BY <1>2
      <4> QED
        BY <1>2, <4>1 DEF Restricted
    <3>2. zero \in [1..n -> Int]
      BY <1>2, <1>3
    <3> HIDE DEF zero
    <3>3. Total(zero) = 0
      BY <1>2, <3>1, <3>2, TotalOfNone
    <3>4. Weight(recs, sofar(0)) = 0
      BY <3>3 DEF Weight, zero
    <3>5. sum[0] = Weight(recs, sofar(0))
      <4> HIDE DEF sofar
      <4> QED
        BY <1>1
    <3> QED
      BY <3>4, <3>5
  <2>3. ASSUME NEW k \in 1..m PROVE sum[k] = sum[k - 1] + values[k]
    <3> DEFINE U == [i \in DOMAIN recs |-> sofar(k - 1)[recs[i]]]
               V == [i \in DOMAIN recs |-> part(k)[recs[i]]]
               W == [i \in DOMAIN recs |-> sofar(k)[recs[i]]]
    <3>1. /\ U \in [1..n -> Int] /\ V \in [1..n -> Int] /\ W \in [1..n -> Int]
      BY <1>2, <1>3
    <3>2. ASSUME NEW i \in 1..n PROVE W[i] = U[i] + V[i]
      <4> DEFINE r == recs[i]
      <4>1. r \in R /\ w[r] \in Int
        BY <1>2
      <4> HIDE DEF r
      <4>2. r \in First(k) <=> r \in First(k - 1) \/ r.task = Tasks[k]
        <5>1. 1..k = (1..(k - 1)) \cup {k}
          BY <1>1
        <5>2. (\E j \in 1..k : r.task = Tasks[j])
                  <=> (\E j \in 1..(k - 1) : r.task = Tasks[j]) \/ r.task = Tasks[k]
          BY ONLY <5>1
        <5> QED
          BY <4>1, <5>2
      <4>3. ~(r \in First(k - 1) /\ r.task = Tasks[k])
        <5> SUFFICES ASSUME NEW j \in 1..(k - 1), Tasks[j] = Tasks[k]
                     PROVE  FALSE
          OBVIOUS
        <5>1. j \in 1..m /\ j # k
          BY <1>1
        <5> QED
          BY <1>1, <5>1, MetricsAssumption DEF IsInjective
      <4>4. /\ sofar(k)[r] = IF r \in First(k) THEN w[r] ELSE 0
            /\ sofar(k - 1)[r] = IF r \in First(k - 1) THEN w[r] ELSE 0
            /\ part(k)[r] = IF r.task = Tasks[k] THEN w[r] ELSE 0
        BY <4>1 DEF Restricted, OfIt
      <4>5. W[i] = sofar(k)[r] /\ U[i] = sofar(k - 1)[r] /\ V[i] = part(k)[r]
        BY <1>2 DEF r
      <4> HIDE DEF First, sofar, part, U, V, W
      <4> QED
        BY <4>1, <4>2, <4>3, <4>4, <4>5
    <3>3. Total(W) = Total(U) + Total(V)
      <4> HIDE DEF U, V, W
      <4> QED
        BY <1>2, <3>1, <3>2, TotalsAddUp
    <3>4. /\ sum[k] = Total(W) /\ sum[k - 1] = Total(U) /\ values[k] = Total(V)
      <4>1. k \in 0..m /\ k - 1 \in 0..m /\ k \in DOMAIN Tasks
        BY <1>1
      <4> QED
        BY <4>1 DEF Weight
    <3> QED
      BY <3>3, <3>4
  <2> HIDE DEF sum, values
  <2> QED
    BY <2>1, <2>2, <2>3 DEF SumOf
<1>7. Total(values) = sum[m]
  <2> HIDE DEF sum, values
  <2> QED
    BY <1>1, <1>5, <1>6, TotalIsUnique
<1>8. sum[m] = Weight(recs, w)
  <2>1. \A i \in 1..n : sofar(m)[recs[i]] = w[recs[i]]
    <3> TAKE i \in 1..n
    <3>1. recs[i] \in R /\ recs[i].task \in Range(Tasks)
      BY <1>2 DEF AreRecords, IsRunRecord
    <3>2. recs[i] \in First(m)
      BY <1>1, <3>1 DEF Range
    <3> QED
      BY <3>1, <3>2 DEF Restricted
  <2>2. Weight(recs, sofar(m)) = Weight(recs, w)
    <3> HIDE DEF sofar
    <3> QED
      BY <2>1, WeightOfSame
  <2> QED
    BY <1>1, <2>2
<1> QED
  BY <1>7, <1>8

(***************************************************************************)
(* The columns of the summaries by task add up to those of the summaries   *)
(* by strategy.                                                            *)
(***************************************************************************)
TasksOf(recs) == {r.task : r \in Range(recs)}

LEMMA ColumnsAddUp ==
    ASSUME NEW R, AreRecords(R), NEW recs \in Seq(R),
           NEW s \in Range(Strategies), NEW c \in Columns
    PROVE  Column(Summaries(recs), s, c)
               = Total([i \in DOMAIN Tasks |->
                           IF Tasks[i] \in TasksOf(recs)
                           THEN Column(Summaries(OfTask(recs, Tasks[i])), s, c)
                           ELSE 0])
<1> DEFINE w == Restricted(Adds(c, R), R, OfIts(R, s))
           part(t) == Weight(recs, Restricted(w, R, OfIt(R, t)))
           n == Len(recs)
<1>1. n \in Nat /\ DOMAIN recs = 1..n
      /\ \A i \in 1..n : recs[i] \in R /\ recs[i] \in Range(recs)
  BY LenProperties, ElementOfSeq DEF Range
<1>2. Adds(c, R) \in [R -> Int]
  BY AddsType
<1>3. w \in [R -> Int]
  BY <1>2 DEF Restricted
<1>4. ASSUME NEW t
      PROVE  /\ t \in TasksOf(recs) =>
                    Column(Summaries(OfTask(recs, t)), s, c) = part(t)
             /\ t \notin TasksOf(recs) => part(t) = 0
  <2> DEFINE T == {r \in Range(recs) : r.task = t}
             its == Among(recs, T)
  <2>1. its \in Seq(R) /\ Weight(its, w) = Weight(recs, Restricted(w, R, T))
    <3> HIDE DEF T, w
    <3> QED
      BY <1>3, AmongIsRestriction
  <2>2. \A i \in 1..n :
            Restricted(w, R, T)[recs[i]] = Restricted(w, R, OfIt(R, t))[recs[i]]
    <3> HIDE DEF w
    <3> QED
      BY <1>1 DEF Restricted, OfIt
  <2>3. Weight(recs, Restricted(w, R, T)) = part(t)
    <3> HIDE DEF T, w
    <3> QED
      BY <2>2, WeightOfSame
  <2>4. Column(Summaries(its), s, c) = Weight(its, w)
    <3> HIDE DEF its
    <3> QED
      BY <2>1, ColumnIsWeight
  <2>5. its = OfTask(recs, t)
    BY DEF OfTask
  <2>6. t \notin TasksOf(recs) => part(t) = 0
    <3> SUFFICES ASSUME t \notin TasksOf(recs) PROVE part(t) = 0
      OBVIOUS
    <3> DEFINE zero == [i \in DOMAIN recs |-> Restricted(w, R, OfIt(R, t))[recs[i]]]
    <3>1. \A i \in 1..n : zero[i] = 0
      <4> TAKE i \in 1..n
      <4>1. recs[i] \in R /\ recs[i].task # t
        BY <1>1 DEF TasksOf
      <4> HIDE DEF w
      <4> QED
        BY <1>1, <4>1 DEF Restricted, OfIt
    <3>2. zero \in [1..n -> Int]
      <4>1. zero = [i \in 1..n |-> zero[i]]
        BY <1>1
      <4> HIDE DEF zero
      <4> QED
        BY <3>1, <4>1
    <3> HIDE DEF zero
    <3>3. Total(zero) = 0
      BY <1>1, <3>1, <3>2, TotalOfNone
    <3> QED
      BY <3>3 DEF Weight, zero
  <2> QED
    BY <2>1, <2>3, <2>4, <2>5, <2>6
<1>5. Total([i \in DOMAIN Tasks |-> part(Tasks[i])]) = Weight(recs, w)
  <2> HIDE DEF w
  <2> QED
    BY <1>3, TasksAddUp
<1>6. Column(Summaries(recs), s, c) = Weight(recs, w)
  BY ColumnIsWeight
<1> HIDE DEF part
<1>7. [i \in DOMAIN Tasks |-> part(Tasks[i])]
          = [i \in DOMAIN Tasks |->
                IF Tasks[i] \in TasksOf(recs)
                THEN Column(Summaries(OfTask(recs, Tasks[i])), s, c)
                ELSE 0]
  <2>1. \A i \in DOMAIN Tasks :
            part(Tasks[i]) = IF Tasks[i] \in TasksOf(recs)
                             THEN Column(Summaries(OfTask(recs, Tasks[i])), s, c)
                             ELSE 0
    BY <1>4
  <2> QED
    BY <2>1
<1> QED
  BY <1>5, <1>6, <1>7

-----------------------------------------------------------------------------
(***************************************************************************)
(* A mean is missing or a fraction, and a fraction is not missing.         *)
(***************************************************************************)
Fractions == Int \X Int

LEMMA MeanType ==
    ASSUME NEW n \in Nat, NEW values \in [1..n -> Int \cup {None}]
    PROVE  Mean(values) \in Fractions \cup {None}
<1> DEFINE kept == Reported(values)
<1>1. kept \in Seq(Int)
  BY ReportedTotals
<1>2. Mean(values) = IF kept = << >> THEN None ELSE <<Total(kept), Len(kept)>>
  BY DEF Mean
<1> HIDE DEF kept
<1>3. Len(kept) \in Nat /\ kept \in [1..Len(kept) -> Int]
  BY <1>1, LenProperties
<1>4. Total(kept) \in Int
  BY <1>3, PartialSums
<1> QED
  BY <1>2, <1>3, <1>4 DEF Fractions

(***************************************************************************)
(* A ratio is missing only if one side is, or the divisor is zero.         *)
(***************************************************************************)
LEMMA RatioOf ==
    ASSUME NEW p \in Fractions \cup {None}, NEW q \in Fractions \cup {None}
    PROVE  IF p = None \/ q = None \/ q[1] = 0
           THEN SafeRatio(p, q) = None /\ PercentChange(p, q) = None
           ELSE /\ SafeRatio(p, q) = <<p[1] * q[2], p[2] * q[1]>>
                /\ PercentChange(p, q)
                       = <<100 * (p[1] * q[2] - p[2] * q[1]), p[2] * q[1]>>
                /\ SafeRatio(p, q) # None /\ PercentChange(p, q) # None
<1>1. CASE p = None \/ q = None \/ q[1] = 0
  BY <1>1 DEF SafeRatio, PercentChange
<1>2. CASE ~(p = None \/ q = None \/ q[1] = 0)
  <2> DEFINE up == p[1] * q[2]
             down == p[2] * q[1]
  <2>1. up \in Int /\ down \in Int
    BY <1>2 DEF Fractions
  <2>2. SafeRatio(p, q) = <<up, down>>
    BY <1>2 DEF SafeRatio
  <2> HIDE DEF up, down
  <2>3. <<up, down>> # None /\ <<100 * (up - down), down>> # None
    <3>1. 100 * (up - down) \in Int
      BY <2>1
    <3>2. <<up, down>> \in Int \X Int /\ <<100 * (up - down), down>> \in Int \X Int
      BY <2>1, <3>1
    <3> QED
      BY <3>2, MetricsAssumption
  <2>4. PercentChange(p, q) = <<100 * (up - down), down>>
    BY <2>2, <2>3 DEF PercentChange
  <2> QED
    BY <1>2, <2>2, <2>3, <2>4 DEF up, down
<1> QED
  BY <1>1, <1>2

(***************************************************************************)
(* Four numbers: b1 / b2 is the baseline's mean and c1 / c2 the            *)
(* candidate's.  The ratio of the change and the ratio of the speed-up are *)
(* two views of one ratio.                                                 *)
(***************************************************************************)
LEMMA TwoViews ==
    ASSUME NEW up \in Int, NEW down \in Int
    PROVE  (100 * down + 100 * (up - down)) * down = 100 * down * up
<1>1. 100 * down + 100 * (up - down) = 100 * up
  OBVIOUS
<1>2. (100 * up) * down = 100 * down * up
  OBVIOUS
<1> QED
  BY <1>1, <1>2

LEMMA SpeedupIsChange ==
    ASSUME NEW b \in Fractions \cup {None}, NEW c \in Fractions \cup {None},
           SafeRatio(b, c) # None, PercentChange(c, b) # None
    PROVE  (100 * PercentChange(c, b)[2] + PercentChange(c, b)[1])
                   * SafeRatio(b, c)[1]
               = 100 * PercentChange(c, b)[2] * SafeRatio(b, c)[2]
<1> DEFINE up == c[1] * b[2]
           down == c[2] * b[1]
<1>1. b # None /\ c # None /\ b \in Fractions /\ c \in Fractions
  BY RatioOf
<1>2. up \in Int /\ down \in Int
  BY <1>1 DEF Fractions
<1>3. PercentChange(c, b) = <<100 * (up - down), down>>
  BY RatioOf
<1>4. SafeRatio(b, c) = <<down, up>>
  <2>1. SafeRatio(b, c) = <<b[1] * c[2], b[2] * c[1]>>
    BY RatioOf
  <2>2. b[1] \in Int /\ b[2] \in Int /\ c[1] \in Int /\ c[2] \in Int
    BY <1>1 DEF Fractions
  <2>3. b[1] * c[2] = down /\ b[2] * c[1] = up
    BY ONLY <2>2
  <2> QED
    BY <2>1, <2>3
<1> HIDE DEF up, down
<1> QED
  BY <1>2, <1>3, <1>4, TwoViews

(***************************************************************************)
(* What the comparison looks at in a summary of records.                   *)
(***************************************************************************)
CostsOf(recs) == [i \in DOMAIN recs |-> recs[i].cost]

LEMMA SummaryValues ==
    ASSUME NEW R, AreRecords(R), NEW recs \in Seq(R), NEW p
    PROVE  /\ SummarizeStrategy(p, recs).wall \in Fractions \cup {None}
           /\ CostPerRun(SummarizeStrategy(p, recs)) \in Fractions \cup {None}
           /\ CostPerRun(SummarizeStrategy(p, recs)) = None =>
                  \A r \in Range(recs) : r.cost = None
           /\ CostPerRun(SummarizeStrategy(p, recs)) # None =>
                  CostPerRun(SummarizeStrategy(p, recs))[1]
                      = Total(Reported(CostsOf(recs)))
<1> DEFINE x == SummarizeStrategy(p, recs)
           n == Len(recs)
           walls == [i \in DOMAIN recs |-> recs[i].wall]
           costs == CostsOf(recs)
<1>1. n \in Nat /\ DOMAIN recs = 1..n /\ \A i \in 1..n : recs[i] \in R
  BY LenProperties, ElementOfSeq
<1>2. /\ x.strategy = p /\ x.runs = n /\ x.wall = Mean(walls)
      /\ x.cost = TotalReported(costs)
  BY DEF SummarizeStrategy, Field, CostsOf
<1> HIDE DEF x
<1>3. walls \in [1..n -> Int \cup {None}] /\ costs \in [1..n -> Int \cup {None}]
  BY <1>1 DEF AreRecords, IsRunRecord, CostsOf
<1>4. x.wall \in Fractions \cup {None}
  <2> HIDE DEF walls
  <2> QED
    BY <1>1, <1>2, <1>3, MeanType
<1> DEFINE zero == [i \in 1..n |-> OrZero(costs[i])]
<1> HIDE DEF costs
<1>5. /\ zero \in [1..n -> Int] /\ Total(Reported(costs)) = Total(zero)
      /\ x.cost = IF \A i \in 1..n : costs[i] = None THEN None ELSE Total(zero)
  BY <1>1, <1>2, <1>3, ReportedTotals
<1>6. Total(zero) \in Int /\ None \notin Int
  <2> HIDE DEF zero
  <2> QED
    BY <1>1, <1>5, PartialSums, StreamAssumption
<1> HIDE DEF zero
<1>7. <<Total(zero), n>> \in Fractions /\ <<Total(zero), n>> # None
  BY <1>1, <1>6, MetricsAssumption DEF Fractions
<1>8. CostPerRun(x) = IF \A i \in 1..n : costs[i] = None THEN None
                      ELSE <<Total(zero), n>>
  BY <1>2, <1>5, <1>6 DEF CostPerRun
<1>9. (\A i \in 1..n : costs[i] = None) => \A r \in Range(recs) : r.cost = None
  BY <1>1 DEF Range, costs, CostsOf
<1> QED
  BY <1>4, <1>5, <1>7, <1>8, <1>9 DEF x, costs

(***************************************************************************)
(* A comparison compares the baseline's summary with that of a strategy.   *)
(***************************************************************************)
LEMMA ComparisonOf ==
    ASSUME NEW R, AreRecords(R), NEW recs \in Seq(R),
           ~BaselineMissing(Summaries(recs)),
           NEW c \in Range(CompareStrategies(Summaries(recs)))
    PROVE  \E p : c = Compare(
                          SummarizeStrategy(Baseline, OfStrategy(recs, Baseline)),
                          SummarizeStrategy(p, OfStrategy(recs, p)))
<1> DEFINE sums == Summaries(recs)
           X == Range(sums)
           base == CHOOSE x \in X : x.strategy = Baseline
           S == {x \in X : x.strategy # Baseline}
           others == Among(sums, S)
<1>1. /\ sums \in Seq(X) /\ DOMAIN sums = DOMAIN Present(recs)
      /\ \A i \in DOMAIN Present(recs) :
             sums[i] = SummarizeStrategy(Present(recs)[i],
                                         OfStrategy(recs, Present(recs)[i]))
  BY SummariesOf
<1>2. CompareStrategies(sums) = [i \in DOMAIN others |-> Compare(base, others[i])]
  BY DEF CompareStrategies
<1>3. \A x \in X : x = SummarizeStrategy(x.strategy, OfStrategy(recs, x.strategy))
  <2> SUFFICES ASSUME NEW i \in DOMAIN sums
               PROVE  sums[i] = SummarizeStrategy(sums[i].strategy,
                                    OfStrategy(recs, sums[i].strategy))
    BY DEF Range
  <2> DEFINE p == Present(recs)[i]
  <2>1. sums[i] = SummarizeStrategy(p, OfStrategy(recs, p))
    BY <1>1
  <2> HIDE DEF sums, p
  <2>2. sums[i].strategy = p
    BY <2>1 DEF SummarizeStrategy
  <2> QED
    BY <2>1, <2>2
<1>4. base \in X /\ base.strategy = Baseline
  <2>1. \E x \in X : x.strategy = Baseline
    BY DEF BaselineMissing, Range
  <2> HIDE DEF X
  <2> QED
    BY <2>1
<1>5. others \in Seq(X)
  <2> HIDE DEF X, S
  <2> QED
    BY <1>1, AmongIsRestriction
<1> HIDE DEF base, others, sums
<1>6. PICK i \in DOMAIN others : c = Compare(base, others[i])
  BY <1>2 DEF Range, sums
<1>7. others[i] \in X
  <2> HIDE DEF X
  <2> QED
    BY <1>5, LenProperties, ElementOfSeq
<1> HIDE DEF X
<1> QED
  BY <1>3, <1>4, <1>6, <1>7

(***************************************************************************)
(* The speed-up and the change of the wall time agree, and a change of the *)
(* cost is missing only if a side reported none or the baseline cost       *)
(* nothing.                                                                *)
(***************************************************************************)
ComparisonAgrees(recs, c) ==
    /\ c.speedup # None /\ c.wallChange # None =>
           (100 * c.wallChange[2] + c.wallChange[1]) * c.speedup[1]
               = 100 * c.wallChange[2] * c.speedup[2]
    /\ c.costChange = None =>
           \/ \A r \in Range(recs) : r.strategy = c.strategy => r.cost = None
           \/ \A r \in Range(recs) : r.strategy = Baseline => r.cost = None
           \/ Total(Reported(CostsOf(OfStrategy(recs, Baseline)))) = 0

LEMMA ComparisonsAgree ==
    ASSUME NEW R, AreRecords(R), NEW recs \in Seq(R),
           ~BaselineMissing(Summaries(recs)),
           NEW c \in Range(CompareStrategies(Summaries(recs)))
    PROVE  ComparisonAgrees(recs, c)
<1>1. PICK p : c = Compare(
                       SummarizeStrategy(Baseline, OfStrategy(recs, Baseline)),
                       SummarizeStrategy(p, OfStrategy(recs, p)))
  BY ComparisonOf
<1>2. \A s : /\ OfStrategy(recs, s) \in Seq(R)
             /\ \A r \in Range(recs) :
                    r.strategy = s => r \in Range(OfStrategy(recs, s))
  <2> TAKE s
  <2> DEFINE T == {r \in Range(recs) : r.strategy = s}
  <2>1. /\ Among(recs, T) \in Seq(R)
        /\ Range(Among(recs, T)) = Range(recs) \cap T
    <3> HIDE DEF T
    <3> QED
      BY AmongIsRestriction
  <2> QED
    BY <2>1 DEF OfStrategy
<1> DEFINE base == SummarizeStrategy(Baseline, OfStrategy(recs, Baseline))
           mine == SummarizeStrategy(p, OfStrategy(recs, p))
<1>3. /\ base.wall \in Fractions \cup {None} /\ mine.wall \in Fractions \cup {None}
      /\ CostPerRun(base) \in Fractions \cup {None}
      /\ CostPerRun(mine) \in Fractions \cup {None}
      /\ CostPerRun(base) = None =>
             \A r \in Range(OfStrategy(recs, Baseline)) : r.cost = None
      /\ CostPerRun(base) # None =>
             CostPerRun(base)[1]
                 = Total(Reported(CostsOf(OfStrategy(recs, Baseline))))
      /\ CostPerRun(mine) = None =>
             \A r \in Range(OfStrategy(recs, p)) : r.cost = None
  BY <1>2, SummaryValues
<1>4. mine.strategy = p
  BY DEF SummarizeStrategy
<1> HIDE DEF base, mine
<1>5. /\ c.strategy = p
      /\ c.speedup = SafeRatio(base.wall, mine.wall)
      /\ c.wallChange = PercentChange(mine.wall, base.wall)
      /\ c.costChange = PercentChange(CostPerRun(mine), CostPerRun(base))
  BY <1>1, <1>4 DEF Compare, base, mine
<1>6. c.speedup # None /\ c.wallChange # None =>
          (100 * c.wallChange[2] + c.wallChange[1]) * c.speedup[1]
              = 100 * c.wallChange[2] * c.speedup[2]
  BY <1>3, <1>5, SpeedupIsChange
<1>7. c.costChange = None =>
          \/ CostPerRun(mine) = None \/ CostPerRun(base) = None
          \/ CostPerRun(base)[1] = 0
  <2> DEFINE f == CostPerRun(mine)
             g == CostPerRun(base)
  <2>1. /\ f \in Fractions \cup {None} /\ g \in Fractions \cup {None}
        /\ c.costChange = PercentChange(f, g)
    BY <1>3, <1>5
  <2> HIDE DEF f, g
  <2>2. PercentChange(f, g) = None => f = None \/ g = None \/ g[1] = 0
    BY <2>1, RatioOf
  <2> QED
    BY <2>1, <2>2 DEF f, g
<1>8. c.costChange = None =>
          \/ \A r \in Range(recs) : r.strategy = c.strategy => r.cost = None
          \/ \A r \in Range(recs) : r.strategy = Baseline => r.cost = None
          \/ Total(Reported(CostsOf(OfStrategy(recs, Baseline)))) = 0
  BY <1>2, <1>3, <1>5, <1>7
<1> QED
  BY <1>6, <1>8 DEF ComparisonAgrees

-----------------------------------------------------------------------------
(***************************************************************************)
(* What has been loaded are records, and the baseline is among them.       *)
(***************************************************************************)
LoadedInv ==
    stage = "analysed" =>
        /\ records \in Seq(Range(records))
        /\ AreRecords(Range(records))
        /\ ~BaselineMissing(Summaries(records))

(***************************************************************************)
(* The record of a run is one that can be analysed.                        *)
(***************************************************************************)
LEMMA RecordOfRun ==
    ASSUME NEW its \in Seq(ModelCalls), NEW passed \in BOOLEAN,
           NEW task \in Range(Tasks), NEW strategy \in Range(Strategies),
           NEW wall \in WallTimes
    PROVE  IsRunRecord(FromResult(task, strategy, passed, wall, its))
<1> DEFINE r == FromResult(task, strategy, passed, wall, its)
           n == Len(its)
           costs == [i \in DOMAIN its |-> IF its[i].usage = None THEN None
                                          ELSE its[i].usage.cost]
<1>1. n \in Nat /\ DOMAIN its = 1..n /\ \A i \in 1..n : its[i] \in ModelCalls
  BY LenProperties, ElementOfSeq
<1>2. /\ r.task = task /\ r.strategy = strategy /\ r.passed = passed
      /\ r.wall = wall /\ r.cost = TotalReported(costs)
  BY DEF FromResult, Field, UsageOf
<1>3. costs \in [1..n -> Int \cup {None}]
  <2>1. ASSUME NEW i \in 1..n, its[i].usage # None
        PROVE  its[i].usage.cost \in Int \cup {None}
    BY <1>1, <2>1 DEF ModelCalls, UsageType
  <2> QED
    BY <1>1, <2>1
<1>4. r.cost \in Int \cup {None}
  <2> DEFINE zero == [i \in 1..n |-> OrZero(costs[i])]
  <2> HIDE DEF costs, r
  <2>1. /\ zero \in [1..n -> Int]
        /\ TotalReported(costs) = IF \A i \in 1..n : costs[i] = None THEN None
                                  ELSE Total(zero)
    BY <1>1, <1>3, ReportedTotals
  <2>2. Total(zero) \in Int
    <3> HIDE DEF zero
    <3> QED
      BY <1>1, <2>1, PartialSums
  <2> QED
    BY <1>2, <2>1, <2>2
<1> HIDE DEF r
<1>5. IsRunRecord(r)
  BY <1>2, <1>4, MetricsAssumption DEF IsRunRecord
<1> QED
  BY <1>5 DEF r

(***************************************************************************)
(* load_run_records and the check of compare_strategies.                   *)
(***************************************************************************)
LEMMA AnalysingLoads ==
    ASSUME CallInv, Analysing
    PROVE  LoadedInv'
<1> SUFFICES ASSUME stage' = "analysed"
             PROVE  /\ records' \in Seq(Range(records'))
                    /\ AreRecords(Range(records'))
                    /\ ~BaselineMissing(Summaries(records'))
  BY DEF LoadedInv
<1> DEFINE All(lines, place) == SubSeq(lines, 1, place) \o <<record>> \o
                                SubSeq(lines, place + 1, Len(lines))
<1>1. PICK lines \in OtherLines : \E place \in 0..Len(lines) :
          /\ Torn \notin Range(All(lines, place))
          /\ records' = Among(All(lines, place),
                              Range(All(lines, place)) \ {BlankText})
          /\ ~BaselineMissing(Summaries(records'))
  BY DEF Analysing
<1>2. PICK place \in 0..Len(lines) :
          /\ Torn \notin Range(All(lines, place))
          /\ records' = Among(All(lines, place),
                              Range(All(lines, place)) \ {BlankText})
          /\ ~BaselineMissing(Summaries(records'))
  BY <1>1
<1> DEFINE U == Range(lines) \cup {record}
           all == All(lines, place)
           S == Range(all) \ {BlankText}
<1>3. all \in Seq(U)
  <2>1. lines \in Seq(U)
    <3>1. lines \in Seq(Range(lines))
      BY MetricsAssumption
    <3>2. Len(lines) \in Nat /\ lines \in [1..Len(lines) -> Range(lines)]
      BY <3>1, LenProperties
    <3>3. lines \in [1..Len(lines) -> U]
      BY <3>2
    <3> HIDE DEF U
    <3> QED
      BY <3>2, <3>3, SeqDef
  <2>2. record \in U
    OBVIOUS
  <2> HIDE DEF U
  <2>3. Len(lines) \in Nat /\ place \in Nat /\ place <= Len(lines)
    BY <2>1, LenProperties
  <2>4. /\ SubSeq(lines, 1, place) \in Seq(U)
        /\ SubSeq(lines, place + 1, Len(lines)) \in Seq(U)
    <3>1. \A i \in 1..place : lines[i] \in U
      BY <2>1, <2>3, ElementOfSeq
    <3>2. \A i \in (place + 1)..Len(lines) : lines[i] \in U
      BY <2>1, <2>3, ElementOfSeq
    <3> QED
      BY <2>1, <2>3, <3>1, <3>2, SubSeqProperties
  <2>5. <<record>> \in Seq(U)
    BY <2>2
  <2> DEFINE one == <<record>>
             first == SubSeq(lines, 1, place)
             rest == SubSeq(lines, place + 1, Len(lines))
  <2> HIDE DEF one, first, rest
  <2>6. first \in Seq(U) /\ one \in Seq(U) /\ rest \in Seq(U)
    BY <2>4, <2>5 DEF one, first, rest
  <2>7. first \o one \o rest \in Seq(U)
    BY <2>6, ConcatProperties
  <2> QED
    BY <2>7 DEF one, first, rest
<1> HIDE DEF U, All
<1>4. records' \in Seq(U) /\ Range(records') = Range(all) \cap S
  <2> HIDE DEF all, S
  <2>1. /\ Among(all, S) \in Seq(U)
        /\ Range(Among(all, S)) = Range(all) \cap S
    BY <1>3, AmongIsRestriction
  <2> QED
    BY <1>2, <2>1 DEF all, S
<1>5. IsRunRecord(record)
  <2>1. stage = "recorded" /\ calls \in Seq(ModelCalls)
    BY DEF Analysing, CallInv
  <2>2. PICK task \in Range(Tasks), strategy \in Range(Strategies),
               wall \in WallTimes, passed \in BOOLEAN :
            record = FromResult(task, strategy, passed, wall, calls)
    BY <2>1 DEF CallInv
  <2> QED
    BY <2>1, <2>2, RecordOfRun
<1>6. Range(all) \subseteq U
  <2> HIDE DEF all
  <2> QED
    BY <1>3, LenProperties, ElementOfSeq DEF Range
<1>7. AreRecords(Range(records'))
  <2> SUFFICES ASSUME NEW l \in Range(records') PROVE IsRunRecord(l)
    BY DEF AreRecords
  <2>1. l \in Range(all) /\ l # BlankText /\ l # Torn
    BY <1>2, <1>4
  <2>2. l \in Range(lines) \/ l = record
    BY <1>6, <2>1 DEF U
  <2>3. l \in Range(lines) => l \in Range(lines) \ {BlankText, Torn}
    BY <2>1
  <2> QED
    BY <1>5, <2>2, <2>3, MetricsAssumption
<1>8. records' \in Seq(Range(records'))
  <2> DEFINE loaded == records'
  <2>1. loaded \in Seq(U)
    BY <1>4
  <2> HIDE DEF loaded
  <2>2. /\ Len(loaded) \in Nat /\ DOMAIN loaded = 1..Len(loaded)
        /\ loaded \in [1..Len(loaded) -> U]
    BY <2>1, LenProperties
  <2>3. loaded \in [1..Len(loaded) -> Range(loaded)]
    BY <2>2 DEF Range
  <2>4. loaded \in Seq(Range(loaded))
    BY <2>2, <2>3, SeqDef
  <2> QED
    BY <2>4 DEF loaded
<1> QED
  BY <1>2, <1>7, <1>8

(***************************************************************************)
(* The three columns, and the comparisons.                                 *)
(***************************************************************************)
LEMMA LoadedAgrees ==
    ASSUME LoadedInv
    PROVE  AnalysisAgrees
<1> SUFFICES ASSUME stage = "analysed"
             PROVE  /\ AddsUp(LAMBDA x : x.runs)
                    /\ AddsUp(LAMBDA x : x.passed)
                    /\ AddsUp(LAMBDA x : x.cost)
                    /\ \A c \in Range(CompareStrategies(Summaries(records))) :
                           LET up == c.speedup
                               change == c.wallChange
                           IN  /\ up # None /\ change # None =>
                                      (100 * change[2] + change[1]) * up[1]
                                          = 100 * change[2] * up[2]
                               /\ c.costChange = None =>
                                      \/ ~CostKnown(c.strategy)
                                      \/ ~CostKnown(Baseline)
                                      \/ Total(Reported(Field(
                                             OfStrategy(records, Baseline),
                                             LAMBDA r : r.cost))) = 0
  BY DEF AnalysisAgrees
<1> DEFINE R == Range(records)
<1>1. /\ records \in Seq(R) /\ AreRecords(R)
      /\ ~BaselineMissing(Summaries(records))
  BY DEF LoadedInv
<1>2. \A s \in Range(Strategies), c \in Columns :
          Column(Summaries(records), s, c)
              = Total([i \in DOMAIN Tasks |->
                          IF Tasks[i] \in TasksOf(records)
                          THEN Column(Summaries(OfTask(records, Tasks[i])), s, c)
                          ELSE 0])
  <2> HIDE DEF R
  <2> QED
    BY <1>1, ColumnsAddUp
<1>3. \A sums, s :
          /\ OfSummary(sums, s, LAMBDA x : x.runs) = Column(sums, s, "runs")
          /\ OfSummary(sums, s, LAMBDA x : x.passed) = Column(sums, s, "passed")
          /\ OfSummary(sums, s, LAMBDA x : x.cost) = Column(sums, s, "cost")
  BY DEF OfSummary, Column, Field
<1>4. /\ DOMAIN SummariesByTask(records) = TasksOf(records)
      /\ \A t \in TasksOf(records) :
             SummariesByTask(records)[t] = Summaries(OfTask(records, t))
  BY DEF SummariesByTask, TasksOf
<1>5. \A s, c : [i \in DOMAIN Tasks |->
                    IF Tasks[i] \in DOMAIN SummariesByTask(records)
                    THEN Column(SummariesByTask(records)[Tasks[i]], s, c)
                    ELSE 0]
                = [i \in DOMAIN Tasks |->
                      IF Tasks[i] \in TasksOf(records)
                      THEN Column(Summaries(OfTask(records, Tasks[i])), s, c)
                      ELSE 0]
  BY <1>4
<1>6. AddsUp(LAMBDA x : x.runs)
  <2>1. "runs" \in Columns
    BY DEF Columns
  <2> QED
    BY <1>2, <1>3, <1>5, <2>1 DEF AddsUp, Field
<1>7. AddsUp(LAMBDA x : x.passed)
  <2>1. "passed" \in Columns
    BY DEF Columns
  <2> QED
    BY <1>2, <1>3, <1>5, <2>1 DEF AddsUp, Field
<1>8. AddsUp(LAMBDA x : x.cost)
  <2>1. "cost" \in Columns
    BY DEF Columns
  <2> QED
    BY <1>2, <1>3, <1>5, <2>1 DEF AddsUp, Field
<1>9. \A c \in Range(CompareStrategies(Summaries(records))) :
          ComparisonAgrees(records, c)
  <2> HIDE DEF R
  <2> QED
    BY <1>1, ComparisonsAgree
<1>10. Field(OfStrategy(records, Baseline), LAMBDA r : r.cost)
           = CostsOf(OfStrategy(records, Baseline))
  BY DEF Field, CostsOf
<1> QED
  BY <1>6, <1>7, <1>8, <1>9, <1>10 DEF ComparisonAgrees, CostKnown

(***************************************************************************)
(* What analyze prints agrees with itself, for every log of records: the   *)
(* summaries by task add up to those by strategy, and the two views of a   *)
(* comparison are views of one ratio.                                      *)
(***************************************************************************)
THEOREM SummariesAgree == TelemetrySpec => []AnalysisAgrees
<1>1. TelemetryInit => LoadedInv
  BY DEF TelemetryInit, LoadedInv
<1>2. CallInv /\ LoadedInv /\ [TelemetryNext]_runVars => LoadedInv'
  <2> SUFFICES ASSUME CallInv, LoadedInv, [TelemetryNext]_runVars
               PROVE  LoadedInv'
    OBVIOUS
  <2>1. CASE Analysing
    BY <2>1, AnalysingLoads
  <2>2. CASE Recording \/ RunAborts
    BY <2>2 DEF Recording, RunAborts, LoadedInv
  <2>3. CASE Streaming \/ NothingLeft \/ UNCHANGED runVars
    BY <2>3 DEF Streaming, NothingLeft, runVars, telemetryVars, LoadedInv
  <2> QED
    BY <2>1, <2>2, <2>3 DEF TelemetryNext
<1> QED
  BY <1>1, <1>2, TimesAreKept, LoadedAgrees, PTL DEF TelemetrySpec
=============================================================================
