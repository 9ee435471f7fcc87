---------------------------- MODULE ModelStream ----------------------------
(***************************************************************************)
(* One request of OpenRouterClient (llm/openrouter.py): the lines of the   *)
(* event stream, the events they carry and the message put together from   *)
(* them.  The provider sends a line at a time, may frame an event in one   *)
(* data line or in two, puts comments and other fields in between, and may *)
(* stop anywhere.  Texts are sequences of pieces; JSON is what parses when *)
(* all lines of an event, and no others, are joined.                       *)
(***************************************************************************)
EXTENDS Integers, Sequences, SequencesExt

CONSTANTS
    Piece,      \* what texts are made of
    Label,      \* ids of tool calls, reasons of the end
    Events,     \* events the provider may send, their usage as _parse_usage
                \* reads it
    None,       \* a field that is not there
    MaxEvents   \* bound: events in a stream, [DONE] not counted

(***************************************************************************)
(* The data line [DONE].                                                   *)
(***************************************************************************)
Done == [done |-> TRUE]

(***************************************************************************)
(* The choice of an event is None or holds a piece of content, a piece of  *)
(* reasoning, deltas of tool calls and the reason of the end.  An absent   *)
(* index of a delta is 0.                                                  *)
(***************************************************************************)
Delta(index, id, name, arguments) ==
    [index |-> index, id |-> id, name |-> name, arguments |-> arguments]

Choice(content, reasoning, deltas, finish) ==
    [content |-> content, reasoning |-> reasoning, deltas |-> deltas,
     finish |-> finish]

Event(error, usage, choice) ==
    [error |-> error, usage |-> usage, choice |-> choice]

DeltaType ==
    [index : Int, id : Label \cup {None},
     name : Seq(Piece), arguments : Seq(Piece)]

ChoiceType ==
    [content : Seq(Piece), reasoning : Seq(Piece), deltas : Seq(DeltaType),
     finish : Label \cup {None}]

UsageType == [input : Int, output : Int, cost : Int \cup {None}]

ASSUME StreamAssumption ==
    /\ Events \subseteq [error : BOOLEAN, usage : UsageType \cup {None},
                         choice : ChoiceType \cup {None}]
    /\ None \notin Label \cup UsageType \cup ChoiceType \cup Int

VARIABLES
    client,     \* "reading", "returned", "failed" (OpenRouterError), "raised"
    data,       \* data_lines
    events,     \* events parsed so far; raw_event_count is their number
    content, reasoning, buffers, finish, usage, stamps,
    now,        \* the clock; the request starts at 0
    open,       \* the provider: whether it may send more,
    sent,       \*   the events sent completely
    partial     \*   and the lines sent of the next one

messageVars == <<content, reasoning, buffers, finish, usage, stamps>>

providerVars == <<open, sent, partial>>

streamVars == <<client, data, events, messageVars, now, providerVars>>

NoBuffers == [i \in {} |-> None]

StreamInit ==
    /\ client = "reading"
    /\ data = << >>
    /\ events = << >>
    /\ content = << >> /\ reasoning = << >> /\ buffers = NoBuffers
    /\ finish = None /\ usage = None /\ stamps = << >>
    /\ now = 0
    /\ open = TRUE /\ sent = << >> /\ partial = << >>

-----------------------------------------------------------------------------
(***************************************************************************)
(* _apply_tool_call_deltas.  Mutated form: the arguments replace those     *)
(* that came before.                                                       *)
(***************************************************************************)
BufferOf(calls, i) ==
    IF i \in DOMAIN calls THEN calls[i]
    ELSE [id |-> None, name |-> << >>, arguments |-> << >>]

Store(calls, i, buffer) ==
    [j \in DOMAIN calls \cup {i} |-> IF j = i THEN buffer ELSE calls[j]]

ApplyDeltaAnew(calls, d) ==
    LET b == BufferOf(calls, d.index)
    IN  Store(calls, d.index,
              [id |-> IF d.id = None THEN b.id ELSE d.id,
               name |-> b.name \o d.name,
               arguments |-> IF d.arguments = << >>
                             THEN b.arguments ELSE d.arguments])

ApplyDelta(calls, d) ==
    LET b == BufferOf(calls, d.index)
    IN  Store(calls, d.index,
              [id |-> IF d.id = None THEN b.id ELSE d.id,
               name |-> b.name \o d.name,
               arguments |-> b.arguments \o d.arguments])

ApplyDeltas(calls, deltas) == FoldLeft(ApplyDelta, calls, deltas)

-----------------------------------------------------------------------------
(***************************************************************************)
(* One event of _stream.  Only output that means something is timed.       *)
(***************************************************************************)
Meaningful(choice) ==
    \/ choice.content # << >>
    \/ choice.reasoning # << >>
    \/ choice.deltas # << >>

TimeMayPass == now' \in {now, now + 1}

TakeUsage(e) == usage' = IF e.usage = None THEN usage ELSE e.usage

TakeChoice(choice) ==
    /\ finish' = IF choice.finish = None THEN finish ELSE choice.finish
    /\ content' = content \o choice.content
    /\ reasoning' = reasoning \o choice.reasoning
    /\ buffers' = ApplyDeltas(buffers, choice.deltas)
    /\ IF Meaningful(choice)
       THEN TimeMayPass /\ stamps' = Append(stamps, now')
       ELSE UNCHANGED <<now, stamps>>

Take(e) ==
    /\ events' = Append(events, e)
    /\ IF e.error
       THEN client' = "failed" /\ UNCHANGED <<messageVars, now>>
       ELSE /\ TakeUsage(e)
            /\ IF e.choice = None
               THEN UNCHANGED <<finish, content, reasoning, buffers, stamps,
                                now>>
               ELSE TakeChoice(e.choice)
            /\ UNCHANGED client

ReturnMessage ==
    /\ client' = "returned"
    /\ TimeMayPass
    /\ UNCHANGED <<events, messageVars>>

Stop(how) ==
    /\ client' = how
    /\ UNCHANGED <<events, messageVars, now>>

(***************************************************************************)
(* The lines of an event, in one piece or in two; what parses as JSON.     *)
(***************************************************************************)
Framings(e) ==
    {<< <<e, 1, 1>> >>} \cup
    (IF e = Done THEN {} ELSE {<< <<e, 1, 2>>, <<e, 2, 2>> >>})

Parses(lines) == lines \in Framings(lines[1][1])

Handle(lines) ==
    IF ~Parses(lines) THEN Stop("failed")
    ELSE IF lines[1][1] = Done THEN ReturnMessage
    ELSE Take(lines[1][1])

-----------------------------------------------------------------------------
(***************************************************************************)
(* _iter_sse_data, line by line: data lines are kept, a blank line hands   *)
(* over what was kept, comments and other fields are skipped.             *)
(***************************************************************************)
Reading == client = "reading"

Complete(lines) == lines # << >> /\ Parses(lines)

DataLine ==
    /\ Reading /\ open
    /\ ~Complete(partial)
    /\ \E e \in Events \cup {Done} : \E lines \in Framings(e) :
           /\ e = Done \/ Len(sent) < MaxEvents
           /\ IsStrictPrefix(partial, lines)
           /\ partial' = Append(partial, lines[Len(partial) + 1])
           /\ data' = Append(data, lines[Len(partial) + 1])
    /\ UNCHANGED <<client, events, messageVars, now, open, sent>>

(***************************************************************************)
(* The event is complete, for the provider and for the client.             *)
(***************************************************************************)
HandOver ==
    /\ sent' = IF Complete(partial) THEN Append(sent, partial[1][1]) ELSE sent
    /\ partial' = << >>
    /\ data' = << >>
    /\ IF data = << >>
       THEN UNCHANGED <<client, events, messageVars, now>>
       ELSE Handle(data)

BlankLine ==
    /\ Reading /\ open
    /\ Complete(partial)
    /\ HandOver
    /\ UNCHANGED open

(***************************************************************************)
(* A comment, another field, or a blank line between two events.  Mutated  *)
(* form: it ends the event.                                                *)
(***************************************************************************)
SkippedEndsEvent(lines) == << >>

AfterSkipped(lines) == lines

SkippedLine ==
    /\ Reading /\ open
    /\ data' = AfterSkipped(data)
    /\ UNCHANGED <<client, events, messageVars, now, providerVars>>

(***************************************************************************)
(* The stream ends: what was kept is handed over as the last event, and    *)
(* the message returned without a [DONE] too.                              *)
(***************************************************************************)
ConnectionCloses ==
    /\ Reading /\ open
    /\ open' = FALSE
    /\ UNCHANGED <<client, data, events, messageVars, now, sent, partial>>

LastEvent ==
    /\ Reading /\ ~open
    /\ data # << >>
    /\ HandOver
    /\ UNCHANGED open

ReturnAtEnd ==
    /\ Reading /\ ~open
    /\ data = << >>
    /\ ReturnMessage
    /\ UNCHANGED <<data, providerVars>>

(***************************************************************************)
(* An HTTP status of 400 or more; an exception of the transport.           *)
(***************************************************************************)
HttpError ==
    /\ Reading /\ open /\ sent = << >> /\ partial = << >>
    /\ Stop("failed")
    /\ UNCHANGED <<data, providerVars>>

TransportRaises ==
    /\ Reading
    /\ Stop("raised")
    /\ UNCHANGED <<data, providerVars>>

StreamNext ==
    \/ DataLine \/ BlankLine \/ SkippedLine
    \/ ConnectionCloses \/ LastEvent \/ ReturnAtEnd
    \/ HttpError \/ TransportRaises

-----------------------------------------------------------------------------
(***************************************************************************)
(* The properties of ChatCompletionResult that the metrics are made of.    *)
(***************************************************************************)
Ttft == IF stamps = << >> THEN None ELSE Head(stamps)

GenerationDuration ==
    IF stamps = << >> THEN None ELSE Last(stamps) - Head(stamps)

Intervals == [i \in 1..(Len(stamps) - 1) |-> stamps[i + 1] - stamps[i]]

CallResult ==
    [ttft |-> Ttft, duration |-> GenerationDuration, intervals |-> Intervals,
     latency |-> now, usage |-> usage]

-----------------------------------------------------------------------------
(***************************************************************************)
(* However the provider frames its events, and wherever the stream is cut, *)
(* the events parsed are those sent, and no message is made of a part of   *)
(* one.                                                                    *)
(***************************************************************************)
Payload == IF sent # << >> /\ Last(sent) = Done THEN Front(sent) ELSE sent

EventsSurviveFraming ==
    /\ client \in {"reading", "returned"} => events = Payload
    /\ client = "returned" => partial = << >>

(***************************************************************************)
(* The message is the one the deltas describe: per index the last id and   *)
(* the names and arguments in order, whatever deltas of other calls lie in *)
(* between and however many an event carries; content and reasoning in     *)
(* order; the last usage.                                                  *)
(***************************************************************************)
Joined(seq, Field(_)) == FlattenSeq([k \in DOMAIN seq |-> Field(seq[k])])

FromChoices(Of(_)) ==
    Joined(events, LAMBDA e : IF e.choice = None THEN << >> ELSE Of(e.choice))

DeltasSent == FromChoices(LAMBDA c : c.deltas)

IdFor(i, deltas) ==
    LET named == {k \in DOMAIN deltas : deltas[k].index = i
                                         /\ deltas[k].id # None}
    IN  IF named = {} THEN None ELSE deltas[Max(named)].id

TextFor(i, deltas, Of(_)) ==
    Joined(deltas, LAMBDA d : IF d.index = i THEN Of(d) ELSE << >>)

CallsDescribed(deltas) ==
    [i \in {deltas[k].index : k \in DOMAIN deltas} |->
        [id |-> IdFor(i, deltas),
         name |-> TextFor(i, deltas, LAMBDA d : d.name),
         arguments |-> TextFor(i, deltas, LAMBDA d : d.arguments)]]

CallsAreAssembled ==
    client = "returned" =>
        /\ buffers = CallsDescribed(DeltasSent)
        /\ content = FromChoices(LAMBDA c : c.content)
        /\ reasoning = FromChoices(LAMBDA c : c.reasoning)
        /\ \A k \in DOMAIN events :
               /\ events[k].usage # None
               /\ \A j \in (k + 1)..Len(events) : events[j].usage = None
               => usage = events[k].usage
=============================================================================
