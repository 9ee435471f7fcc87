---------------------------- MODULE RunTelemetry ----------------------------
(***************************************************************************)
(* From the event stream to the comparison of strategies: a model call is  *)
(* streamed (ModelStream), the run it is part of is recorded, and the      *)
(* record is analysed together with the log's other lines (RunMetrics).    *)
(* The run's other calls and the other lines are inputs.                   *)
(***************************************************************************)
EXTENDS ModelStream

CONSTANTS
    Tasks, Strategies, Baseline,
    CallsBeside,    \* what calls there may be before and after the streamed
    WallTimes,
    OtherLines      \* what the log may hold besides the record

INSTANCE RunMetrics

(***************************************************************************)
(* A call of the client, as it is in model_calls.                          *)
(***************************************************************************)
ModelCalls ==
    [ttft : Nat \cup {None}, duration : Nat \cup {None},
     intervals : Seq(Nat), latency : Nat, usage : UsageType \cup {None}]

(***************************************************************************)
(* What the analysis may rely on in a line of the log that is a record     *)
(* (the fields of RunRecord), and the lines that are none.                 *)
(***************************************************************************)
IsRunRecord(r) ==
    /\ r.task \in Range(Tasks)
    /\ r.strategy \in Range(Strategies)
    /\ r.passed \in BOOLEAN
    /\ r.wall \in Int
    /\ r.cost \in Int \cup {None}

BlankText == [line |-> "blank"]
Torn == [line |-> "torn"]

ASSUME MetricsAssumption ==
    /\ Tasks # << >> /\ Tasks \in Seq(Range(Tasks)) /\ IsInjective(Tasks)
    /\ Strategies \in Seq(Range(Strategies)) /\ IsInjective(Strategies)
    /\ Baseline \in Range(Strategies)
    /\ CallsBeside \subseteq Seq(ModelCalls)
    /\ None \notin Int \X Int
    /\ WallTimes \subseteq Nat
    /\ \A lines \in OtherLines :
           /\ lines \in Seq(Range(lines))
           /\ \A l \in Range(lines) \ {BlankText, Torn} : IsRunRecord(l)

VARIABLES
    stage,      \* "streaming", "recorded", "analysed"; "aborted": no record;
                \* "rejected": the analysis raised a ValueError
    calls,      \* model_calls of the agent's result
    record,     \* the RunRecord made of them
    records     \* what load_run_records returned

telemetryVars == <<stage, calls, record, records>>

runVars == <<streamVars, telemetryVars>>

TelemetryInit ==
    /\ StreamInit
    /\ stage = "streaming"
    /\ calls = << >>
    /\ record = None
    /\ records = << >>

Streaming == stage = "streaming" /\ StreamNext /\ UNCHANGED telemetryVars

(***************************************************************************)
(* Nothing is kept of a stream but its result.                             *)
(***************************************************************************)
ForgetStream ==
    /\ client' = "reading"
    /\ data' = << >> /\ events' = << >>
    /\ content' = << >> /\ reasoning' = << >> /\ buffers' = NoBuffers
    /\ finish' = None /\ usage' = None /\ stamps' = << >>
    /\ now' = 0
    /\ open' = TRUE /\ sent' = << >> /\ partial' = << >>

(***************************************************************************)
(* A call that failed ends the agent and is not in its model_calls.        *)
(***************************************************************************)
Recording ==
    /\ stage = "streaming"
    /\ client \in {"returned", "failed"}
    /\ \E before, after \in CallsBeside :
           calls' = IF client = "failed" THEN before
                    ELSE before \o <<CallResult>> \o after
    /\ \E task \in Range(Tasks), strategy \in Range(Strategies),
          wall \in WallTimes, passed \in BOOLEAN :
           record' = FromResult(task, strategy, passed, wall, calls')
    /\ stage' = "recorded"
    /\ ForgetStream
    /\ UNCHANGED records

RunAborts ==
    /\ stage = "streaming"
    /\ client = "raised"
    /\ stage' = "aborted"
    /\ UNCHANGED <<streamVars, calls, record, records>>

(***************************************************************************)
(* analyze: load_run_records skips blank lines and rejects a log with one  *)
(* that is no record; compare_strategies needs the baseline.               *)
(***************************************************************************)
Analysing ==
    /\ stage = "recorded"
    /\ \E lines \in OtherLines : \E place \in 0..Len(lines) :
           LET all == SubSeq(lines, 1, place) \o <<record>> \o
                      SubSeq(lines, place + 1, Len(lines))
               loaded == Among(all, Range(all) \ {BlankText})
           IN  IF Torn \in Range(all)
               THEN stage' = "rejected" /\ UNCHANGED records
               ELSE /\ records' = loaded
                    /\ stage' = IF BaselineMissing(Summaries(loaded))
                                THEN "rejected" ELSE "analysed"
    /\ UNCHANGED <<streamVars, calls, record>>

NothingLeft ==
    stage \in {"aborted", "analysed", "rejected"} /\ UNCHANGED runVars

TelemetryNext ==
    Streaming \/ Recording \/ RunAborts \/ Analysing \/ NothingLeft

TelemetrySpec == TelemetryInit /\ [][TelemetryNext]_runVars

-----------------------------------------------------------------------------
LessEq(f, g) == f[1] * g[2] <= g[1] * f[2]

(***************************************************************************)
(* The output rate of a run lies between the rates of its calls, if what   *)
(* is divided belongs together: every call that reports usage took time    *)
(* for its output, and the others none.  (A call whose output came in one  *)
(* event counts with its tokens and no time.)                              *)
(***************************************************************************)
RateLiesBetweenItsCalls ==
    /\ stage = "recorded"
    /\ \A i \in DOMAIN calls :
           (calls[i].usage # None) = (Duration(calls[i]) > 0)
    /\ record.rate # None
    =>  LET rates == {CallRate(c) : c \in Range(calls)} \ {None} IN
        /\ \E f \in rates : LessEq(f, record.rate)
        /\ \E f \in rates : LessEq(record.rate, f)

(***************************************************************************)
(* What the analysis prints agrees with itself.  The summaries by task add *)
(* up to those by strategy.  A speed-up and the change of the wall time    *)
(* are two views of one ratio.  A change of the cost is missing only if    *)
(* one side reported none, or the baseline cost nothing.                   *)
(***************************************************************************)
OfSummary(summaries, s, Of(_)) ==
    Total(Reported(Field(Among(summaries,
                               {x \in Range(summaries) : x.strategy = s}), Of)))

AddsUp(Of(_)) ==
    LET byTask == SummariesByTask(records) IN
    \A s \in Range(Strategies) :
        OfSummary(Summaries(records), s, Of) =
            Total(Field(Tasks, LAMBDA t : IF t \in DOMAIN byTask
                                          THEN OfSummary(byTask[t], s, Of)
                                          ELSE 0))

CostKnown(strategy) ==
    \E r \in Range(records) : r.strategy = strategy /\ r.cost # None

AnalysisAgrees ==
    stage = "analysed" =>
        /\ AddsUp(LAMBDA x : x.runs)
        /\ AddsUp(LAMBDA x : x.passed)
        /\ AddsUp(LAMBDA x : x.cost)
        /\ \A c \in Range(CompareStrategies(Summaries(records))) :
               LET up == c.speedup
                   change == c.wallChange
               IN  /\ up # None /\ change # None =>
                          (100 * change[2] + change[1]) * up[1]
                              = 100 * change[2] * up[2]
                   /\ c.costChange = None =>
                          \/ ~CostKnown(c.strategy) \/ ~CostKnown(Baseline)
                          \/ Total(Reported(Field(OfStrategy(records, Baseline),
                                                  LAMBDA r : r.cost))) = 0
=============================================================================
