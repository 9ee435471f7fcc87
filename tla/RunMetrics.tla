---------------------------- MODULE RunMetrics ----------------------------
(***************************************************************************)
(* What a run's record says of its model calls (RunRecord.from_result,     *)
(* telemetry/records.py) and what the analysis makes of many records       *)
(* (analysis.py).  Times and costs are natural numbers, averages and rates *)
(* are fractions <<numerator, denominator>>; None is a value that was not  *)
(* reported.                                                               *)
(***************************************************************************)
EXTENDS Integers, Sequences, SequencesExt

CONSTANTS None, Tasks, Strategies, Baseline

(***************************************************************************)
(* The members of a sequence that are in S, in order.                      *)
(***************************************************************************)
Among(seq, S) ==
    FoldLeft(LAMBDA kept, x : IF x \in S THEN Append(kept, x) ELSE kept,
             << >>, seq)

Reported(values) == Among(values, Range(values) \ {None})

Field(seq, Of(_)) == [i \in DOMAIN seq |-> Of(seq[i])]

Total(values) == FoldLeft(LAMBDA sum, v : sum + v, 0, values)

TotalReported(values) ==
    IF \A i \in DOMAIN values : values[i] = None THEN None
    ELSE Total([i \in DOMAIN values |-> IF values[i] = None THEN 0
                                       ELSE values[i]])

(***************************************************************************)
(* fmean of what was reported, None when nothing was (_optional_mean).     *)
(***************************************************************************)
Mean(values) ==
    LET reported == Reported(values)
    IN  IF reported = << >> THEN None
        ELSE <<Total(reported), Len(reported)>>

MeanOfFractions(values) ==
    LET reported == Reported(values)
        sum == FoldLeft(
                   LAMBDA f, g : <<f[1] * g[2] + g[1] * f[2], f[2] * g[2]>>,
                   <<0, 1>>, reported)
    IN  IF reported = << >> THEN None ELSE <<sum[1], sum[2] * Len(reported)>>

-----------------------------------------------------------------------------
(***************************************************************************)
(* Model calls: their usage is None or has input, output and cost, the     *)
(* last of which may be None.  The rate of a call is None when it has no   *)
(* usage or its output took no time.                                       *)
(***************************************************************************)
UsageOf(call, Of(_)) == IF call.usage = None THEN None ELSE Of(call.usage)

Duration(call) == IF call.duration = None THEN 0 ELSE call.duration

Rate(output, duration) ==
    IF output = None \/ duration = 0 THEN None ELSE <<output, duration>>

CallRate(call) == Rate(UsageOf(call, LAMBDA u : u.output), Duration(call))

(***************************************************************************)
(* Mutated form: the time of a record runs from the request to the last    *)
(* output.                                                                 *)
(***************************************************************************)
TimeToLastOutput(calls) ==
    Total(Field(calls, LAMBDA c : IF c.ttft = None THEN 0
                                  ELSE c.ttft + c.duration))

TotalDuration(calls) == Total(Field(calls, LAMBDA c : Duration(c)))

FromResult(task, strategy, passed, wall, calls) ==
    LET Used(Of(_)) == TotalReported(Field(calls, LAMBDA c : UsageOf(c, Of)))
    IN  [task |-> task, strategy |-> strategy, passed |-> passed,
         wall |-> wall,
         calls |-> Len(calls),
         usageReported |-> Len(Reported(Field(calls, LAMBDA c : c.usage))),
         input |-> Used(LAMBDA u : u.input),
         output |-> Used(LAMBDA u : u.output),
         cost |-> Used(LAMBDA u : u.cost),
         latency |-> Total(Field(calls, LAMBDA c : c.latency)),
         firstTtft |-> IF calls = << >> THEN None ELSE calls[1].ttft,
         meanTtft |-> Mean(Field(calls, LAMBDA c : c.ttft)),
         meanInterval |-> Mean(FlattenSeq(Field(calls, LAMBDA c : c.intervals))),
         rate |-> Rate(Used(LAMBDA u : u.output), TotalDuration(calls))]

-----------------------------------------------------------------------------
(***************************************************************************)
(* _summarize_strategy.  The median is of the run times in order.          *)
(***************************************************************************)
Median(values) ==
    LET s == SortSeq(values, <)
        n == Len(s)
    IN  <<s[(n + 1) \div 2] + s[n \div 2 + 1], 2>>

SummarizeStrategy(strategy, records) ==
    [strategy |-> strategy,
     runs |-> Len(records),
     passed |-> Len(Among(records, {r \in Range(records) : r.passed})),
     wall |-> Mean(Field(records, LAMBDA r : r.wall)),
     medianWall |-> Median(Field(records, LAMBDA r : r.wall)),
     ttft |-> MeanOfFractions(Field(records, LAMBDA r : r.meanTtft)),
     rate |-> MeanOfFractions(Field(records, LAMBDA r : r.rate)),
     calls |-> Mean(Field(records, LAMBDA r : r.calls)),
     input |-> Mean(Field(records, LAMBDA r : r.input)),
     output |-> Mean(Field(records, LAMBDA r : r.output)),
     cost |-> TotalReported(Field(records, LAMBDA r : r.cost))]

OfStrategy(records, s) == Among(records, {r \in Range(records) : r.strategy = s})

(***************************************************************************)
(* Mutated form: the task is not looked at.                                *)
(***************************************************************************)
OfEveryTask(records, t) == records

OfTask(records, t) == Among(records, {r \in Range(records) : r.task = t})

(***************************************************************************)
(* summarize_records and summarize_records_by_task: only groups that have  *)
(* records, in the order of the strategies.                                *)
(***************************************************************************)
Summaries(records) ==
    LET present == Among(Strategies, {r.strategy : r \in Range(records)})
    IN  [i \in DOMAIN present |->
            SummarizeStrategy(present[i], OfStrategy(records, present[i]))]

SummariesByTask(records) ==
    [t \in {r.task : r \in Range(records)} |-> Summaries(OfTask(records, t))]

-----------------------------------------------------------------------------
(***************************************************************************)
(* _compare_summary: fractions of the candidate against the baseline, None *)
(* where one is missing or the divisor is zero.                            *)
(***************************************************************************)
CostPerRun(summary) ==
    IF summary.cost = None THEN None ELSE <<summary.cost, summary.runs>>

SafeRatio(f, g) ==
    IF f = None \/ g = None THEN None
    ELSE IF g[1] = 0 THEN None
    ELSE <<f[1] * g[2], f[2] * g[1]>>

PercentChange(value, baseline) ==
    LET ratio == SafeRatio(value, baseline)
    IN  IF ratio = None THEN None
        ELSE <<100 * (ratio[1] - ratio[2]), ratio[2]>>

Compare(base, candidate) ==
    [strategy |-> candidate.strategy,
     speedup |-> SafeRatio(base.wall, candidate.wall),
     wallChange |-> PercentChange(candidate.wall, base.wall),
     passChange |->
        <<100 * (candidate.passed * base.runs - base.passed * candidate.runs),
          base.runs * candidate.runs>>,
     inputChange |-> PercentChange(candidate.input, base.input),
     outputChange |-> PercentChange(candidate.output, base.output),
     costChange |-> PercentChange(CostPerRun(candidate), CostPerRun(base))]

BaselineMissing(summaries) ==
    \A i \in DOMAIN summaries : summaries[i].strategy # Baseline

(***************************************************************************)
(* compare_strategies, when the baseline is there.                         *)
(***************************************************************************)
CompareStrategies(summaries) ==
    LET base == CHOOSE s \in Range(summaries) : s.strategy = Baseline
        others == Among(summaries,
                        {s \in Range(summaries) : s.strategy # Baseline})
    IN  [i \in DOMAIN others |-> Compare(base, others[i])]
=============================================================================
