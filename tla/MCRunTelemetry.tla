--------------------------- MODULE MCRunTelemetry ---------------------------
(***************************************************************************)
(* An instance of RunTelemetry for TLC: deltas of two tool calls that may  *)
(* come in any order, usage before, with and after output, and calls and   *)
(* records with and without each value.                                    *)
(***************************************************************************)
EXTENDS RunTelemetry

CONSTANTS f, g, x, y, id1, id2, stop

Usage(input, output, cost) ==
    [input |-> input, output |-> output, cost |-> cost]

First == Delta(0, id1, <<f>>, <<x>>)
Second == Delta(1, id2, <<g>>, << >>)
MoreOfFirst == Delta(0, None, << >>, <<y>>)
MoreOfSecond == Delta(1, None, << >>, <<x, y>>)

MCEvents ==
    { Event(FALSE, None, Choice(<<x>>, << >>, << >>, None)),
      Event(FALSE, None, Choice(<< >>, << >>, <<First>>, None)),
      Event(FALSE, None, Choice(<< >>, <<y>>, <<Second, MoreOfFirst>>, None)),
      Event(FALSE, Usage(1, 2, None),
            Choice(<< >>, << >>, <<MoreOfSecond>>, stop)),
      Event(FALSE, Usage(3, 1, 2), None),
      Event(TRUE, None, None) }

MCTasks == <<"ttl-cache", "pagination">>

MCStrategies == <<"single", "parallel">>

Call(ttft, duration, intervals, used) ==
    [ttft |-> ttft, duration |-> duration, intervals |-> intervals,
     latency |-> 3, usage |-> used]

MCCallsBeside ==
    { << >>,
      <<Call(1, 2, <<1, 1>>, Usage(1, 3, 1)), Call(None, None, << >>, None)>> }

Other(task, strategy, passed, wall, its) ==
    FromResult(MCTasks[task], strategy, passed, wall, its)

MCOtherLines ==
    LET free == Other(1, "parallel", TRUE, 2, << >>)
        slow == Other(2, "parallel", FALSE, 3,
                      <<Call(1, 1, <<1>>, Usage(2, 2, 3))>>)
        instant == Other(1, "parallel", TRUE, 0, <<Call(0, 0, << >>, None)>>)
        base == Other(2, "single", FALSE, 1,
                      <<Call(0, 2, <<2>>, Usage(4, 4, 0))>>)
    IN  { << >>, <<Torn>>, <<slow, BlankText, slow>>, <<free, slow, base>>,
          <<instant, base>> }
=============================================================================
