------------------------- MODULE MCExperimentRuns -------------------------
(***************************************************************************)
(* Instances of ExperimentRuns for TLC: two tasks, two strategies, and     *)
(* enough invocations for one that is killed, one that is refused or       *)
(* overwrites, and one after it.                                           *)
(***************************************************************************)
EXTENDS ExperimentRuns

MCTasks == <<"ttl-cache", "pagination">>

MCStrategies == <<"single", "parallel">>

MCManualRuns == {<<"ttl-cache", "single", 0>>}
=============================================================================
