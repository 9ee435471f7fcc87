------------------------- MODULE MCSequentialAgent -------------------------
(***************************************************************************)
(* Instance of SequentialAgent for TLC: plans listed in and out of order,  *)
(* and one with a cycle.                                                   *)
(***************************************************************************)
EXTENDS SequentialAgent

CONSTANTS a, b, c

Subtask(s, deps) == [id |-> s, deps |-> deps]

MCPlans ==
    { <<Subtask(a, {})>>,
      <<Subtask(a, {b}), Subtask(b, {})>>,
      <<Subtask(a, {}), Subtask(b, {}), Subtask(c, {})>>,
      <<Subtask(b, {a}), Subtask(a, {}), Subtask(c, {a})>>,
      <<Subtask(c, {a, b}), Subtask(b, {}), Subtask(a, {})>>,
      <<Subtask(a, {}), Subtask(b, {a}), Subtask(c, {a, b})>>,
      <<Subtask(a, {b}), Subtask(b, {a})>> }
=============================================================================
