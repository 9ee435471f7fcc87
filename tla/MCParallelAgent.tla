-------------------------- MODULE MCParallelAgent --------------------------
(***************************************************************************)
(* Instances of ParallelAgent for TLC.  The plans are the shapes that      *)
(* differ for the scheduler: alone, independent, chained, a fork, a join,  *)
(* and a join whose prerequisites are themselves in different layers.      *)
(***************************************************************************)
EXTENDS ParallelAgent

CONSTANTS a, b, c, lib, main, readme, x, y

Subtask(s, deps) == [id |-> s, deps |-> deps]

MCPlans ==
    { <<Subtask(a, {})>>,
      <<Subtask(b, {}), Subtask(a, {})>>,
      <<Subtask(a, {b}), Subtask(b, {})>>,
      <<Subtask(a, {}), Subtask(b, {}), Subtask(c, {})>>,
      <<Subtask(a, {}), Subtask(b, {a}), Subtask(c, {a})>>,
      <<Subtask(c, {a, b}), Subtask(b, {}), Subtask(a, {})>>,
      <<Subtask(a, {}), Subtask(b, {a}), Subtask(c, {a, b})>>,
      <<Subtask(a, {b}), Subtask(b, {a})>>,
      <<Subtask(a, {}), Subtask(a, {})>> }

(***************************************************************************)
(* A directory with a file in it, and a file beside it: work on different  *)
(* files, on the same one, and a file in the place of the directory.       *)
(***************************************************************************)
MCAbove == [p \in Path |-> IF p = main THEN {lib} ELSE {}]

MCRank ==
    [p \in Path |-> CASE p = lib -> 1 [] p = main -> 2 [] p = readme -> 3]

TreeOf(l, m, r) ==
    [p \in Path |-> CASE p = lib -> l [] p = main -> m [] p = readme -> r]

MCInitial == {TreeOf(Directory, x, Missing), TreeOf(Missing, Missing, x)}

MCTrees ==
    { TreeOf(Directory, x, Missing),
      TreeOf(Directory, y, Missing),
      TreeOf(Directory, x, x),
      TreeOf(Directory, y, y),
      TreeOf(Missing, Missing, x),
      TreeOf(x, Missing, Missing) }
=============================================================================
