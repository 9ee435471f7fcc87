--------------------------- MODULE MCTaskPlanner ---------------------------
(***************************************************************************)
(* Instance of TaskPlanner for TLC: every raw plan of at most two entries  *)
(* over three identifiers (duplicates and unknown dependencies included),  *)
(* every dependency graph over three identifiers, every one over four      *)
(* without a self-dependency, cyclic or not, and one plan with more        *)
(* entries than the schema admits.                                         *)
(***************************************************************************)
EXTENDS TaskPlanner

CONSTANTS a, b, c, d, e

MCIdent == {a, b, c, d, e}

Graphs(order) ==
    {[i \in DOMAIN order |-> [id |-> order[i], deps |-> edges[i]]] :
        edges \in [DOMAIN order -> SUBSET {order[i] : i \in DOMAIN order}]}

MCPlans ==
    UNION {[1..n -> SubtaskSpec({a, b, c})] : n \in 0..2}
        \cup Graphs(<<a, b, c>>)
        \cup {g \in Graphs(<<b, a, d, c>>) : NoSelfDependency(g)}
        \cup {[i \in 1..5 |-> [id |-> <<a, b, c, d, e>>[i], deps |-> {}]]}
=============================================================================
