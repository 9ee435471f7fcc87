------------------------- MODULE MCMergeChangeSets -------------------------
(***************************************************************************)
(* Instance of MergeChangeSets for TLC: a file, a directory and a file     *)
(* beneath it, so that every clash of kinds can arise, and three owners.   *)
(***************************************************************************)
EXTENDS MergeChangeSets

CONSTANTS lib, libX, main, x, y

MCAbove == [p \in Path |-> IF p = libX THEN {lib} ELSE {}]

MCRank == [p \in Path |-> CASE p = lib -> 1 [] p = libX -> 2 [] p = main -> 3]

MCOwner == <<1, 2, 3>>
=============================================================================
