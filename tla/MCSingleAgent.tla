--------------------------- MODULE MCSingleAgent ---------------------------
(***************************************************************************)
(* Instance of SingleAgent for TLC: three steps, so that a step lies       *)
(* between the first and the forced last one, at most two tool calls in a  *)
(* message, and a provider that sends its own call id or none.             *)
(***************************************************************************)
EXTENDS SingleAgent

CONSTANTS hello, bye, id1
=============================================================================
