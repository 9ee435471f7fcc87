-------------------------- MODULE MCAgentWorkspace --------------------------
(***************************************************************************)
(* An instance of AgentWorkspace for TLC: one file of the agent's, one of  *)
(* the task's tests, one that the commands may add to them, and a path     *)
(* that is outside or ignored.  The texts have overlapping occurrences,    *)
(* line endings of both kinds, a last line that is not ended, and none at  *)
(* all.                                                                    *)
(***************************************************************************)
EXTENDS AgentWorkspace

CONSTANTS code, test, added, outside

MCPiece == {"a", "b", "t", LF, CRLF}

MCSource ==
    {(code :> <<"a", CRLF, "b", CRLF>>) @@ (test :> <<"t">>) @@
     (added :> Missing)}

MCWriteTexts == { << >>, <<"a", "a", "a">> }

MCSearches == { << >>, <<"a">>, <<"a", "a">>, <<LF>> }

MCReplacements == { << >>, <<"b", "a">> }

MCProcessTexts == { <<"a", LF, LF, "a">>, Missing }
=============================================================================
