------------------------- MODULE MCReferenceService -------------------------
(* Instances of ReferenceService for TLC.                                     *)
EXTENDS ReferenceService, TLC

CONSTANTS t1, t2, t3, c1, c2, cli1, cli2, mcp

\* Two CLI commands, or two calls on one MCP service.
MCOwnProcess == c1 :> cli1 @@ c2 :> cli2
MCOneProcess == c1 :> mcp @@ c2 :> mcp
=============================================================================
