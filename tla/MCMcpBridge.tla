------------------------------ MODULE MCMcpBridge ------------------------------
(* nomos-mcp by itself, for what it takes as the answer to an evaluation. *)
EXTENDS McpBridge

Evaluations == [kind : {"evaluate"}, hasId : {TRUE}]
================================================================================
