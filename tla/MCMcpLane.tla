----------------------------- MODULE MCMcpLane -----------------------------
(* Instances of McpLane for TLC. *)
EXTENDS McpLane

CONSTANTS j1, j2, r1, r2

BothDoors == (j1 :> "mcp") @@ (j2 :> "follow")
RestOnly == (j1 :> "follow") @@ (j2 :> "follow")
McpOnly == j1 :> "mcp"
OneCallEach == (r1 :> j1) @@ (r2 :> j2)
CallOfFirst == r1 :> j1
=============================================================================
