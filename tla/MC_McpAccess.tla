---------------------------- MODULE MC_McpAccess -----------------------------
(* The MCP endpoint's access checks for two concurrent requests. *)
EXTENDS McpAccess, TLC

CONSTANTS p1, p2, s1, s2, s3

\* Principals are alike, and so are sessions.
Symmetric == Permutations({p1, p2}) \union Permutations({s1, s2, s3})
=============================================================================
