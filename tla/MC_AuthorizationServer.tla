----------------------- MODULE MC_AuthorizationServer ------------------------
(* The authorization server for two concurrent requests. *)
EXTENDS AuthorizationServer, TLC

CONSTANTS t1, t2, b1, b2

\* Requests are alike, and so are the targets.
Symmetric == Permutations({t1, t2}) \union Permutations({b1, b2})
=============================================================================
