------------------------------ MODULE MC_Limits ------------------------------
(***************************************************************************)
(* The bounded tables in memory: request budgets and grants.  They share   *)
(* no state; a step is a step of one of them.                              *)
(***************************************************************************)
EXTENDS RateLimit, MemoryGrants, TLC

CONSTANTS k1, k2, k3

Symmetric == Permutations({k1, k2, k3})

LimitsInit == Init /\ GrantsInit
LimitsNext == (Next /\ UNCHANGED grantVars) \/ (GrantsNext /\ UNCHANGED vars)
LimitsSpec == LimitsInit /\ [][LimitsNext]_<<vars, grantVars>>
=============================================================================
