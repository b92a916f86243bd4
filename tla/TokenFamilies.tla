----------------------------- MODULE TokenFamilies -----------------------------
(***************************************************************************)
(* What the authorization server promises of access that can be renewed,   *)
(* with no store, no requests under way and nothing left over: a family    *)
(* begins, is continued with one token at a time, each exchanged for the   *)
(* next and none twice, and ends for good with whatever token it had.      *)
(*                                                                         *)
(* AuthorizationServer implements this module (Families in                 *)
(* AuthorizationServer).                                                   *)
(***************************************************************************)
CONSTANT Secret

VARIABLES
  alive,  \* families whose access tokens are good
  token,  \* <<f, k>>: family f can be continued with k
  seen    \* families and tokens there ever were

families == <<alive, token, seen>>

Init == alive = {} /\ token = {} /\ seen = {}

Begin(f) ==
  /\ f \notin seen
  /\ alive' = alive \union {f} /\ seen' = seen \union {f}
  /\ UNCHANGED token

\* The family gets its first token.
Issue(f, k) ==
  /\ f \in alive /\ k \notin seen
  /\ \A p \in token : p[1] # f
  /\ token' = token \union {<<f, k>>} /\ seen' = seen \union {k}
  /\ UNCHANGED alive

Exchange(f, k, next) ==
  /\ <<f, k>> \in token /\ next \notin seen
  /\ token' = (token \ {<<f, k>>}) \union {<<f, next>>} /\ seen' = seen \union {next}
  /\ UNCHANGED alive

\* A token whose family ended meanwhile is of no use.
Waste(k) == k \notin seen /\ seen' = seen \union {k} /\ UNCHANGED <<alive, token>>

End(over) ==
  /\ alive' = alive \ over
  /\ token' = {p \in token : p[1] \notin over}
  /\ UNCHANGED seen

Next ==
  \/ \E f \in Secret : Begin(f)
  \/ \E f \in alive, k \in Secret : Issue(f, k)
  \/ \E f \in alive, k \in seen, next \in Secret : Exchange(f, k, next)
  \/ \E k \in Secret : Waste(k)
  \/ \E over \in SUBSET alive : End(over)

Spec == Init /\ [][Next]_families
===============================================================================
