------------------------------ MODULE BudgetTable ------------------------------
(***************************************************************************)
(* What the request budgets promise, with no heap and nothing to clean up: *)
(* a table of bounded size in which a key's budget ends the moment its     *)
(* window is over and its last delay served.  Only a full table or a spent *)
(* budget refuses a request, and a refusal for the latter is followed by a *)
(* delay within the limits.                                                *)
(*                                                                         *)
(* RateLimit implements this module (Table in RateLimit).                  *)
(***************************************************************************)
EXTENDS Integers, FiniteSets

CONSTANTS Key, Requests, Window, MaxKeys, Backoff, MaxBackoff, NoBudget

VARIABLE table  \* the budget of each key, NoBudget when it has none

Init == table = [k \in Key |-> NoBudget]

Open == {k \in Key : table[k] # NoBudget}

HasRoom(k) == k \in Open \/ Cardinality(Open) < MaxKeys

BudgetOf(k) == IF k \in Open THEN table[k]
               ELSE [reset |-> Window, used |-> 0, denials |-> 0, blocked |-> 0]

Admit(k) ==
  LET b == BudgetOf(k)
  IN /\ HasRoom(k) /\ b.blocked = 0 /\ b.used < Requests
     /\ table' = [table EXCEPT ![k] = [b EXCEPT !.used = @ + 1]]

Block(k, delay) ==
  LET b == BudgetOf(k)
  IN /\ HasRoom(k) /\ b.blocked = 0 /\ b.used >= Requests
     /\ table' = [table EXCEPT ![k] = [reset |-> b.reset, used |-> b.used,
                                       denials |-> b.denials + 1, blocked |-> delay]]

Sooner(t) == IF t > 0 THEN t - 1 ELSE 0

\* A tick later; the budget goes with the last tick of its window and its delay.
Aged(b) ==
  IF Sooner(b.reset) = 0 /\ Sooner(b.blocked) = 0 THEN NoBudget
  ELSE [reset |-> Sooner(b.reset), used |-> b.used, denials |-> b.denials,
        blocked |-> Sooner(b.blocked)]

Tick == table' = [k \in Key |-> IF k \in Open THEN Aged(table[k]) ELSE NoBudget]

Next ==
  \/ \E k \in Key : Admit(k) \/ \E delay \in Backoff..MaxBackoff : Block(k, delay)
  \/ Tick

Spec == Init /\ [][Next]_table
===============================================================================
