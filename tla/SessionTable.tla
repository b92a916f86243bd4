------------------------------ MODULE SessionTable ------------------------------
(***************************************************************************)
(* What the session bindings promise, with no order among them and nothing *)
(* to purge: a table of bounded size, in which a session belongs to one    *)
(* identity from its first use until it has been idle for IdleTicks or is  *)
(* ended, and is used by that identity alone.  Only a table full of        *)
(* sessions in use refuses a new one.                                      *)
(*                                                                         *)
(* McpAccess implements this module (Sessions in McpAccess).               *)
(***************************************************************************)
EXTENDS Naturals, FiniteSets

CONSTANTS Session, Identity, MaxSessions, IdleTicks, None

VARIABLE using  \* whose each session is and the ticks left to it, or None

Init == using = [s \in Session |-> None]

InUse == {s \in Session : using[s] # None}

MayUse(s, who) == IF s \in InUse THEN using[s].who = who ELSE Cardinality(InUse) < MaxSessions

Use(s, who) ==
  /\ MayUse(s, who)
  /\ using' = [using EXCEPT ![s] = [who |-> who, left |-> IdleTicks]]

\* Sessions end with a response, a refusal, their channel or the process.
End(gone) == using' = [s \in Session |-> IF s \in gone THEN None ELSE using[s]]

Tick ==
  using' = [s \in Session |-> IF s \in InUse /\ using[s].left > 1
                              THEN [who |-> using[s].who, left |-> using[s].left - 1]
                              ELSE None]

Next ==
  \/ \E s \in Session, who \in Identity : Use(s, who)
  \/ \E gone \in SUBSET Session : End(gone)
  \/ Tick

Spec == Init /\ [][Next]_using
===============================================================================
