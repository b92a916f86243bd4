------------------------------- MODULE GrantTable -------------------------------
(***************************************************************************)
(* What the in-memory store of grants promises, with no deadlines to purge *)
(* and no counter: a set of grants of bounded size, each in force from its *)
(* grant to its deadline, its revocation or the end of its channel.  Only  *)
(* a store full of grants in force refuses one.                            *)
(*                                                                         *)
(* MemoryGrants implements this module (Granted in MemoryGrants).          *)
(***************************************************************************)
EXTENDS Naturals, FiniteSets

CONSTANTS Owner, Channel, MaxGrants

VARIABLE granted  \* <<owner, channel>> pairs in force

Init == granted = {}

HasRoom(g) == g \in granted \/ Cardinality(granted) < MaxGrants

Grant(g) == HasRoom(g) /\ granted' = granted \union {g}

\* It is revoked, or its deadline passes.
End(g) == granted' = granted \ {g}

EndOfChannel(c) == granted' = {g \in granted : g[2] # c}

Next ==
  \/ \E g \in Owner \X Channel : Grant(g) \/ End(g)
  \/ \E c \in Channel : EndOfChannel(c)

Spec == Init /\ [][Next]_granted
===============================================================================
