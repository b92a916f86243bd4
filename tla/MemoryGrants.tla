----------------------------- MODULE MemoryGrants ----------------------------
(***************************************************************************)
(* The in-memory store of channel grants (oauth/channel_grants.py), which  *)
(* counts its grants rather than measure its dicts.  Each operation holds  *)
(* the store's lock and awaits nothing else, so it is one action.          *)
(***************************************************************************)
EXTENDS Naturals, FiniteSets

CONSTANTS Owner, Channel, MaxGrants

ASSUME MemoryGrantsAssumption == MaxGrants \in Nat \ {0} /\ IsFiniteSet(Owner \X Channel)

VARIABLES
  stored,  \* <<owner, channel>> pairs in _grants
  lapsed,  \* those whose deadline has passed
  count    \* _count

grantVars == <<stored, lapsed, count>>

GrantsInit == stored = {} /\ lapsed = {} /\ count = 0

\* _purge, when the store seems full; it measures what is left.
Left == IF count >= MaxGrants THEN stored \ lapsed ELSE stored

\* Mutation: the purge leaves the counter.
Counted_Kept == count

Counted == IF count >= MaxGrants THEN Cardinality(Left) ELSE count

Grant(g) ==
  /\ \/ g \in Left /\ stored' = Left /\ count' = Counted /\ lapsed' = lapsed \intersect (Left \ {g})
     \/ /\ g \notin Left /\ Counted < MaxGrants
        /\ stored' = Left \union {g} /\ count' = Counted + 1
        /\ lapsed' = lapsed \intersect Left
     \/ /\ g \notin Left /\ Counted >= MaxGrants
        /\ stored' = Left /\ count' = Counted /\ lapsed' = lapsed \intersect Left

Revoke(g) ==
  /\ g \in stored
  /\ stored' = stored \ {g} /\ lapsed' = lapsed \ {g} /\ count' = count - 1

RemoveChannel(c) ==
  LET gone == {g \in stored : g[2] = c}
  IN /\ stored' = stored \ gone /\ lapsed' = lapsed \ gone
     /\ count' = count - Cardinality(gone)

\* channels: what a request of the owner may reach.
Channels(p) == {c \in Channel : <<p, c>> \in stored \ lapsed}

Lapse(g) ==
  /\ g \in stored \ lapsed /\ lapsed' = lapsed \union {g}
  /\ UNCHANGED <<stored, count>>

GrantsNext ==
  \/ \E g \in Owner \X Channel : Grant(g) \/ Revoke(g) \/ Lapse(g)
  \/ \E c \in Channel : RemoveChannel(c)

\* The counter is the number of grants, so the store never refuses for want of a purge
\* and never holds more than its limit (channel_grants.py:47-88).
CountIsExact == count = Cardinality(stored) /\ count <= MaxGrants /\ lapsed \subseteq stored

--------------------------------------------------------------------------------
(* The grants seen without the purge and the counter: those in force.           *)

Granted == INSTANCE GrantTable WITH granted <- stored \ lapsed

\* What the purge has not reached is not to be seen (channel_grants.py:47-88).
ImplementsGrants == Granted!Spec

\* A grant is refused when MaxGrants are in force, and never because of some that are over:
\* the purge comes whenever the store seems full (channel_grants.py:47-61).
GrantDecisionsAgree ==
  \A g \in Owner \X Channel : (g \in Left \/ Counted < MaxGrants) <=> Granted!HasRoom(g)
=============================================================================
