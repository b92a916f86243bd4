------------------------------ MODULE RateLimit ------------------------------
(***************************************************************************)
(* The OAuth request budgets (oauth/rate_limit.py): a dict of budgets, one *)
(* per key, and a heap with one entry per budget, which says when to look  *)
(* whether the budget is over.  A budget that is blocked outlives its      *)
(* window, so its entry may be due before it is; every due entry is looked *)
(* at, whatever its place in the heap, which is therefore a set here.      *)
(* Times are counted in ticks from now; 0 is due or past.                  *)
(***************************************************************************)
EXTENDS Integers, FiniteSets

CONSTANTS
  Key,         \* addresses, clients, principals or accounts
  Requests,    \* admitted per window
  Window,      \* window_seconds
  MaxKeys,     \* maximum_keys
  Backoff,     \* backoff_seconds, the first delay
  MaxBackoff,  \* maximum_backoff_seconds
  NoBudget     \* the budget of a key that has none

ASSUME RateLimitAssumption ==
  /\ Requests \in Nat \ {0} /\ Window \in Nat \ {0} /\ MaxKeys \in Nat \ {0}
  /\ Backoff \in Nat \ {0} /\ MaxBackoff \in Nat /\ Backoff <= MaxBackoff
  /\ NoBudget \notin [reset : Nat, used : Nat, denials : Nat, blocked : Nat]

VARIABLES
  budgets,  \* _budgets
  expiry,   \* _expiry
  waits     \* history: ticks each key must still wait since it was refused

vars == <<budgets, expiry, waits>>

Budget == [reset : Nat, used : Nat, denials : Nat, blocked : Nat]

Budgeted == {k \in Key : budgets[k] # NoBudget}

TypeOK ==
  /\ budgets \in [Key -> Budget \union {NoBudget}] /\ Cardinality(Budgeted) <= MaxKeys
  /\ \A k \in Budgeted : budgets[k].used <= Requests
  /\ expiry \subseteq [key : Key, due : Nat]
  /\ waits \in [Key -> Nat]

Init ==
  /\ budgets = [k \in Key |-> NoBudget] /\ expiry = {}
  /\ waits = [k \in Key |-> 0]

Larger(a, b) == IF a > b THEN a ELSE b
Smaller(a, b) == IF a < b THEN a ELSE b
Earlier(t) == IF t > 0 THEN t - 1 ELSE t

\* Mutation: a budget is over with its window, blocked or not.
Deadline_WindowOnly(b) == b.reset

Deadline(b) == Larger(b.reset, b.blocked)

Due == {e \in expiry : e.due = 0}
Over == {e.key : e \in {d \in Due : Deadline(budgets[d.key]) = 0}}

\* Mutation: an entry that came due before its budget is dropped.
Rescheduled_Dropped == {}

Rescheduled == {[key |-> e.key, due |-> Deadline(budgets[e.key])] :
                  e \in {d \in Due : d.key \notin Over}}

\* The entries after the loop that opens admit, and the keys that still have a budget.
Kept == (expiry \ Due) \union Rescheduled
Remaining == Budgeted \ Over

\* Mutation: a key too many.
HasRoom_OffByOne(k) == k \in Remaining \/ Cardinality(Remaining) <= MaxKeys

HasRoom(k) == k \in Remaining \/ Cardinality(Remaining) < MaxKeys

NewBudget == [reset |-> Window, used |-> 0, denials |-> 0, blocked |-> 0]

BudgetOf(k) == IF k \in Remaining THEN budgets[k] ELSE NewBudget

Store(k, b) ==
  /\ budgets' = [j \in Key |-> IF j = k THEN b ELSE IF j \in Over THEN NoBudget ELSE budgets[j]]
  /\ expiry' = Kept \union (IF k \in Remaining THEN {} ELSE {[key |-> k, due |-> Window]})

RefuseNewKey(k) ==
  /\ ~HasRoom(k)
  /\ budgets' = [j \in Key |-> IF j \in Over THEN NoBudget ELSE budgets[j]]
  /\ expiry' = Kept
  /\ UNCHANGED waits

Admit(k) ==
  LET b == BudgetOf(k)
  IN /\ HasRoom(k) /\ b.blocked = 0 /\ b.used < Requests
     /\ Store(k, [b EXCEPT !.used = @ + 1])
     /\ UNCHANGED waits

RefuseBlocked(k) ==
  /\ HasRoom(k) /\ BudgetOf(k).blocked > 0
  /\ Store(k, BudgetOf(k))
  /\ UNCHANGED waits

Refuse(k) ==
  LET b == BudgetOf(k)
      delay == Smaller(MaxBackoff, Backoff * 2 ^ Smaller(b.denials, 32))
  IN /\ HasRoom(k) /\ b.blocked = 0 /\ b.used >= Requests
     /\ Store(k, [reset |-> b.reset, used |-> b.used, denials |-> b.denials + 1,
                  blocked |-> delay])
     /\ waits' = [waits EXCEPT ![k] = delay]

Tick ==
  /\ budgets' = [k \in Key |->
       IF budgets[k] = NoBudget THEN NoBudget
       ELSE [reset |-> Earlier(budgets[k].reset), used |-> budgets[k].used,
             denials |-> budgets[k].denials, blocked |-> Earlier(budgets[k].blocked)]]
  /\ expiry' = {[key |-> e.key, due |-> Earlier(e.due)] : e \in expiry}
  /\ waits' = [k \in Key |-> Earlier(waits[k])]

Next ==
  \/ \E k \in Key : Admit(k) \/ RefuseNewKey(k) \/ RefuseBlocked(k) \/ Refuse(k)
  \/ Tick

Spec == Init /\ [][Next]_vars

--------------------------------------------------------------------------------
(* Properties.                                                                  *)

\* Every budget has one entry in the heap, due no later than it is over, and no entry is
\* without its budget: the loop of admit finds what it looks up, no budget is kept for
\* ever, and what is kept after the loop is not over (rate_limit.py:57-65).
OneEntryPerBudget ==
  /\ \A e \in expiry : budgets[e.key] # NoBudget /\ e.due <= Deadline(budgets[e.key])
  /\ \A k \in Budgeted : \E e \in expiry : e.key = k
  /\ \A d, e \in expiry : d.key = e.key => d = e

\* A key that was refused with a delay keeps a blocked budget until the delay is over,
\* though its window ends and other keys' requests clean up (rate_limit.py:60-65).
DelayIsServed ==
  \A k \in Key : waits[k] > 0 => k \in Budgeted /\ budgets[k].blocked = waits[k]

--------------------------------------------------------------------------------
(* The budgets seen without the heap: those that are not over.                  *)

Unspent == {k \in Budgeted : Deadline(budgets[k]) > 0}

TableOf == [k \in Key |-> IF k \in Unspent THEN budgets[k] ELSE NoBudget]

Table == INSTANCE BudgetTable WITH table <- TableOf

\* The heap is not to be seen: what cleaning up on the next request forgets had no effect
\* since its time was over (rate_limit.py:54-100).
ImplementsTable == Table!Spec

\* What a request is told depends on the budgets that are not over and on nothing else: a
\* budget kept too long would take its place or count against its key
\* (rate_limit.py:57-75).
DecisionsAgree ==
  \A k \in Key : /\ HasRoom(k) <=> Table!HasRoom(k)
                 /\ BudgetOf(k) = Table!BudgetOf(k)
=============================================================================
