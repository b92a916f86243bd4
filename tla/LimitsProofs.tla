----------------------------- MODULE LimitsProofs -----------------------------
(***************************************************************************)
(* Proofs about the two bounded tables in memory: the request budgets      *)
(* (RateLimit) and the channel grants (MemoryGrants), for any keys, owners *)
(* and channels and any limits.                                            *)
(***************************************************************************)
EXTENDS RateLimit, MemoryGrants, FiniteSetTheorems, TLAPS

\* The type invariant but for the size of the table.
TimesOK ==
  /\ budgets \in [Key -> Budget \union {NoBudget}]
  /\ \A k \in Budgeted : budgets[k].used <= Requests
  /\ expiry \subseteq [key : Key, due : Nat]
  /\ waits \in [Key -> Nat]

BudgetInv == TimesOK /\ OneEntryPerBudget /\ DelayIsServed

\* A power of two counts the subsets of a set.
LEMMA PowerOfTwo ==
  ASSUME NEW n \in Nat PROVE 2 ^ n \in Nat \ {0}
<1> DEFINE S == 1..n
<1>1. IsFiniteSet(S) /\ Cardinality(S) = n
  BY FS_Interval
<1>2. IsFiniteSet(SUBSET S) /\ Cardinality(SUBSET S) = 2 ^ n
  BY <1>1, FS_SUBSET
<1>3. Cardinality(SUBSET S) \in Nat /\ (Cardinality(SUBSET S) = 0 <=> SUBSET S = {})
  BY <1>2, FS_CardinalityType, FS_EmptySet
<1>4. {} \in SUBSET S
  OBVIOUS
<1> HIDE DEF S
<1> QED BY <1>2, <1>3, <1>4

\* However often a key was refused, its delay is within the limits and not zero.
LEMMA DelayInLimits ==
  ASSUME NEW denials \in Nat
  PROVE  Smaller(MaxBackoff, Backoff * 2 ^ Smaller(denials, 32)) \in Backoff..MaxBackoff
<1> DEFINE n == Smaller(denials, 32)
           power == 2 ^ n
           product == Backoff * power
<1>1. n \in Nat
  BY DEF Smaller
<1> HIDE DEF n
<1>2. power \in Nat \ {0}
  BY <1>1, PowerOfTwo
<1> HIDE DEF power
<1>3. product \in Nat /\ product >= Backoff
  BY <1>2, RateLimitAssumption
<1> HIDE DEF product
<1>4. Smaller(MaxBackoff, product) \in Backoff..MaxBackoff
  BY <1>3, RateLimitAssumption DEF Smaller
<1> QED BY <1>4 DEF product, power, n

\* The types that a step reads.
LEMMA BudgetTyped ==
  ASSUME TimesOK, NEW k \in Budgeted
  PROVE  /\ k \in Key /\ budgets[k] \in Budget /\ Deadline(budgets[k]) \in Nat
         /\ budgets[k].blocked <= Deadline(budgets[k])
<1>1. k \in Key /\ budgets[k] \in Budget
  BY DEF TimesOK, Budgeted
<1> QED BY <1>1 DEF Budget, Deadline, Larger

\* After the loop that opens admit every budget left has one entry, due in time.
LEMMA CleanUp ==
  ASSUME BudgetInv
  PROVE  /\ Kept \subseteq [key : Key, due : Nat]
         /\ \A e \in Kept : e.key \in Remaining /\ e.due <= Deadline(budgets[e.key])
         /\ \A k \in Remaining : \E e \in Kept : e.key = k
         /\ \A d, e \in Kept : d.key = e.key => d = e
<1>1. \A e \in expiry : /\ e \in [key : Key, due : Nat] /\ e.key \in Budgeted
                        /\ e.due <= Deadline(budgets[e.key])
  BY DEF BudgetInv, TimesOK, OneEntryPerBudget, Budgeted
<1>2. \A e \in expiry : e.key \in Over <=> e.due = 0 /\ Deadline(budgets[e.key]) = 0
  BY <1>1 DEF Over, Due, BudgetInv, OneEntryPerBudget
<1>3. ASSUME NEW e \in Kept
      PROVE  \E d \in expiry : /\ d.key = e.key /\ e.key \in Remaining
                               /\ e \in [key : Key, due : Nat]
                               /\ e.due <= Deadline(budgets[e.key])
                               /\ d.due # 0 => e = d
                               /\ d.due = 0 => e = [key |-> d.key, due |-> Deadline(budgets[d.key])]
  <2>1. CASE e \in expiry \ Due
    BY <1>1, <1>2, <2>1 DEF Due, Remaining
  <2>2. CASE e \in Rescheduled
    <3>1. PICK d \in expiry : /\ d.due = 0 /\ d.key \notin Over
                              /\ e = [key |-> d.key, due |-> Deadline(budgets[d.key])]
      BY <2>2 DEF Rescheduled, Due
    <3>2. d.key \in Budgeted /\ Deadline(budgets[d.key]) \in Nat /\ d.key \in Key
      BY <1>1, BudgetTyped DEF BudgetInv
    <3> QED BY <3>1, <3>2 DEF Remaining
  <2> QED BY <2>1, <2>2 DEF Kept
<1>4. ASSUME NEW k \in Remaining
      PROVE  \E e \in Kept : e.key = k
  <2>1. PICK d \in expiry : d.key = k
    BY DEF Remaining, BudgetInv, OneEntryPerBudget
  <2>2. CASE d \in Due
    <3>1. [key |-> d.key, due |-> Deadline(budgets[d.key])] \in Rescheduled
      BY <2>1, <2>2 DEF Rescheduled, Remaining
    <3> QED BY <2>1, <3>1 DEF Kept
  <2>3. CASE d \notin Due
    BY <2>1, <2>3 DEF Kept
  <2> QED BY <2>2, <2>3
<1>5. ASSUME NEW d \in Kept, NEW e \in Kept, d.key = e.key
      PROVE  d = e
  <2>1. PICK a \in expiry : /\ a.key = d.key
                            /\ a.due # 0 => d = a
                            /\ a.due = 0 => d = [key |-> a.key, due |-> Deadline(budgets[a.key])]
    BY <1>3
  <2>2. PICK b \in expiry : /\ b.key = e.key
                            /\ b.due # 0 => e = b
                            /\ b.due = 0 => e = [key |-> b.key, due |-> Deadline(budgets[b.key])]
    BY <1>3
  <2>3. a = b
    BY <1>5, <2>1, <2>2 DEF BudgetInv, OneEntryPerBudget
  <2> QED BY <2>1, <2>2, <2>3
<1> QED BY <1>3, <1>4, <1>5

\* A budget that goes has no delay left to serve.
LEMMA OverIsServed ==
  ASSUME BudgetInv, NEW k \in Over
  PROVE  k \in Budgeted /\ ~(waits[k] > 0)
<1>1. k \in Budgeted /\ Deadline(budgets[k]) = 0
  BY DEF Over, Due, BudgetInv, TimesOK, OneEntryPerBudget, Budgeted
<1>2. budgets[k].blocked <= 0 /\ budgets[k].blocked \in Int
  BY <1>1, BudgetTyped DEF BudgetInv, Budget
<1> QED BY <1>1, <1>2 DEF BudgetInv, DelayIsServed, Budgeted, TimesOK

\* The budget a request finds, its own or a new one.
LEMMA BudgetOfTyped ==
  ASSUME BudgetInv, NEW k \in Key
  PROVE  /\ BudgetOf(k) \in Budget /\ BudgetOf(k).used <= Requests
         /\ k \in Remaining => BudgetOf(k) = budgets[k] /\ k \in Budgeted
         /\ k \notin Remaining => Deadline(BudgetOf(k)) = Window /\ ~(waits[k] > 0)
<1>1. CASE k \in Remaining
  BY <1>1, BudgetTyped DEF BudgetOf, Remaining, BudgetInv, TimesOK
<1>2. CASE k \notin Remaining
  <2>1. ~(waits[k] > 0)
    BY <1>2, OverIsServed DEF Remaining, BudgetInv, DelayIsServed
  <2> QED BY <1>2, <2>1, RateLimitAssumption DEF BudgetOf, NewBudget, Budget, Deadline, Larger
<1> QED BY <1>1, <1>2

\* A budget stored with a deadline no earlier than before keeps its one entry.
LEMMA StoreKeeps ==
  ASSUME BudgetInv, NEW k \in Key, NEW b \in Budget, Store(k, b),
         b.used <= Requests,
         Deadline(BudgetOf(k)) <= Deadline(b), waits' \in [Key -> Nat],
         \A j \in Key \ {k} : waits'[j] = waits[j],
         waits'[k] > 0 => waits'[k] = b.blocked
  PROVE  BudgetInv'
<1>1. /\ Kept \subseteq [key : Key, due : Nat]
      /\ \A e \in Kept : e.key \in Remaining /\ e.due <= Deadline(budgets[e.key])
      /\ \A j \in Remaining : \E e \in Kept : e.key = j
      /\ \A d, e \in Kept : d.key = e.key => d = e
  BY CleanUp
<1>2. /\ Deadline(BudgetOf(k)) \in Nat /\ Deadline(b) \in Nat
      /\ Deadline(b)' = Deadline(b)
      /\ k \in Remaining => BudgetOf(k) = budgets[k]
      /\ k \notin Remaining => Deadline(BudgetOf(k)) = Window
      /\ b # NoBudget
  BY BudgetOfTyped, RateLimitAssumption DEF Budget, Deadline, Larger
<1>3. /\ budgets'[k] = b
      /\ \A j \in Key \ {k} : budgets'[j] = IF j \in Over THEN NoBudget ELSE budgets[j]
      /\ budgets' \in [Key -> Budget \union {NoBudget}]
  BY DEF Store, BudgetInv, TimesOK
<1>4. /\ Budgeted' = Remaining \union {k} /\ Budgeted' \subseteq Key
  BY <1>2, <1>3 DEF Budgeted, Remaining
<1>5. \A j \in Remaining \ {k} : budgets'[j] = budgets[j]
  BY <1>3 DEF Remaining, Budgeted
<1>6. TimesOK'
  <2>1. expiry' \subseteq [key : Key, due : Nat]
    BY <1>1, RateLimitAssumption DEF Store
  <2>2. \A j \in Budgeted' : budgets'[j].used <= Requests
    BY <1>3, <1>4, <1>5 DEF Remaining, BudgetInv, TimesOK
  <2> QED BY <1>3, <2>1, <2>2 DEF TimesOK
<1>7. OneEntryPerBudget'
  <2>1. \A e \in Kept : e.due <= Deadline(budgets'[e.key])
    <3> SUFFICES ASSUME NEW e \in Kept PROVE e.due <= Deadline(budgets'[e.key])
      OBVIOUS
    <3>1. CASE e.key = k
      <4>1. e.due <= Deadline(BudgetOf(k)) /\ e.due \in Nat
        BY <1>1, <1>2, <3>1
      <4> QED BY <1>2, <1>3, <3>1, <4>1
    <3>2. CASE e.key # k
      BY <1>1, <1>5, <3>2
    <3> QED BY <3>1, <3>2
  <2>2. CASE k \in Remaining
    <3>1. expiry' = Kept
      BY <2>2 DEF Store
    <3> QED BY <1>1, <1>4, <2>1, <2>2, <3>1 DEF OneEntryPerBudget, Budgeted, Deadline
  <2>3. CASE k \notin Remaining
    <3> DEFINE new == [key |-> k, due |-> Window]
    <3>1. expiry' = Kept \union {new}
      BY <2>3 DEF Store
    <3>2. new.key = k /\ new.due <= Deadline(budgets'[k])
      BY <1>2, <1>3, <2>3
    <3> HIDE DEF new
    <3> QED BY <1>1, <1>4, <2>1, <2>3, <3>1, <3>2 DEF OneEntryPerBudget, Budgeted, Deadline
  <2> QED BY <2>2, <2>3
<1>8. DelayIsServed'
  <2> SUFFICES ASSUME NEW j \in Key, waits'[j] > 0
               PROVE  j \in Budgeted' /\ budgets'[j].blocked = waits'[j]
    BY DEF DelayIsServed
  <2>1. CASE j = k
    BY <1>3, <1>4, <2>1
  <2>2. CASE j # k
    <3>1. waits[j] > 0 /\ j \in Budgeted /\ budgets[j].blocked = waits[j]
      BY <2>2 DEF BudgetInv, DelayIsServed
    <3>2. j \notin Over
      BY <3>1, OverIsServed
    <3> QED BY <1>4, <1>5, <2>2, <3>1, <3>2 DEF Remaining
  <2> QED BY <2>1, <2>2
<1> QED BY <1>6, <1>7, <1>8 DEF BudgetInv

\* A refused new key only cleans up.
LEMMA RefuseNewKeyKeeps ==
  ASSUME BudgetInv, NEW k \in Key, RefuseNewKey(k)
  PROVE  BudgetInv'
<1>1. /\ Kept \subseteq [key : Key, due : Nat]
      /\ \A e \in Kept : e.key \in Remaining /\ e.due <= Deadline(budgets[e.key])
      /\ \A j \in Remaining : \E e \in Kept : e.key = j
      /\ \A d, e \in Kept : d.key = e.key => d = e
  BY CleanUp
<1>2. /\ expiry' = Kept /\ waits' = waits
      /\ budgets' = [j \in Key |-> IF j \in Over THEN NoBudget ELSE budgets[j]]
  BY DEF RefuseNewKey
<1>3. /\ Budgeted' = Remaining /\ \A j \in Remaining : budgets'[j] = budgets[j]
      /\ budgets' \in [Key -> Budget \union {NoBudget}]
  BY <1>2 DEF Budgeted, Remaining, BudgetInv, TimesOK
<1>4. TimesOK'
  BY <1>1, <1>2, <1>3 DEF BudgetInv, TimesOK, Remaining
<1>5. OneEntryPerBudget'
  BY <1>1, <1>2, <1>3 DEF OneEntryPerBudget, Budgeted, Deadline
<1>6. \A j \in Key : waits[j] > 0 => j \in Remaining /\ budgets[j].blocked = waits[j]
  BY OverIsServed DEF Remaining, BudgetInv, DelayIsServed
<1>7. DelayIsServed'
  BY <1>2, <1>3, <1>6 DEF DelayIsServed
<1> QED BY <1>4, <1>5, <1>7 DEF BudgetInv

\* An admitted request counts in its budget, whose times stay.
LEMMA AdmitKeeps ==
  ASSUME BudgetInv, NEW k \in Key, Admit(k)
  PROVE  BudgetInv'
<1> DEFINE old == BudgetOf(k)
           b == [old EXCEPT !.used = @ + 1]
<1>1. /\ old \in Budget /\ Store(k, b) /\ waits' = waits /\ old.blocked = 0
      /\ waits \in [Key -> Nat] /\ old.used < Requests
  BY BudgetOfTyped DEF Admit, BudgetInv, TimesOK
<1>2. b \in Budget /\ b.reset = old.reset /\ b.blocked = old.blocked /\ b.used <= Requests
  BY <1>1, RateLimitAssumption DEF Budget
<1>3. Deadline(old) <= Deadline(b)
  BY <1>1, <1>2 DEF Deadline, Larger, Budget
<1>4. waits'[k] > 0 => waits'[k] = b.blocked
  BY <1>1, <1>2, BudgetOfTyped DEF BudgetInv, DelayIsServed
<1> HIDE DEF b
<1> QED BY <1>1, <1>2, <1>3, <1>4, StoreKeeps

\* A blocked key is refused without a longer delay.
LEMMA RefuseBlockedKeeps ==
  ASSUME BudgetInv, NEW k \in Key, RefuseBlocked(k)
  PROVE  BudgetInv'
<1> DEFINE b == BudgetOf(k)
<1>1. /\ b \in Budget /\ Store(k, b) /\ waits' = waits /\ waits \in [Key -> Nat]
      /\ b.used <= Requests
  BY BudgetOfTyped DEF RefuseBlocked, BudgetInv, TimesOK
<1>2. Deadline(BudgetOf(k)) <= Deadline(b)
  BY <1>1 DEF Deadline, Larger, Budget
<1>3. waits'[k] > 0 => waits'[k] = b.blocked
  BY <1>1, BudgetOfTyped DEF BudgetInv, DelayIsServed
<1> HIDE DEF b
<1> QED BY <1>1, <1>2, <1>3, StoreKeeps

\* A key over its budget is blocked for the delay it is told.
LEMMA RefuseKeeps ==
  ASSUME BudgetInv, NEW k \in Key, Refuse(k)
  PROVE  BudgetInv'
<1> DEFINE old == BudgetOf(k)
           delay == Smaller(MaxBackoff, Backoff * 2 ^ Smaller(old.denials, 32))
           b == [reset |-> old.reset, used |-> old.used, denials |-> old.denials + 1,
                 blocked |-> delay]
<1>1. /\ old \in Budget /\ Store(k, b) /\ waits' = [waits EXCEPT ![k] = delay]
      /\ old.blocked = 0 /\ waits \in [Key -> Nat] /\ old.used <= Requests
  BY BudgetOfTyped DEF Refuse, BudgetInv, TimesOK
<1>2. delay \in Nat
  BY <1>1, DelayInLimits, RateLimitAssumption DEF Budget
<1> HIDE DEF delay
<1>3. b \in Budget /\ b.reset = old.reset /\ b.blocked = delay /\ b.used <= Requests
  BY <1>1, <1>2 DEF Budget
<1>4. Deadline(old) <= Deadline(b)
  BY <1>1, <1>2, <1>3 DEF Deadline, Larger, Budget
<1>5. /\ waits' \in [Key -> Nat] /\ waits'[k] = b.blocked
      /\ \A j \in Key \ {k} : waits'[j] = waits[j]
  BY <1>1, <1>2, <1>3
<1> HIDE DEF b
<1> QED BY <1>1, <1>3, <1>4, <1>5, StoreKeeps

\* Time passes for budgets, entries and delays alike.
LEMMA TickKeeps ==
  ASSUME BudgetInv, Tick
  PROVE  BudgetInv'
<1>1. /\ \A k \in Key : budgets[k] \in Budget \union {NoBudget} /\ waits[k] \in Nat
      /\ \A e \in expiry : e.key \in Key /\ e.due \in Nat
  BY DEF BudgetInv, TimesOK
<1>2. /\ \A k \in Key : budgets[k] # NoBudget =>
           /\ budgets'[k] \in Budget
           /\ budgets'[k].reset = Earlier(budgets[k].reset)
           /\ budgets'[k].blocked = Earlier(budgets[k].blocked)
           /\ budgets'[k].used = budgets[k].used
      /\ \A k \in Key : budgets[k] = NoBudget => budgets'[k] = NoBudget
      /\ DOMAIN budgets' = Key /\ budgets' = [k \in Key |-> budgets'[k]]
  BY <1>1 DEF Tick, Budget, Earlier
<1>3. /\ \A k \in Key : waits'[k] = Earlier(waits[k])
      /\ waits' \in [Key -> Nat]
  BY <1>1 DEF Tick, Earlier
<1>4. \A e \in expiry' : \E d \in expiry : e = [key |-> d.key, due |-> Earlier(d.due)]
  BY <1>1 DEF Tick
<1>5. \A d \in expiry : [key |-> d.key, due |-> Earlier(d.due)] \in expiry'
  BY <1>1 DEF Tick
<1>6. Budgeted' = Budgeted
  BY <1>2, RateLimitAssumption DEF Budgeted, Budget
<1>7. TimesOK'
  <2>1. budgets' \in [Key -> Budget \union {NoBudget}]
    BY <1>2
  <2>2. expiry' \subseteq [key : Key, due : Nat]
    <3> SUFFICES ASSUME NEW e \in expiry' PROVE e \in [key : Key, due : Nat]
      OBVIOUS
    <3>1. PICK d \in expiry : e = [key |-> d.key, due |-> Earlier(d.due)]
      BY <1>4
    <3>2. d.key \in Key /\ Earlier(d.due) \in Nat
      BY <1>1 DEF Earlier
    <3> QED BY <3>1, <3>2
  <2>3. \A k \in Budgeted' : budgets'[k].used <= Requests
    BY <1>2, <1>6 DEF Budgeted, BudgetInv, TimesOK
  <2> QED BY <1>3, <2>1, <2>2, <2>3 DEF TimesOK
<1>8. OneEntryPerBudget'
  <2>1. ASSUME NEW e \in expiry'
        PROVE  budgets'[e.key] # NoBudget /\ e.due <= Deadline(budgets'[e.key])
    <3>1. PICK d \in expiry : e = [key |-> d.key, due |-> Earlier(d.due)]
      BY <1>4
    <3>2. d.key \in Key /\ d.due \in Nat /\ budgets[d.key] # NoBudget
          /\ d.due <= Deadline(budgets[d.key]) /\ budgets[d.key] \in Budget
      BY <1>1 DEF BudgetInv, OneEntryPerBudget
    <3>3. /\ budgets'[d.key] # NoBudget
          /\ budgets'[d.key].reset = Earlier(budgets[d.key].reset)
          /\ budgets'[d.key].blocked = Earlier(budgets[d.key].blocked)
      BY <1>2, <3>2, RateLimitAssumption DEF Budget
    <3>4. Earlier(d.due) <= Deadline(budgets'[d.key])
      BY <3>2, <3>3 DEF Deadline, Larger, Earlier, Budget
    <3> QED BY <3>1, <3>3, <3>4
  <2>2. \A k \in Budgeted' : \E e \in expiry' : e.key = k
    BY <1>5, <1>6 DEF BudgetInv, OneEntryPerBudget
  <2>3. \A d, e \in expiry' : d.key = e.key => d = e
    BY <1>4 DEF BudgetInv, OneEntryPerBudget
  <2> QED BY <2>1, <2>2, <2>3 DEF OneEntryPerBudget, Deadline
<1>9. DelayIsServed'
  <2> SUFFICES ASSUME NEW k \in Key, waits'[k] > 0
               PROVE  k \in Budgeted' /\ budgets'[k].blocked = waits'[k]
    BY DEF DelayIsServed
  <2>1. waits[k] > 0
    BY <1>1, <1>3 DEF Earlier
  <2>2. k \in Budgeted /\ budgets[k].blocked = waits[k] /\ budgets[k] # NoBudget
    BY <2>1 DEF BudgetInv, DelayIsServed, Budgeted
  <2> QED BY <1>2, <1>3, <1>6, <2>2
<1> QED BY <1>7, <1>8, <1>9 DEF BudgetInv

\* Every step of the budgets keeps the invariant.
LEMMA BudgetInvNext == BudgetInv /\ [Next]_vars => BudgetInv'
<1> SUFFICES ASSUME BudgetInv, [Next]_vars PROVE BudgetInv'
  OBVIOUS
<1>1. ASSUME NEW k \in Key, Admit(k) \/ RefuseNewKey(k) \/ RefuseBlocked(k) \/ Refuse(k)
      PROVE  BudgetInv'
  BY <1>1, AdmitKeeps, RefuseNewKeyKeeps, RefuseBlockedKeeps, RefuseKeeps
<1>2. CASE Tick
  BY <1>2, TickKeeps
<1>3. CASE UNCHANGED vars
  BY <1>3 DEF vars, BudgetInv, TimesOK, OneEntryPerBudget, DelayIsServed, Budgeted, Deadline
<1> QED BY <1>1, <1>2, <1>3 DEF Next

\* The invariant of the budgets holds.
LEMMA BudgetInvHolds == Spec => []BudgetInv
<1>1. Init => BudgetInv
  BY DEF Init, BudgetInv, TimesOK, OneEntryPerBudget, DelayIsServed, Budgeted
<1> QED BY <1>1, BudgetInvNext, PTL DEF Spec

\* Each budget has one entry that finds it in time, for any limits and any order of
\* requests (rate_limit.py:57-65).
THEOREM BudgetsAreFound == Spec => []OneEntryPerBudget
<1>1. BudgetInv => OneEntryPerBudget
  BY DEF BudgetInv
<1> QED BY <1>1, BudgetInvHolds, PTL

\* A refusal's delay is served in full, whatever the other keys do (rate_limit.py:60-65).
THEOREM DelaysAreServed == Spec => []DelayIsServed
<1>1. BudgetInv => DelayIsServed
  BY DEF BudgetInv
<1> QED BY <1>1, BudgetInvHolds, PTL

\* The table of budgets is finite and within its limit.
SizeOK == IsFiniteSet(Budgeted) /\ Cardinality(Budgeted) <= MaxKeys

\* What a request stores finds room in what cleaning up leaves.
LEMMA SizeNext ==
  ASSUME SizeOK, [Next]_vars, BudgetInv PROVE SizeOK'
<1>1. IsFiniteSet(Remaining) /\ Cardinality(Remaining) \in Nat /\ Cardinality(Remaining) <= MaxKeys
  <2>1. IsFiniteSet(Remaining) /\ Cardinality(Remaining) <= Cardinality(Budgeted)
    BY FS_Subset DEF SizeOK, Remaining
  <2>2. Cardinality(Remaining) \in Nat /\ Cardinality(Budgeted) \in Nat
    BY <2>1, FS_CardinalityType DEF SizeOK
  <2> QED BY <2>1, <2>2, RateLimitAssumption DEF SizeOK
<1>2. ASSUME NEW S, IsFiniteSet(S), Cardinality(S) <= MaxKeys, Budgeted' \subseteq S
      PROVE  SizeOK'
  <2>1. IsFiniteSet(Budgeted') /\ Cardinality(Budgeted') <= Cardinality(S)
    BY <1>2, FS_Subset
  <2>2. Cardinality(Budgeted') \in Nat /\ Cardinality(S) \in Nat
    BY <1>2, <2>1, FS_CardinalityType
  <2> QED BY <1>2, <2>1, <2>2, RateLimitAssumption DEF SizeOK
<1>3. ASSUME NEW k \in Key, NEW b, HasRoom(k), Store(k, b) PROVE SizeOK'
  <2>1. Budgeted' \subseteq Remaining \union {k}
    BY <1>3 DEF Store, Budgeted, Remaining
  <2>2. /\ IsFiniteSet(Remaining \union {k})
        /\ Cardinality(Remaining \union {k})
             = IF k \in Remaining THEN Cardinality(Remaining) ELSE Cardinality(Remaining) + 1
    BY <1>1, FS_AddElement
  <2>3. Cardinality(Remaining \union {k}) <= MaxKeys
    BY <1>1, <1>3, <2>2, RateLimitAssumption DEF HasRoom
  <2> QED BY <1>2, <2>1, <2>2, <2>3
<1>4. ASSUME NEW k \in Key, RefuseNewKey(k) PROVE SizeOK'
  <2>1. Budgeted' \subseteq Remaining
    BY <1>4 DEF RefuseNewKey, Budgeted, Remaining
  <2> QED BY <1>1, <1>2, <2>1
<1>5. ASSUME NEW k \in Key, Admit(k) PROVE SizeOK'
  <2>1. HasRoom(k) /\ \E b : Store(k, b)
    BY <1>5 DEF Admit
  <2> QED BY <1>3, <2>1
<1>6. ASSUME NEW k \in Key, RefuseBlocked(k) PROVE SizeOK'
  <2>1. HasRoom(k) /\ \E b : Store(k, b)
    BY <1>6 DEF RefuseBlocked
  <2> QED BY <1>3, <2>1
<1>7. ASSUME NEW k \in Key, Refuse(k) PROVE SizeOK'
  <2>1. HasRoom(k) /\ \E b : Store(k, b)
    BY <1>7 DEF Refuse
  <2> QED BY <1>3, <2>1
<1>8. CASE Tick
  <2>1. Budgeted' \subseteq Budgeted
    BY <1>8 DEF Tick, Budgeted
  <2> QED BY <1>2, <2>1 DEF SizeOK
<1>9. CASE UNCHANGED vars
  <2>1. Budgeted' \subseteq Budgeted
    BY <1>9 DEF vars, Budgeted
  <2> QED BY <1>2, <2>1 DEF SizeOK
<1> QED BY <1>4, <1>5, <1>6, <1>7, <1>8, <1>9 DEF Next

\* The types hold, no budget counts more requests than it admits, and no more keys than the
\* limit have one, for any limits (rate_limit.py:67-73).
THEOREM BudgetsAreBounded == Spec => []TypeOK
<1>1. Init => SizeOK
  <2> SUFFICES ASSUME Init PROVE SizeOK
    OBVIOUS
  <2>1. Budgeted = {}
    BY DEF Init, Budgeted
  <2> QED BY <2>1, FS_EmptySet, RateLimitAssumption DEF SizeOK
<1>2. SizeOK /\ BudgetInv /\ [Next]_vars => SizeOK'
  BY SizeNext
<1>3. SizeOK /\ BudgetInv => TypeOK
  BY DEF SizeOK, BudgetInv, TimesOK, TypeOK
<1> QED BY <1>1, <1>2, <1>3, BudgetInvHolds, PTL DEF Spec

--------------------------------------------------------------------------------
(* The budgets implement a table in which nothing is kept too long.             *)

\* The budgets that are not over are those that cleaning up would leave.
LEMMA UnspentRemain ==
  ASSUME BudgetInv
  PROVE  /\ Unspent = Remaining
         /\ \A k \in Unspent : /\ k \in Key /\ budgets[k] \in Budget /\ budgets[k] # NoBudget
                               /\ Deadline(budgets[k]) > 0
<1>1. ASSUME NEW k \in Budgeted PROVE k \in Over <=> ~(Deadline(budgets[k]) > 0)
  <2>1. Deadline(budgets[k]) \in Nat
    BY BudgetTyped DEF BudgetInv
  <2>2. PICK e \in expiry : e.key = k /\ e.due \in Nat /\ e.due <= Deadline(budgets[k])
    BY DEF BudgetInv, OneEntryPerBudget, TimesOK
  <2>3. k \in Over => Deadline(budgets[k]) = 0
    BY DEF Over, Due
  <2>4. Deadline(budgets[k]) = 0 => e \in Due
    BY <2>1, <2>2 DEF Due
  <2> QED BY <2>1, <2>2, <2>3, <2>4 DEF Over
<1>2. \A k \in Budgeted : k \in Key /\ budgets[k] \in Budget /\ budgets[k] # NoBudget
  BY BudgetTyped DEF BudgetInv, Budgeted
<1> QED BY <1>1, <1>2 DEF Unspent, Remaining

\* A key without a budget that counts has none in the table.
LEMMA OpenIsRemaining ==
  ASSUME BudgetInv
  PROVE  /\ Table!Open = Remaining
         /\ \A k \in Key : Table!BudgetOf(k) = BudgetOf(k) /\ (Table!HasRoom(k) <=> HasRoom(k))
         /\ TableOf = [k \in Key |-> IF k \in Remaining THEN budgets[k] ELSE NoBudget]
<1>1. TableOf = [k \in Key |-> IF k \in Remaining THEN budgets[k] ELSE NoBudget]
  BY UnspentRemain DEF TableOf
<1>2. Table!Open = Remaining
  BY <1>1, UnspentRemain DEF Table!Open
<1>3. \A k \in Key : Table!BudgetOf(k) = BudgetOf(k)
  BY <1>1, <1>2 DEF Table!BudgetOf, BudgetOf, NewBudget
<1>4. Table!Cardinality(Remaining) = Cardinality(Remaining)
  BY DEF Table!Cardinality, Cardinality
<1> QED BY <1>1, <1>2, <1>3, <1>4 DEF Table!HasRoom, HasRoom

\* What a request stores is what the table then holds of its key, and nothing else moves.
LEMMA StoreMaps ==
  ASSUME BudgetInv, NEW k \in Key, NEW b \in Budget, Store(k, b),
         b.reset = BudgetOf(k).reset, b.blocked >= BudgetOf(k).blocked
  PROVE  TableOf' = [TableOf EXCEPT ![k] = b]
<1>1. TableOf = [j \in Key |-> IF j \in Remaining THEN budgets[j] ELSE NoBudget]
  BY OpenIsRemaining
<1>2. \A j \in Remaining : budgets[j] # NoBudget /\ Deadline(budgets[j]) > 0 /\ j \in Key
  BY UnspentRemain
<1>3. /\ budgets'[k] = b
      /\ \A j \in Key \ {k} : budgets'[j] = IF j \in Over THEN NoBudget ELSE budgets[j]
  BY DEF Store, BudgetInv, TimesOK
<1>4. BudgetOf(k) \in Budget /\ Deadline(BudgetOf(k)) > 0
  BY <1>2, BudgetOfTyped, RateLimitAssumption DEF BudgetInv
<1>5. Deadline(b) > 0 /\ b # NoBudget
  BY <1>4, RateLimitAssumption DEF Deadline, Larger, Budget
<1>6. \A j \in Key \ {k} : j \in Unspent' <=> j \in Remaining
  BY <1>2, <1>3 DEF Unspent, Budgeted, Remaining, Deadline
<1>7. k \in Unspent'
  BY <1>3, <1>5 DEF Unspent, Budgeted, Deadline
<1>8. \A j \in Remaining \ {k} : budgets'[j] = budgets[j]
  BY <1>2, <1>3 DEF Remaining
<1>9. TableOf' = [j \in Key |-> IF j \in Unspent' THEN budgets'[j] ELSE NoBudget]
  BY DEF TableOf
<1>10. \A j \in Key : TableOf'[j] = IF j = k THEN b ELSE TableOf[j]
  BY <1>1, <1>3, <1>6, <1>7, <1>8, <1>9
<1> QED BY <1>1, <1>9, <1>10

\* Time passes in the table as it does in the dict; what ends with the tick is gone from it.
LEMMA TickMaps ==
  ASSUME BudgetInv, Tick
  PROVE  Table!Tick
<1>1. TableOf = [j \in Key |-> IF j \in Remaining THEN budgets[j] ELSE NoBudget]
      /\ Table!Open = Remaining
  BY OpenIsRemaining
<1>2. TableOf' = [j \in Key |-> IF j \in Unspent' THEN budgets'[j] ELSE NoBudget]
  BY DEF TableOf
<1>3. ASSUME NEW k \in Remaining
      PROVE  TableOf'[k] = Table!Aged(budgets[k])
  <2>1. budgets[k] \in Budget /\ budgets[k] # NoBudget /\ k \in Key
    BY UnspentRemain
  <2> DEFINE old == budgets[k]
             new == [reset |-> Earlier(old.reset), used |-> old.used,
                     denials |-> old.denials, blocked |-> Earlier(old.blocked)]
  <2>2. budgets'[k] = new
    BY <2>1 DEF Tick
  <2>3. /\ Earlier(old.reset) = Table!Sooner(old.reset)
        /\ Earlier(old.blocked) = Table!Sooner(old.blocked)
        /\ Earlier(old.reset) \in Nat /\ Earlier(old.blocked) \in Nat
    BY <2>1 DEF Budget, Earlier, Table!Sooner
  <2>4. new \in Budget /\ new # NoBudget /\ new.reset = Earlier(old.reset)
        /\ new.blocked = Earlier(old.blocked)
    BY <2>1, <2>3, RateLimitAssumption DEF Budget
  <2>5. Table!Aged(old) = IF new.reset = 0 /\ new.blocked = 0 THEN NoBudget ELSE new
    BY <2>3 DEF Table!Aged
  <2> HIDE DEF new, old
  <2>6. k \in Unspent' <=> ~(new.reset = 0 /\ new.blocked = 0)
    BY <2>1, <2>2, <2>3, <2>4 DEF Unspent, Budgeted, Deadline, Larger
  <2>7. TableOf'[k] = Table!Aged(old)
    BY <1>2, <2>1, <2>2, <2>5, <2>6
  <2> QED BY <2>7 DEF old
<1>4. ASSUME NEW k \in Key \ Remaining
      PROVE  TableOf'[k] = NoBudget
  <2>1. CASE budgets[k] = NoBudget
    BY <1>2, <2>1 DEF Tick, Unspent, Budgeted
  <2>2. CASE budgets[k] # NoBudget
    <3>1. k \in Budgeted /\ k \notin Unspent
      BY <2>2, UnspentRemain DEF Budgeted
    <3>2. budgets[k] \in Budget /\ ~(Deadline(budgets[k]) > 0)
      BY <3>1, BudgetTyped DEF Unspent, BudgetInv
    <3>3. budgets[k].reset = 0 /\ budgets[k].blocked = 0
      BY <3>2 DEF Deadline, Larger, Budget
    <3>4. budgets'[k].reset = 0 /\ budgets'[k].blocked = 0
      BY <2>2, <3>3 DEF Tick, Earlier
    <3>5. k \notin Unspent'
      BY <3>4 DEF Unspent, Deadline, Larger
    <3> QED BY <1>2, <3>5
  <2> QED BY <2>1, <2>2
<1>5. \A k \in Key : k \in Remaining => TableOf[k] = budgets[k]
  BY <1>1
<1> QED BY <1>1, <1>2, <1>3, <1>4, <1>5 DEF Table!Tick

\* Each step of the budgets is a step of the table or none.
LEMMA BudgetStepMaps ==
  ASSUME BudgetInv, [Next]_vars
  PROVE  [Table!Next]_TableOf
<1>0. \A k \in Key : /\ BudgetOf(k) \in Budget
                     /\ Table!BudgetOf(k) = BudgetOf(k) /\ (Table!HasRoom(k) <=> HasRoom(k))
  BY OpenIsRemaining, BudgetOfTyped
<1>1. ASSUME NEW k \in Key, Admit(k) PROVE Table!Admit(k)
  <2> DEFINE old == BudgetOf(k)
             b == [old EXCEPT !.used = @ + 1]
  <2>1. old \in Budget /\ Table!BudgetOf(k) = old /\ Table!HasRoom(k)
    BY <1>0, <1>1 DEF Admit
  <2>2. Store(k, b) /\ old.blocked = 0 /\ old.used < Requests
    BY <1>1 DEF Admit
  <2>3. b \in Budget /\ b.reset = old.reset /\ b.blocked >= old.blocked
    BY <2>1 DEF Budget
  <2>4. TableOf' = [TableOf EXCEPT ![k] = b]
    <3> HIDE DEF b
    <3> QED BY <2>2, <2>3, StoreMaps
  <2> QED BY <2>1, <2>2, <2>4 DEF Table!Admit
<1>2. ASSUME NEW k \in Key, Refuse(k)
      PROVE  \E delay \in Backoff..MaxBackoff : Table!Block(k, delay)
  <2> DEFINE old == BudgetOf(k)
             delay == Smaller(MaxBackoff, Backoff * 2 ^ Smaller(old.denials, 32))
             b == [reset |-> old.reset, used |-> old.used, denials |-> old.denials + 1,
                   blocked |-> delay]
  <2>1. old \in Budget /\ Table!BudgetOf(k) = old /\ Table!HasRoom(k)
    BY <1>0, <1>2 DEF Refuse
  <2>2. Store(k, b) /\ old.blocked = 0 /\ old.used >= Requests
    BY <1>2 DEF Refuse
  <2>3. delay \in Backoff..MaxBackoff
    BY <2>1, DelayInLimits DEF Budget
  <2> HIDE DEF delay
  <2>4. b \in Budget /\ b.reset = old.reset /\ b.blocked >= old.blocked
    BY <2>1, <2>2, <2>3, RateLimitAssumption DEF Budget
  <2>5. TableOf' = [TableOf EXCEPT ![k] = b]
    <3> HIDE DEF b
    <3> QED BY <2>2, <2>4, StoreMaps
  <2>6. Table!Block(k, delay)
    BY <2>1, <2>2, <2>5 DEF Table!Block
  <2> QED BY <2>3, <2>6
<1>3. ASSUME NEW k \in Key, RefuseBlocked(k) PROVE TableOf' = TableOf
  <2> DEFINE b == BudgetOf(k)
  <2>1. b \in Budget /\ Store(k, b) /\ b.blocked > 0
    BY <1>0, <1>3 DEF RefuseBlocked
  <2>2. k \in Remaining
    BY <2>1 DEF BudgetOf, NewBudget
  <2>3. b.blocked >= b.blocked
    BY <2>1 DEF Budget
  <2>4. TableOf' = [TableOf EXCEPT ![k] = b]
    <3> HIDE DEF b
    <3>1. PICK c \in Budget : c = b
      BY <2>1
    <3>2. Store(k, c) /\ c.reset = BudgetOf(k).reset /\ c.blocked >= BudgetOf(k).blocked
      BY <2>1, <2>3, <3>1 DEF b
    <3> QED BY <3>1, <3>2, StoreMaps
  <2>5. TableOf[k] = b /\ TableOf = [j \in Key |-> TableOf[j]]
    BY <2>2, OpenIsRemaining DEF BudgetOf
  <2> HIDE DEF b
  <2> QED BY <2>4, <2>5
<1>4. ASSUME NEW k \in Key, RefuseNewKey(k) PROVE TableOf' = TableOf
  <2>1. /\ TableOf = [j \in Key |-> IF j \in Remaining THEN budgets[j] ELSE NoBudget]
        /\ TableOf' = [j \in Key |-> IF j \in Unspent' THEN budgets'[j] ELSE NoBudget]
    BY OpenIsRemaining DEF TableOf
  <2>2. \A j \in Key : budgets'[j] = IF j \in Over THEN NoBudget ELSE budgets[j]
    BY <1>4 DEF RefuseNewKey
  <2>3. \A j \in Remaining : budgets[j] # NoBudget /\ Deadline(budgets[j]) > 0 /\ j \in Key
    BY UnspentRemain
  <2>4. \A j \in Key : j \in Unspent' <=> j \in Remaining
    BY <2>2, <2>3 DEF Unspent, Budgeted, Remaining, Deadline
  <2>5. \A j \in Remaining : budgets'[j] = budgets[j]
    BY <2>2, <2>3 DEF Remaining
  <2> QED BY <2>1, <2>4, <2>5
<1>5. CASE Tick
  BY <1>5, TickMaps DEF Table!Next
<1>6. CASE UNCHANGED vars
  BY <1>6 DEF vars, TableOf, Unspent, Budgeted, Deadline
<1>7. CASE \E k \in Key : Admit(k) \/ RefuseNewKey(k) \/ RefuseBlocked(k) \/ Refuse(k)
  BY <1>1, <1>2, <1>3, <1>4, <1>7 DEF Table!Next
<1> QED BY <1>5, <1>6, <1>7 DEF Next

\* The dict and the heap with its late clean-up implement a table whose budgets end when
\* their time is over, for any keys and limits (rate_limit.py:54-100).
THEOREM BudgetsImplementTable == Spec => ImplementsTable
<1>1. Init => Table!Init
  BY DEF Init, TableOf, Unspent, Budgeted, Table!Init
<1> QED BY <1>1, BudgetStepMaps, BudgetInvHolds, PTL DEF Spec, ImplementsTable, Table!Spec

\* A request is admitted or refused as that table has it: what is over and not yet removed
\* takes no place and blocks no key (rate_limit.py:57-75).
THEOREM DecisionsAlwaysAgree == Spec => []DecisionsAgree
<1>1. BudgetInv => DecisionsAgree
  BY OpenIsRemaining DEF DecisionsAgree
<1> QED BY <1>1, BudgetInvHolds, PTL

--------------------------------------------------------------------------------
(* The grants.                                                                  *)

GrantsInv == CountIsExact /\ stored \subseteq Owner \X Channel

\* The sizes that the counter follows.
LEMMA GrantSizes ==
  ASSUME GrantsInv
  PROVE  /\ \A S \in SUBSET stored : /\ IsFiniteSet(S) /\ Cardinality(S) \in Nat
                                     /\ Cardinality(S) <= Cardinality(stored)
                                     /\ Cardinality(stored \ S) = Cardinality(stored) - Cardinality(S)
         /\ count \in Nat /\ MaxGrants \in Nat
<1>1. IsFiniteSet(stored)
  BY FS_Subset, MemoryGrantsAssumption DEF GrantsInv
<1>2. \A S \in SUBSET stored : IsFiniteSet(S) /\ Cardinality(S) \in Nat
                               /\ Cardinality(S) <= Cardinality(stored)
  BY <1>1, FS_Subset, FS_CardinalityType
<1>3. ASSUME NEW S \in SUBSET stored
      PROVE  Cardinality(stored \ S) = Cardinality(stored) - Cardinality(S)
  <2>1. stored \intersect S = S
    OBVIOUS
  <2> QED BY <1>1, <1>2, <2>1, FS_Difference
<1>4. Cardinality(stored) \in Nat
  BY <1>1, FS_CardinalityType
<1> QED BY <1>2, <1>3, <1>4, MemoryGrantsAssumption DEF GrantsInv, CountIsExact

\* What a grant finds once the purge is over.
LEMMA PurgeCounts ==
  ASSUME GrantsInv
  PROVE  /\ Left \subseteq stored /\ IsFiniteSet(Left) /\ Counted = Cardinality(Left)
         /\ Counted \in Nat /\ Counted <= MaxGrants
<1>1. Left \subseteq stored /\ (count < MaxGrants => Left = stored)
  BY GrantSizes DEF Left
<1>2. /\ IsFiniteSet(Left) /\ Cardinality(Left) \in Nat
      /\ Cardinality(Left) <= Cardinality(stored)
      /\ count = Cardinality(stored) /\ count <= MaxGrants /\ count \in Nat /\ MaxGrants \in Nat
  BY <1>1, GrantSizes DEF GrantsInv, CountIsExact
<1>3. CASE count >= MaxGrants
  BY <1>1, <1>2, <1>3 DEF Counted
<1>4. CASE count < MaxGrants
  BY <1>1, <1>2, <1>4 DEF Counted
<1> QED BY <1>2, <1>3, <1>4

\* Every operation on the grants keeps the counter.
LEMMA GrantsInvNext == GrantsInv /\ [GrantsNext]_grantVars => GrantsInv'
<1> SUFFICES ASSUME GrantsInv, [GrantsNext]_grantVars PROVE GrantsInv'
  OBVIOUS
<1>0. /\ count = Cardinality(stored) /\ count <= MaxGrants /\ lapsed \subseteq stored
      /\ stored \subseteq Owner \X Channel /\ count \in Nat /\ MaxGrants \in Nat
  BY GrantSizes DEF GrantsInv, CountIsExact
<1>1. ASSUME NEW g \in Owner \X Channel, Grant(g) PROVE GrantsInv'
  <2>1. /\ Left \subseteq stored /\ IsFiniteSet(Left) /\ Counted = Cardinality(Left)
        /\ Counted \in Nat /\ Counted <= MaxGrants
    BY PurgeCounts
  <2>2. CASE stored' = Left /\ count' = Counted
    BY <1>0, <1>1, <2>1, <2>2 DEF Grant, GrantsInv, CountIsExact
  <2>3. CASE g \notin Left /\ Counted < MaxGrants /\ stored' = Left \union {g}
             /\ count' = Counted + 1 /\ lapsed' = lapsed \intersect Left
    <3>1. Cardinality(stored') = Cardinality(Left) + 1
      BY <2>1, <2>3, FS_AddElement
    <3> QED BY <1>0, <2>1, <2>3, <3>1 DEF GrantsInv, CountIsExact
  <2> QED BY <1>1, <2>2, <2>3 DEF Grant
<1>2. ASSUME NEW g \in Owner \X Channel, Revoke(g) PROVE GrantsInv'
  <2>1. {g} \in SUBSET stored /\ stored' = stored \ {g} /\ count' = count - 1
        /\ lapsed' = lapsed \ {g}
    BY <1>2 DEF Revoke
  <2>2. Cardinality({g}) = 1
    BY FS_Singleton
  <2>3. Cardinality(stored') = Cardinality(stored) - 1
    BY <2>1, <2>2, GrantSizes
  <2> QED BY <1>0, <2>1, <2>3 DEF GrantsInv, CountIsExact
<1>3. ASSUME NEW c \in Channel, RemoveChannel(c) PROVE GrantsInv'
  <2> DEFINE gone == {g \in stored : g[2] = c}
  <2>1. gone \in SUBSET stored /\ stored' = stored \ gone /\ lapsed' = lapsed \ gone
        /\ count' = count - Cardinality(gone)
    BY <1>3 DEF RemoveChannel
  <2> HIDE DEF gone
  <2>2. Cardinality(stored') = Cardinality(stored) - Cardinality(gone)
        /\ Cardinality(gone) \in Nat
    BY <2>1, GrantSizes
  <2> QED BY <1>0, <2>1, <2>2 DEF GrantsInv, CountIsExact
<1>4. ASSUME NEW g \in Owner \X Channel, Lapse(g) PROVE GrantsInv'
  BY <1>0, <1>4 DEF Lapse, GrantsInv, CountIsExact
<1>5. CASE UNCHANGED grantVars
  BY <1>0, <1>5 DEF grantVars, GrantsInv, CountIsExact
<1> QED BY <1>1, <1>2, <1>3, <1>4, <1>5 DEF GrantsNext

\* The counter of grants is exact through any grants, revocations, removals of channels
\* and purges (channel_grants.py:47-88).
THEOREM GrantsAreCounted == GrantsInit /\ [][GrantsNext]_grantVars => []CountIsExact
<1>1. GrantsInit => GrantsInv
  BY FS_EmptySet, MemoryGrantsAssumption DEF GrantsInit, GrantsInv, CountIsExact
<1>2. GrantsInv => CountIsExact
  BY DEF GrantsInv
<1> QED BY <1>1, <1>2, GrantsInvNext, PTL

\* What the purge would leave is in force, and it leaves room for those that are refused
\* none by the count.
LEMMA RoomIsReal ==
  ASSUME GrantsInv
  PROVE  /\ Left \ lapsed = stored \ lapsed /\ Left \subseteq stored
         /\ \A g \in Owner \X Channel : (g \in Left \/ Counted < MaxGrants) <=> Granted!HasRoom(g)
<1>1. /\ Left \subseteq stored /\ IsFiniteSet(Left) /\ Counted = Cardinality(Left)
      /\ Counted \in Nat
  BY PurgeCounts
<1>2. Left \ lapsed = stored \ lapsed
  BY DEF Left
<1>3. /\ Cardinality(stored \ lapsed) \in Nat /\ Cardinality(stored \ lapsed) <= Cardinality(stored)
      /\ count = Cardinality(stored) /\ count \in Nat /\ MaxGrants \in Nat
  <2>1. (stored \ lapsed) \in SUBSET stored
    OBVIOUS
  <2> QED BY <2>1, GrantSizes DEF GrantsInv, CountIsExact
<1>4. Granted!Cardinality(stored \ lapsed) = Cardinality(stored \ lapsed)
  BY DEF Granted!Cardinality, Cardinality
<1>5. ASSUME NEW g \in Owner \X Channel
      PROVE  (g \in Left \/ Counted < MaxGrants) <=> Granted!HasRoom(g)
  <2>1. CASE count >= MaxGrants
    <3>1. Left = stored \ lapsed
      BY <2>1 DEF Left
    <3> QED BY <1>1, <1>4, <3>1 DEF Granted!HasRoom
  <2>2. CASE count < MaxGrants
    <3>1. Counted < MaxGrants /\ Cardinality(stored \ lapsed) < MaxGrants
      BY <1>3, <2>2 DEF Counted
    <3> QED BY <1>4, <3>1 DEF Granted!HasRoom
  <2> QED BY <1>3, <2>1, <2>2
<1> QED BY <1>1, <1>2, <1>5

\* Each operation of the store is one of the set of grants in force, or changes nothing of it.
LEMMA GrantStepMaps ==
  ASSUME GrantsInv, [GrantsNext]_grantVars
  PROVE  [Granted!Next]_(stored \ lapsed)
<1> DEFINE force == stored \ lapsed
<1>0. Left \ lapsed = force /\ Left \subseteq stored /\ lapsed \subseteq stored
  BY RoomIsReal DEF GrantsInv, CountIsExact
<1>1. ASSUME NEW g \in Owner \X Channel, Grant(g)
      PROVE  Granted!Grant(g) \/ force' = force
  <2>1. CASE /\ g \in Left /\ stored' = Left /\ lapsed' = lapsed \intersect (Left \ {g})
    <3>1. force' = force \union {g}
      BY <1>0, <2>1
    <3>2. Granted!HasRoom(g)
      BY <2>1, RoomIsReal
    <3> QED BY <3>1, <3>2 DEF Granted!Grant
  <2>2. CASE /\ g \notin Left /\ Counted < MaxGrants /\ stored' = Left \union {g}
             /\ lapsed' = lapsed \intersect Left
    <3>1. force' = force \union {g}
      BY <1>0, <2>2
    <3>2. Granted!HasRoom(g)
      BY <2>2, RoomIsReal
    <3> QED BY <3>1, <3>2 DEF Granted!Grant
  <2>3. CASE stored' = Left /\ lapsed' = lapsed \intersect Left
    BY <1>0, <2>3
  <2> QED BY <1>1, <2>1, <2>2, <2>3 DEF Grant
<1>2. ASSUME NEW g \in Owner \X Channel, Revoke(g) \/ Lapse(g)
      PROVE  Granted!End(g)
  BY <1>2 DEF Revoke, Lapse, Granted!End
<1>3. ASSUME NEW c \in Channel, RemoveChannel(c)
      PROVE  Granted!EndOfChannel(c)
  BY <1>3 DEF RemoveChannel, Granted!EndOfChannel
<1>4. CASE UNCHANGED grantVars
  BY <1>4 DEF grantVars
<1> QED BY <1>1, <1>2, <1>3, <1>4 DEF GrantsNext, Granted!Next

\* The store with its counter and its late purge implements a set of grants that end when
\* they should, for any principals, channels and limit (channel_grants.py:47-88).
THEOREM GrantsImplementSet == GrantsInit /\ [][GrantsNext]_grantVars => ImplementsGrants
<1>1. GrantsInit => GrantsInv /\ Granted!Init
  BY FS_EmptySet, MemoryGrantsAssumption
  DEF GrantsInit, GrantsInv, CountIsExact, Granted!Init
<1> QED BY <1>1, GrantsInvNext, GrantStepMaps, PTL DEF ImplementsGrants, Granted!Spec

\* A grant is refused only when as many as the limit are in force (channel_grants.py:47-61).
THEOREM GrantsRefusedWhenFull ==
  GrantsInit /\ [][GrantsNext]_grantVars => []GrantDecisionsAgree
<1>1. GrantsInit => GrantsInv
  BY FS_EmptySet, MemoryGrantsAssumption DEF GrantsInit, GrantsInv, CountIsExact
<1>2. GrantsInv => GrantDecisionsAgree
  BY RoomIsReal DEF GrantDecisionsAgree
<1> QED BY <1>1, <1>2, GrantsInvNext, PTL
===============================================================================
