------------------------- MODULE SubscriptionsProofs --------------------------
(***************************************************************************)
(* Proofs about Subscriptions for any sets of sessions, uris and           *)
(* connections and any limits.                                             *)
(*                                                                         *)
(* SubInv adds to the properties what makes them inductive: a session is   *)
(* in the map once (Distinct), a subscriber holds no detached set          *)
(* (Attached), and, once a provider's replay began, each uri is still to   *)
(* be sent, is watched or was unwatched, or all its subscribers wait for   *)
(* their own answer (Covered).                                             *)
(***************************************************************************)
EXTENDS Subscriptions, FiniteSetTheorems, SequenceTheorems, TLAPS

Distinct ==
  \A i, j \in 1..Len(sessions) : sessions[i] = sessions[j] => i = j

Attached ==
  \A x \in Session, u \in Uri : x \in subscribers[u] => op[x][u] # "detached"

Accounted(u) ==
  \/ u \in watch \union unwatched
  \/ u \in replay[websocket]
  \/ \A x \in subscribers[u] : op[x][u] = "subscribing"

Covered ==
  websocket # None =>
    /\ endpoint[websocket] \in {"attached", "replaying", "serving"}
    /\ endpoint[websocket] = "serving" => replay[websocket] = {}
    /\ endpoint[websocket] # "attached" => \A u \in Uri : Accounted(u)

SubInv ==
  /\ TypeOK /\ Distinct /\ NothingLeftBehind
  /\ IsFiniteSet(Subscribed) /\ UrisBounded
  /\ Attached /\ Covered

--------------------------------------------------------------------------------
(* The map of sessions.                                                         *)

SessionsOK == sessions \in Seq(Session) /\ Len(sessions) <= MaxSessions /\ Distinct

\* Without takes x out, and keeps the others in their order.
LEMMA WithoutTyped ==
  ASSUME SessionsOK, NEW x \in Session
  PROVE  /\ Without(x) \in Seq(Session) /\ ToSet(Without(x)) = Live \ {x}
         /\ x \in Live => Len(Without(x)) = Len(sessions) - 1
         /\ x \notin Live => Len(Without(x)) = Len(sessions)
         /\ \A i, j \in 1..Len(Without(x)) : Without(x)[i] = Without(x)[j] => i = j
<1>1. sessions \in Seq(Session) /\ Len(sessions) \in Nat /\ DOMAIN sessions = 1..Len(sessions)
  BY DEF SessionsOK
<1> DEFINE at == {i \in DOMAIN sessions : sessions[i] = x}
<1>2. CASE x \notin Live
  <2>1. at = {}
    BY <1>2 DEF Live, ToSet
  <2>2. Without(x) = sessions
    BY <2>1 DEF Without
  <2>3. ToSet(Without(x)) = Live \ {x}
    BY <1>2, <2>2 DEF Live
  <2> QED BY <1>1, <1>2, <2>2, <2>3 DEF SessionsOK, Distinct
<1>3. CASE x \in Live
  <2> DEFINE p == CHOOSE i \in at : TRUE
             rest == RemoveAt(sessions, p)
             n == Len(sessions)
  <2>1. at # {} /\ p \in at
    BY <1>3 DEF Live, ToSet
  <2>2. Without(x) = rest
    BY <2>1 DEF Without
  <2> HIDE DEF p
  <2>p. p \in 1..n /\ sessions[p] = x
    BY <1>1, <2>1
  <2> DEFINE a == SubSeq(sessions, 1, p - 1)
             b == SubSeq(sessions, p + 1, n)
  <2>3. p \in Nat /\ n \in Nat /\ 1 <= p /\ p <= n
    BY <1>1, <2>p
  <2>a. /\ a \in Seq(Session) /\ Len(a) = p - 1
        /\ \A i \in 1..(p - 1) : a[i] = sessions[i]
    <3>1. 1 \in 1..(n + 1) /\ p - 1 \in 0..n
      BY <2>3
    <3>2. /\ a \in Seq(Session) /\ Len(a) = IF 1 <= p - 1 THEN (p - 1) - 1 + 1 ELSE 0
          /\ \A i \in 1..((p - 1) - 1 + 1) : a[i] = sessions[1 + i - 1]
      BY <1>1, <2>3, <3>1, SubSeqProperties
    <3> HIDE DEF a
    <3> QED BY <2>3, <3>2
  <2>b. /\ b \in Seq(Session) /\ Len(b) = n - p
        /\ \A i \in 1..(n - p) : b[i] = sessions[p + i]
    <3>1. p + 1 \in 1..(n + 1) /\ n \in 0..n
      BY <2>3
    <3>2. /\ b \in Seq(Session) /\ Len(b) = IF p + 1 <= n THEN n - (p + 1) + 1 ELSE 0
          /\ \A i \in 1..(n - (p + 1) + 1) : b[i] = sessions[(p + 1) + i - 1]
      BY <1>1, <2>3, <3>1, SubSeqProperties
    <3> HIDE DEF b
    <3> QED BY <2>3, <3>2
  <2>4. /\ rest \in Seq(Session) /\ Len(rest) = n - 1
        /\ \A i \in 1..(n - 1) : rest[i] = IF i < p THEN sessions[i] ELSE sessions[i + 1]
    <3>1. rest = a \o b
      BY DEF RemoveAt
    <3> HIDE DEF a, b, rest
    <3>2. /\ a \o b \in Seq(Session) /\ Len(a \o b) = Len(a) + Len(b)
          /\ \A i \in 1..(Len(a) + Len(b)) :
               (a \o b)[i] = IF i <= Len(a) THEN a[i] ELSE b[i - Len(a)]
      BY <2>a, <2>b, ConcatProperties
    <3> QED BY <2>3, <2>a, <2>b, <3>1, <3>2
  <2> HIDE DEF rest
  <2>5. \A i, j \in 1..(n - 1) : rest[i] = rest[j] => i = j
    BY <1>1, <2>p, <2>4 DEF SessionsOK, Distinct
  <2>6. ToSet(rest) = Live \ {x}
    <3>1. \A i \in 1..(n - 1) : rest[i] \in Live \ {x}
      BY <1>1, <2>p, <2>4 DEF SessionsOK, Distinct, Live, ToSet
    <3>2. ASSUME NEW y \in Live \ {x} PROVE \E i \in 1..(n - 1) : rest[i] = y
      <4>1. PICK j \in 1..n : sessions[j] = y
        BY <1>1 DEF Live, ToSet
      <4>2. CASE j < p
        BY <1>1, <2>p, <2>4, <4>1, <4>2
      <4>3. CASE j > p
        <5>1. j - 1 \in 1..(n - 1) /\ ~(j - 1 < p) /\ (j - 1) + 1 = j
          BY <1>1, <2>p, <4>1, <4>3
        <5> QED BY <2>4, <4>1, <5>1
      <4> QED BY <1>1, <2>p, <4>1, <4>2, <4>3
    <3>3. DOMAIN rest = 1..(n - 1)
      BY <1>1, <2>4
    <3> QED BY <3>1, <3>2, <3>3 DEF ToSet
  <2> QED BY <1>3, <2>2, <2>4, <2>5, <2>6
<1> QED BY <1>2, <1>3

\* A remembered session is last, and what the map held it holds, but for what it evicts.
LEMMA RememberedTyped ==
  ASSUME SessionsOK, NEW x \in Session, sessions' = Remembered(x)
  PROVE  /\ SessionsOK' /\ x \in Live' /\ Last(sessions') = x
         /\ Live \ Evicted(x) \subseteq Live' /\ Live' = ToSet(Remembered(x))
<1> DEFINE order == Append(Without(x), x)
           n == Len(Without(x))
<1>1. /\ Without(x) \in Seq(Session) /\ n \in Nat /\ n <= MaxSessions
      /\ \A i, j \in 1..n : Without(x)[i] = Without(x)[j] => i = j
      /\ \A i \in 1..n : Without(x)[i] # x
  <2>1. /\ Without(x) \in Seq(Session) /\ ToSet(Without(x)) = Live \ {x}
        /\ x \in Live => n = Len(sessions) - 1
        /\ x \notin Live => n = Len(sessions)
        /\ \A i, j \in 1..n : Without(x)[i] = Without(x)[j] => i = j
    <3> HIDE DEF n
    <3> QED BY WithoutTyped DEF n
  <2>2. \A i \in 1..n : Without(x)[i] # x
    BY <2>1 DEF ToSet
  <2> QED BY <2>1, <2>2, SubscriptionsAssumption DEF SessionsOK
<1>2. /\ order \in Seq(Session) /\ Len(order) = n + 1 /\ order[n + 1] = x
      /\ \A i \in 1..n : order[i] = Without(x)[i]
  BY <1>1
<1>3. \A i, j \in 1..(n + 1) : order[i] = order[j] => i = j
  BY <1>1, <1>2
<1>4. sessions' = IF n + 1 > MaxSessions THEN Tail(order) ELSE order
  BY <1>2 DEF Remembered
<1> HIDE DEF order
<1>5. SessionsOK' /\ Last(sessions') = x /\ x \in Live'
  <2>1. CASE n + 1 > MaxSessions
    <3>1. /\ sessions' = Tail(order) /\ n >= 1 /\ order # <<>>
      BY <1>1, <1>2, <1>4, <2>1, SubscriptionsAssumption
    <3>2. /\ sessions' \in Seq(Session) /\ Len(sessions') = n
          /\ \A i \in 1..n : sessions'[i] = order[i + 1]
      BY <1>1, <1>2, <3>1
    <3>3. sessions'[n] = x /\ n \in DOMAIN sessions'
      BY <1>1, <1>2, <3>1, <3>2
    <3> QED BY <1>1, <1>3, <3>2, <3>3 DEF SessionsOK, Distinct, Last, Live, ToSet
  <2>2. CASE ~(n + 1 > MaxSessions)
    <3>1. sessions' = order /\ n + 1 \in DOMAIN order
      BY <1>1, <1>2, <1>4, <2>2
    <3> QED
      BY <1>1, <1>2, <1>3, <2>2, <3>1, SubscriptionsAssumption
      DEF SessionsOK, Distinct, Last, Live, ToSet
  <2> QED BY <2>1, <2>2
<1>6. Live' = ToSet(Remembered(x))
  BY DEF Live, ToSet
<1> QED BY <1>5, <1>6 DEF Evicted

\* A step that remembers x keeps nothing of what it evicts.
LEMMA RememberKeeps ==
  ASSUME SubInv, NEW x \in Session, sessions' = Remembered(x),
         levels' \subseteq (levels \ Evicted(x)) \union {x},
         \A u \in Uri : subscribers'[u] \subseteq (subscribers[u] \ Evicted(x)) \union {x}
  PROVE  /\ sessions' \in Seq(Session) /\ Len(sessions') <= MaxSessions /\ Distinct'
         /\ levels' \in SUBSET Session /\ NothingLeftBehind'
         /\ Last(sessions') = x /\ \A y \in Evicted(x) : y \notin ToSet(sessions')
<1>1. /\ SessionsOK' /\ x \in Live' /\ Last(sessions') = x
      /\ Live \ Evicted(x) \subseteq Live' /\ Live' = ToSet(Remembered(x))
  BY RememberedTyped DEF SubInv, TypeOK, SessionsOK
<1>2. levels \subseteq Live /\ levels \in SUBSET Session /\ \A u \in Uri : subscribers[u] \subseteq Live
  BY DEF SubInv, TypeOK, NothingLeftBehind
<1>3. levels' \subseteq Live' /\ levels' \in SUBSET Session
      /\ \A u \in Uri : subscribers'[u] \subseteq Live'
  BY <1>1, <1>2
<1>4. NothingLeftBehind'
  BY <1>3 DEF NothingLeftBehind
<1>5. \A y \in Evicted(x) : y \notin ToSet(sessions')
  BY <1>1 DEF Evicted, Live
<1> QED BY <1>1, <1>3, <1>4, <1>5 DEF SessionsOK

\* A session that is dropped takes its subscriptions and its log level along.
LEMMA DropKeeps ==
  ASSUME SubInv, NEW x \in Session, DropDead(x)
  PROVE  /\ sessions' \in Seq(Session) /\ Len(sessions') <= MaxSessions /\ Distinct'
         /\ levels' \in SUBSET Session /\ NothingLeftBehind' /\ x \notin ToSet(sessions')
<1>1. /\ SessionsOK /\ MaxSessions \in Nat /\ x \in Live /\ sessions' = Without(x)
      /\ levels' = levels \ {x} /\ subscribers' = Forget({x})
  BY SubscriptionsAssumption DEF DropDead, SubInv, TypeOK, SessionsOK
<1>2. /\ Without(x) \in Seq(Session) /\ ToSet(Without(x)) = Live \ {x}
      /\ Len(Without(x)) = Len(sessions) - 1
      /\ \A i, j \in 1..Len(Without(x)) : Without(x)[i] = Without(x)[j] => i = j
  BY <1>1, WithoutTyped
<1>3. Live' = Live \ {x}
  BY <1>1, <1>2 DEF Live, ToSet
<1>4. levels \subseteq Live /\ levels \in SUBSET Session /\ \A u \in Uri : subscribers[u] \subseteq Live
  BY DEF SubInv, TypeOK, NothingLeftBehind
<1>5. NothingLeftBehind'
  <2>1. \A u \in Uri : subscribers'[u] \subseteq Live'
    BY <1>1, <1>3, <1>4 DEF Forget
  <2> QED BY <1>1, <1>3, <1>4, <2>1 DEF NothingLeftBehind
<1>6. Len(sessions') <= MaxSessions /\ sessions' \in Seq(Session)
  BY <1>1, <1>2 DEF SessionsOK
<1>7. Distinct'
  BY <1>1, <1>2 DEF Distinct
<1> QED BY <1>1, <1>2, <1>4, <1>5, <1>6, <1>7

--------------------------------------------------------------------------------
(* Subscriptions and requests in flight.                                        *)

Ops == [Session -> [Uri -> {"none", "unsubscribing"} \union Reserved]]

\* Only the sets that left the map are detached.
LEMMA DetachTyped ==
  ASSUME TypeOK, NEW kept \in [Uri -> SUBSET Session]
  PROVE  /\ Detach(kept) \in Ops
         /\ \A x \in Session, u \in Uri :
              /\ x \in kept[u] => Detach(kept)[x][u] = op[x][u]
              /\ Detach(kept)[x][u] # op[x][u] =>
                   op[x][u] = "subscribing" /\ Detach(kept)[x][u] = "detached" /\ kept[u] = {}
<1>1. op \in Ops
  BY DEF TypeOK, Ops
<1>2. \A x \in Session, u \in Uri :
        Detach(kept)[x][u] = IF kept[u] = {} /\ op[x][u] = "subscribing" THEN "detached"
                             ELSE op[x][u]
  BY DEF Detach
<1>3. Detach(kept) \in Ops
  BY <1>1 DEF Detach, Ops, Reserved
<1> QED BY <1>2, <1>3

Placed(d, x, u, r) == [d EXCEPT ![x][u] = r]

\* A request of one session for one uri changes its place.
LEMMA OneOp ==
  ASSUME NEW d \in Ops, NEW x \in Session, NEW u \in Uri,
         NEW r \in {"none", "unsubscribing"} \union Reserved,
         op' = Placed(d, x, u, r)
  PROVE  /\ op' \in Ops /\ op'[x][u] = r
         /\ \A y \in Session, v \in Uri : <<y, v>> # <<x, u>> => op'[y][v] = d[y][v]
<1> DEFINE states == {"none", "unsubscribing"} \union Reserved
           row == [d[x] EXCEPT ![u] = r]
<1>1. r \in states /\ d \in [Session -> [Uri -> states]]
  BY DEF Ops
<1> HIDE DEF states
<1>2. row \in [Uri -> states] /\ row[u] = r /\ \A v \in Uri : v # u => row[v] = d[x][v]
  BY <1>1
<1>3. op' = [d EXCEPT ![x] = row]
  BY DEF Placed
<1> HIDE DEF row
<1>4. /\ op' \in [Session -> [Uri -> states]] /\ op'[x] = row
      /\ \A y \in Session : y # x => op'[y] = d[y]
  BY <1>1, <1>2, <1>3
<1> QED BY <1>2, <1>4 DEF Ops, states

\* A client's step that adds no subscriber keeps uris bounded and accounted for.
LEMMA FewerKeeps ==
  ASSUME SubInv, UNCHANGED <<websocket, endpoint, replay>>,
         \A u \in Uri : subscribers'[u] \subseteq subscribers[u],
         watch \union unwatched \subseteq watch' \union unwatched',
         \A u \in Uri : \A x \in subscribers'[u] :
           /\ op'[x][u] # "detached"
           /\ op[x][u] = "subscribing" =>
                op'[x][u] = "subscribing" \/ u \in watch' \union unwatched'
  PROVE  Attached' /\ Covered' /\ IsFiniteSet(Subscribed)' /\ UrisBounded'
<1>1. Attached'
  BY DEF Attached
<1>2. Covered'
  BY DEF SubInv, Covered, Accounted
<1>3. Subscribed' \subseteq Subscribed
  BY DEF Subscribed
<1>4. IsFiniteSet(Subscribed') /\ Cardinality(Subscribed') <= Cardinality(Subscribed)
      /\ Cardinality(Subscribed') \in Nat /\ Cardinality(Subscribed) \in Nat
  BY <1>3, FS_Subset, FS_CardinalityType DEF SubInv
<1>5. UrisBounded'
  BY <1>4, SubscriptionsAssumption DEF SubInv, UrisBounded
<1> QED BY <1>1, <1>2, <1>4, <1>5

\* A session that asks nothing, or whose request is refused.
LEMMA TouchKeeps ==
  ASSUME SubInv, NEW x \in Session, sessions' = Remembered(x),
         levels' \subseteq (levels \ Evicted(x)) \union {x},
         subscribers' \in [Uri -> SUBSET Session],
         \A u \in Uri : subscribers'[u] \subseteq subscribers[u] \ Evicted(x),
         op' = Detach(subscribers'), UNCHANGED <<doomed, providerVars, closed>>
  PROVE  SubInv'
<1>1. /\ sessions' \in Seq(Session) /\ Len(sessions') <= MaxSessions /\ Distinct'
      /\ levels' \in SUBSET Session /\ NothingLeftBehind'
  BY RememberKeeps
<1>2. /\ op' \in Ops
      /\ \A y \in Session, u \in Uri : y \in subscribers'[u] => op'[y][u] = op[y][u]
  BY DetachTyped DEF SubInv
<1>3. TypeOK'
  BY <1>1, <1>2 DEF SubInv, TypeOK, Ops, providerVars
<1>4. \A u \in Uri : \A y \in subscribers'[u] :
        y \in Session /\ op'[y][u] = op[y][u] /\ op[y][u] # "detached"
  BY <1>2 DEF SubInv, Attached
<1>5. Attached' /\ Covered' /\ IsFiniteSet(Subscribed)' /\ UrisBounded'
  BY <1>4, FewerKeeps DEF providerVars
<1> QED BY <1>1, <1>3, <1>5 DEF SubInv

\* The answer to a request of x for u, given or not.
LEMMA AnswerKeeps ==
  ASSUME SubInv, NEW x \in Session, NEW u \in Uri,
         subscribers' \in [Uri -> SUBSET Session],
         \A v \in Uri : subscribers'[v] \subseteq subscribers[v],
         NEW d \in Ops, op' = Placed(d, x, u, "none"),
         \A y \in Session, v \in Uri : y \in subscribers'[v] => d[y][v] = op[y][v],
         x \in subscribers'[u] /\ op[x][u] = "subscribing" => u \in watch' \union unwatched',
         watch' \in SUBSET Uri, unwatched' \in SUBSET Uri,
         watch \union unwatched \subseteq watch' \union unwatched',
         doomed' \subseteq doomed,
         UNCHANGED <<sessions, levels, websocket, endpoint, replay, closed>>
  PROVE  SubInv'
<1>2. /\ op' \in Ops /\ op'[x][u] = "none"
      /\ \A y \in Session, v \in Uri : <<y, v>> # <<x, u>> => op'[y][v] = d[y][v]
  <2> DEFINE r == "none"
  <2>1. op' = Placed(d, x, u, r) /\ r \in {"none", "unsubscribing"} \union Reserved
    OBVIOUS
  <2> HIDE DEF r
  <2>2. /\ op' \in Ops /\ op'[x][u] = r
        /\ \A y \in Session, v \in Uri : <<y, v>> # <<x, u>> => op'[y][v] = d[y][v]
    BY <2>1, OneOp
  <2> QED BY <2>2 DEF r
<1>3. TypeOK'
  BY <1>2 DEF SubInv, TypeOK, Ops
<1>4. \A v \in Uri : \A y \in subscribers'[v] :
        /\ op'[y][v] # "detached"
        /\ op[y][v] = "subscribing" =>
             op'[y][v] = "subscribing" \/ v \in watch' \union unwatched'
  <2> SUFFICES ASSUME NEW v \in Uri, NEW y \in subscribers'[v]
               PROVE  /\ op'[y][v] # "detached"
                      /\ op[y][v] = "subscribing" =>
                           op'[y][v] = "subscribing" \/ v \in watch' \union unwatched'
    OBVIOUS
  <2>1. y \in Session /\ d[y][v] = op[y][v] /\ op[y][v] # "detached"
    BY DEF SubInv, Attached
  <2>2. CASE <<y, v>> = <<x, u>>
    BY <1>2, <2>2
  <2>3. CASE <<y, v>> # <<x, u>>
    BY <1>2, <2>1, <2>3
  <2> QED BY <2>2, <2>3
<1>5. Attached' /\ Covered' /\ IsFiniteSet(Subscribed)' /\ UrisBounded'
  BY <1>4, FewerKeeps
<1>6. Distinct' /\ NothingLeftBehind'
  BY DEF SubInv, Distinct, NothingLeftBehind, Live
<1> QED BY <1>3, <1>5, <1>6 DEF SubInv

--------------------------------------------------------------------------------
(* One step per action, and what it takes from whom.                            *)

\* A session's subscription ends by its own request or with the session.
Spares ==
  \A x \in Session, u \in Uri :
    x \in subscribers[u] \ subscribers'[u]
      => \/ x \notin ToSet(sessions')
         \/ op[x][u] # op'[x][u]
         \/ websocket = None /\ x = Last(sessions')

\* Forget takes the sessions that are gone out of every set.
LEMMA ForgetTyped ==
  ASSUME SubInv, NEW gone
  PROVE  /\ Forget(gone) \in [Uri -> SUBSET Session]
         /\ \A u \in Uri : Forget(gone)[u] = subscribers[u] \ gone
BY DEF Forget, SubInv, TypeOK

\* A refused subscription, a touch or an offline one evicts at most.
LEMMA TouchStep ==
  ASSUME SubInv, NEW x \in Session, NEW setsLevel \in BOOLEAN, Touch(x, setsLevel)
  PROVE  SubInv' /\ Spares
<1>1. /\ sessions' = Remembered(x) /\ levels' \subseteq (levels \ Evicted(x)) \union {x}
      /\ subscribers' = Forget(Evicted(x)) /\ op' = Detach(subscribers')
      /\ UNCHANGED <<doomed, providerVars, closed>>
  BY DEF Touch
<1>2. /\ subscribers' \in [Uri -> SUBSET Session]
      /\ \A u \in Uri : subscribers'[u] = subscribers[u] \ Evicted(x)
  BY <1>1, ForgetTyped
<1>3. SubInv'
  BY <1>1, <1>2, TouchKeeps
<1>4. \A y \in Evicted(x) : y \notin ToSet(sessions')
  BY <1>1, <1>2, RememberKeeps
<1> QED BY <1>2, <1>3, <1>4 DEF Spares

\* A dead session goes with all that is its own, and leaves the others theirs.
LEMMA DropStep ==
  ASSUME SubInv, NEW x \in Session, DropDead(x)
  PROVE  SubInv' /\ Spares
<1>1. /\ subscribers' = Forget({x}) /\ op' = Detach(subscribers')
      /\ UNCHANGED <<doomed, providerVars, closed>>
  BY DEF DropDead
<1>2. /\ sessions' \in Seq(Session) /\ Len(sessions') <= MaxSessions /\ Distinct'
      /\ levels' \in SUBSET Session /\ NothingLeftBehind' /\ x \notin ToSet(sessions')
  BY DropKeeps
<1>3. /\ subscribers' \in [Uri -> SUBSET Session]
      /\ \A u \in Uri : subscribers'[u] = subscribers[u] \ {x}
  BY <1>1, ForgetTyped
<1>4. /\ op' \in Ops
      /\ \A y \in Session, u \in Uri : y \in subscribers'[u] => op'[y][u] = op[y][u]
  BY <1>1, <1>3, DetachTyped DEF SubInv
<1>5. TypeOK'
  BY <1>1, <1>2, <1>3, <1>4 DEF SubInv, TypeOK, Ops, providerVars
<1>6. \A u \in Uri : \A y \in subscribers'[u] :
        y \in Session /\ op'[y][u] = op[y][u] /\ op[y][u] # "detached"
  BY <1>3, <1>4 DEF SubInv, Attached
<1>7. Attached' /\ Covered' /\ IsFiniteSet(Subscribed)' /\ UrisBounded'
  BY <1>1, <1>3, <1>6, FewerKeeps DEF providerVars
<1> QED BY <1>2, <1>3, <1>5, <1>7 DEF SubInv, Spares

\* The uris with subscribers once x was added to those of u.
LEMMA RoomKeeps ==
  ASSUME SubInv, NEW x \in Session, NEW u \in Uri, NEW kept \in [Uri -> SUBSET Session],
         \A v \in Uri : kept[v] \subseteq subscribers[v], HasRoom(kept, u),
         subscribers' = [kept EXCEPT ![u] = @ \union {x}]
  PROVE  IsFiniteSet(Subscribed') /\ UrisBounded'
<1> DEFINE K == {v \in Uri : kept[v] # {}}
<1>1. /\ K \subseteq Subscribed /\ IsFiniteSet(Subscribed) /\ Cardinality(Subscribed) <= MaxUris
      /\ MaxUris \in Nat
  BY SubscriptionsAssumption DEF Subscribed, SubInv, UrisBounded
<1>2. IsFiniteSet(K) /\ Cardinality(K) \in Nat /\ Cardinality(K) <= Cardinality(Subscribed)
      /\ Cardinality(Subscribed) \in Nat
  BY <1>1, FS_Subset, FS_CardinalityType
<1>3. Subscribed' = K \union {u}
  BY DEF Subscribed
<1>4. kept[u] # {} => u \in K
  OBVIOUS
<1>5. kept[u] = {} => u \notin K /\ Cardinality(K) < MaxUris
  BY DEF HasRoom
<1> HIDE DEF K
<1>6. CASE kept[u] # {}
  <2>1. Subscribed' = K
    BY <1>3, <1>4, <1>6
  <2> QED BY <1>1, <1>2, <2>1 DEF UrisBounded
<1>7. CASE kept[u] = {}
  <2>1. IsFiniteSet(Subscribed') /\ Cardinality(Subscribed') = Cardinality(K) + 1
    BY <1>2, <1>3, <1>5, <1>7, FS_AddElement
  <2> QED BY <1>1, <1>2, <1>5, <1>7, <2>1 DEF UrisBounded
<1> QED BY <1>6, <1>7

\* A subscription is reserved, or rolled back at once when no provider is there.
LEMMA SubscribeStep ==
  ASSUME SubInv, NEW x \in Session, NEW u \in Uri, Subscribe(x, u)
  PROVE  SubInv' /\ Spares
<1> DEFINE kept == Forget(Evicted(x))
<1>1. /\ sessions' = Remembered(x) /\ levels' = levels \ Evicted(x)
      /\ UNCHANGED <<doomed, providerVars, closed>>
      /\ op[x][u] = "none" /\ HasRoom(kept, u)
  BY DEF Subscribe, MayAsk
<1>2. /\ kept \in [Uri -> SUBSET Session]
      /\ \A v \in Uri : kept[v] = subscribers[v] \ Evicted(x)
  BY ForgetTyped
<1>3. CASE websocket = None
  <2>1. subscribers' = [kept EXCEPT ![u] = @ \ {x}] /\ op' = Detach(subscribers')
    BY <1>3 DEF Subscribe
  <2> HIDE DEF kept
  <2>2. /\ subscribers' \in [Uri -> SUBSET Session]
        /\ \A v \in Uri : subscribers'[v] = IF v = u THEN kept[v] \ {x} ELSE kept[v]
    BY <1>2, <2>1
  <2>3. \A v \in Uri : subscribers'[v] \subseteq subscribers[v] \ Evicted(x)
    BY <1>2, <2>2
  <2>4. SubInv'
    BY <1>1, <2>1, <2>2, <2>3, TouchKeeps
  <2>5. (\A y \in Evicted(x) : y \notin ToSet(sessions')) /\ Last(sessions') = x
    BY <1>1, <2>3, RememberKeeps
  <2> QED BY <1>2, <1>3, <2>2, <2>4, <2>5 DEF Spares
<1>4. CASE websocket # None
  <2> DEFINE detached == Detach(subscribers')
  <2>1. /\ subscribers' = [kept EXCEPT ![u] = @ \union {x}]
        /\ op' = [detached EXCEPT ![x][u] = "subscribing"]
    BY <1>4 DEF Subscribe
  <2>2. IsFiniteSet(Subscribed') /\ UrisBounded'
    <3> HIDE DEF kept
    <3> QED BY <1>1, <1>2, <2>1, RoomKeeps
  <2> HIDE DEF kept
  <2>3. /\ subscribers' \in [Uri -> SUBSET Session]
        /\ \A v \in Uri : subscribers'[v] = IF v = u THEN kept[v] \union {x} ELSE kept[v]
    BY <1>2, <2>1
  <2>4. /\ detached \in Ops
        /\ \A y \in Session, v \in Uri : y \in subscribers'[v] => detached[y][v] = op[y][v]
    BY <2>3, DetachTyped DEF SubInv
  <2> DEFINE r == "subscribing"
  <2>5. op' = Placed(detached, x, u, r) /\ r \in {"none", "unsubscribing"} \union Reserved
    BY <2>1 DEF Placed, Reserved
  <2> HIDE DEF detached
  <2>6. /\ op' \in Ops /\ op'[x][u] = "subscribing"
        /\ \A y \in Session, v \in Uri : <<y, v>> # <<x, u>> => op'[y][v] = detached[y][v]
    <3> HIDE DEF r
    <3>1. /\ op' \in Ops /\ op'[x][u] = r
          /\ \A y \in Session, v \in Uri : <<y, v>> # <<x, u>> => op'[y][v] = detached[y][v]
      BY <2>4, <2>5, OneOp
    <3> QED BY <3>1 DEF r
  <2>7. /\ sessions' \in Seq(Session) /\ Len(sessions') <= MaxSessions /\ Distinct'
        /\ levels' \in SUBSET Session /\ NothingLeftBehind'
        /\ \A y \in Evicted(x) : y \notin ToSet(sessions')
    BY <1>1, <1>2, <2>3, RememberKeeps
  <2>8. TypeOK'
    BY <1>1, <2>3, <2>6, <2>7 DEF SubInv, TypeOK, Ops, providerVars
  <2>9. ASSUME NEW v \in Uri, NEW y \in subscribers'[v]
        PROVE  \/ op'[y][v] = "subscribing"
               \/ y \in subscribers[v] /\ op'[y][v] = op[y][v] /\ op[y][v] # "detached"
    <3>1. CASE <<y, v>> = <<x, u>>
      BY <2>6, <3>1
    <3>2. CASE <<y, v>> # <<x, u>>
      <4>1. y \in Session /\ y \in subscribers[v] /\ op'[y][v] = op[y][v]
        BY <1>2, <2>3, <2>4, <2>6, <3>2
      <4> QED BY <4>1 DEF SubInv, Attached
    <3> QED BY <3>1, <3>2
  <2>10. Attached'
    BY <2>9 DEF Attached
  <2>11. Covered'
    BY <1>1, <2>9 DEF SubInv, Covered, Accounted, providerVars
  <2>12. Spares
    BY <1>2, <2>3, <2>7 DEF Spares
  <2> QED BY <2>2, <2>7, <2>8, <2>10, <2>11, <2>12 DEF SubInv
<1> QED BY <1>3, <1>4

\* A subscription over the limit is refused, but its session remembered.
LEMMA SubscribeRefusedStep ==
  ASSUME SubInv, NEW x \in Session, NEW u \in Uri, SubscribeRefused(x, u)
  PROVE  SubInv' /\ Spares
<1>1. /\ sessions' = Remembered(x) /\ levels' = levels \ Evicted(x)
      /\ subscribers' = Forget(Evicted(x)) /\ op' = Detach(subscribers')
      /\ UNCHANGED <<doomed, providerVars, closed>>
  BY DEF SubscribeRefused
<1>2. /\ subscribers' \in [Uri -> SUBSET Session]
      /\ \A v \in Uri : subscribers'[v] = subscribers[v] \ Evicted(x)
  BY <1>1, ForgetTyped
<1>3. SubInv'
  BY <1>1, <1>2, TouchKeeps
<1>4. \A y \in Evicted(x) : y \notin ToSet(sessions')
  BY <1>1, <1>2, RememberKeeps
<1> QED BY <1>2, <1>3, <1>4 DEF Spares

\* A request to end a subscription leaves it until the answer.
LEMMA UnsubscribeStep ==
  ASSUME SubInv, NEW x \in Session, NEW u \in Uri, Unsubscribe(x, u)
  PROVE  SubInv' /\ Spares
<1> DEFINE detached == Detach(subscribers')
<1>1. /\ sessions' = Remembered(x) /\ levels' = levels \ Evicted(x)
      /\ subscribers' = Forget(Evicted(x)) /\ op[x][u] = "none"
      /\ op' = [detached EXCEPT ![x][u] = "unsubscribing"]
      /\ UNCHANGED <<doomed, providerVars, closed>>
  BY DEF Unsubscribe, MayAsk
<1>2. /\ subscribers' \in [Uri -> SUBSET Session]
      /\ \A v \in Uri : subscribers'[v] = subscribers[v] \ Evicted(x)
  BY <1>1, ForgetTyped
<1>3. /\ detached \in Ops
      /\ \A y \in Session, v \in Uri : y \in subscribers'[v] => detached[y][v] = op[y][v]
  BY <1>2, DetachTyped DEF SubInv
<1> HIDE DEF detached
<1>4. /\ op' \in Ops /\ op'[x][u] = "unsubscribing"
      /\ \A y \in Session, v \in Uri : <<y, v>> # <<x, u>> => op'[y][v] = detached[y][v]
  <2> DEFINE r == "unsubscribing"
  <2>1. op' = Placed(detached, x, u, r) /\ r \in {"none", "unsubscribing"} \union Reserved
    BY <1>1 DEF Placed
  <2> HIDE DEF r
  <2>2. /\ op' \in Ops /\ op'[x][u] = r
        /\ \A y \in Session, v \in Uri : <<y, v>> # <<x, u>> => op'[y][v] = detached[y][v]
    BY <1>3, <2>1, OneOp
  <2> QED BY <2>2 DEF r
<1>5. /\ sessions' \in Seq(Session) /\ Len(sessions') <= MaxSessions /\ Distinct'
      /\ levels' \in SUBSET Session /\ NothingLeftBehind'
      /\ \A y \in Evicted(x) : y \notin ToSet(sessions')
  BY <1>1, <1>2, RememberKeeps
<1>6. TypeOK'
  BY <1>1, <1>2, <1>4, <1>5 DEF SubInv, TypeOK, Ops, providerVars
<1>7. \A v \in Uri : \A y \in subscribers'[v] :
        op'[y][v] # "detached" /\ (op[y][v] = "subscribing" => op'[y][v] = "subscribing")
  BY <1>1, <1>2, <1>3, <1>4 DEF SubInv, Attached
<1>8. Attached' /\ Covered' /\ IsFiniteSet(Subscribed)' /\ UrisBounded'
  BY <1>1, <1>2, <1>7, FewerKeeps DEF providerVars
<1> QED BY <1>2, <1>5, <1>6, <1>8 DEF SubInv, Spares

\* An answered, failed or rolled back request takes its own session's subscription only.
LEMMA AnswerStep ==
  ASSUME SubInv, NEW x \in Session, NEW u \in Uri,
         \/ SubscribeSucceeds(x, u) \/ SubscribeFails(x, u)
         \/ UnsubscribeSucceeds(x, u) \/ UnsubscribeFails(x, u)
  PROVE  SubInv' /\ Spares
<1>0. /\ subscribers \in [Uri -> SUBSET Session] /\ watch \in SUBSET Uri
      /\ unwatched \in SUBSET Uri /\ op \in Ops
  BY DEF SubInv, TypeOK, Ops
<1>1. /\ UNCHANGED <<sessions, levels, websocket, endpoint, replay, closed>>
      /\ doomed' \subseteq doomed /\ op[x][u] # "none"
  BY DEF SubscribeSucceeds, SubscribeFails, UnsubscribeSucceeds, UnsubscribeFails, Reserved
<1>2. /\ watch' \in SUBSET Uri /\ unwatched' \in SUBSET Uri
      /\ watch \union unwatched \subseteq watch' \union unwatched'
  <2>1. CASE SubscribeSucceeds(x, u)
    BY <1>0, <2>1 DEF SubscribeSucceeds
  <2>2. CASE SubscribeFails(x, u)
    BY <1>0, <2>2 DEF SubscribeFails, MaybeProcessed
  <2>3. CASE UnsubscribeSucceeds(x, u)
    BY <1>0, <2>3 DEF UnsubscribeSucceeds
  <2>4. CASE UnsubscribeFails(x, u)
    BY <1>0, <2>4 DEF UnsubscribeFails, MaybeProcessed
  <2> QED BY <2>1, <2>2, <2>3, <2>4
<1>3. /\ subscribers' \in [Uri -> SUBSET Session]
      /\ \A v \in Uri : v # u => subscribers'[v] = subscribers[v]
      /\ subscribers'[u] \in {subscribers[u], subscribers[u] \ {x}}
      /\ x \in subscribers'[u] /\ op[x][u] = "subscribing" => u \in watch' \union unwatched'
  <2>1. CASE SubscribeSucceeds(x, u)
    BY <1>0, <2>1 DEF SubscribeSucceeds
  <2>2. CASE SubscribeFails(x, u)
    BY <1>0, <2>2 DEF SubscribeFails, Rollback
  <2>3. CASE UnsubscribeSucceeds(x, u)
    BY <1>0, <2>3 DEF UnsubscribeSucceeds
  <2>4. CASE UnsubscribeFails(x, u)
    BY <1>0, <2>4 DEF UnsubscribeFails
  <2> QED BY <2>1, <2>2, <2>3, <2>4
<1>4. PICK d \in Ops :
        /\ op' = Placed(d, x, u, "none")
        /\ \A y \in Session, v \in Uri : y \in subscribers'[v] => d[y][v] = op[y][v]
  <2>1. CASE SubscribeSucceeds(x, u) \/ UnsubscribeFails(x, u)
    <3>1. op' = Placed(op, x, u, "none")
      BY <2>1 DEF SubscribeSucceeds, UnsubscribeFails, Placed
    <3> QED BY <1>0, <3>1
  <2>2. CASE SubscribeFails(x, u) \/ UnsubscribeSucceeds(x, u)
    <3> DEFINE detached == Detach(subscribers')
    <3>1. op' = Placed(detached, x, u, "none")
      BY <2>2 DEF SubscribeFails, UnsubscribeSucceeds, Placed
    <3>2. /\ detached \in Ops
          /\ \A y \in Session, v \in Uri : y \in subscribers'[v] => detached[y][v] = op[y][v]
      BY <1>3, DetachTyped DEF SubInv
    <3> HIDE DEF detached
    <3> QED BY <3>1, <3>2
  <2> QED BY <2>1, <2>2
<1>5. SubInv'
  BY <1>1, <1>2, <1>3, <1>4, AnswerKeeps
<1>6. op'[x][u] = "none"
  <2> DEFINE r == "none"
  <2>1. op' = Placed(d, x, u, r) /\ r \in {"none", "unsubscribing"} \union Reserved
    BY <1>4
  <2> HIDE DEF r
  <2>2. op'[x][u] = r
    BY <2>1, OneOp
  <2> QED BY <2>2 DEF r
<1>7. Spares
  BY <1>1, <1>3, <1>6 DEF Spares
<1> QED BY <1>5, <1>7

--------------------------------------------------------------------------------
(* The provider's side.                                                         *)

\* A provider's step leaves the clients' state alone.
LEMMA ProviderKeeps ==
  ASSUME SubInv, UNCHANGED <<sessions, levels, subscribers, op>>
  PROVE  /\ Distinct' /\ NothingLeftBehind' /\ IsFiniteSet(Subscribed)' /\ UrisBounded'
         /\ Attached' /\ Spares /\ Subscribed' = Subscribed
BY DEF SubInv, Distinct, NothingLeftBehind, Subscribed, UrisBounded, Attached, Spares, Live

\* A new connection attaches.
LEMMA AttachStep ==
  ASSUME SubInv, NEW s \in Sock, Attach(s)
  PROVE  SubInv' /\ Spares
<1>1. InFlight \subseteq Session \X Uri
  BY DEF InFlight
<1>2. TypeOK'
  BY <1>1 DEF SubInv, TypeOK, Attach, NewProvider
<1>3. Covered'
  BY SubscriptionsAssumption DEF SubInv, TypeOK, Attach, NewProvider, Covered
<1> QED BY <1>2, <1>3, ProviderKeeps DEF Attach, SubInv

\* The replay begins with every subscribed uri.
LEMMA ResyncStep ==
  ASSUME SubInv, NEW s \in Sock, Resync(s)
  PROVE  SubInv' /\ Spares
<1>1. /\ TypeOK /\ UNCHANGED <<clientVars, websocket, watch, unwatched, closed>>
      /\ endpoint' = [endpoint EXCEPT ![s] = "replaying"]
      /\ replay' = [replay EXCEPT ![s] = Subscribed] /\ Subscribed \in SUBSET Uri
  BY DEF Resync, SubInv, Subscribed
<1>2. TypeOK'
  BY <1>1 DEF TypeOK, clientVars
<1>3. Covered'
  <2>1. CASE websocket = s
    <3>1. websocket' = s /\ replay'[s] = Subscribed /\ endpoint'[s] = "replaying"
      BY <1>1, <2>1 DEF TypeOK
    <3>2. ASSUME NEW u \in Uri PROVE Accounted(u)'
      BY <1>1, <3>1 DEF Accounted, Subscribed, clientVars
    <3> QED BY <3>1, <3>2 DEF Covered
  <2>2. CASE websocket # s
    <3>1. websocket # None => websocket \in Sock /\ endpoint'[websocket] = endpoint[websocket]
                              /\ replay'[websocket] = replay[websocket]
      BY <1>1, <2>2 DEF TypeOK
    <3> QED BY <1>1, <3>1 DEF SubInv, Covered, Accounted, clientVars
  <2> QED BY <2>1, <2>2
<1> QED BY <1>1, <1>2, <1>3, ProviderKeeps DEF clientVars, SubInv

\* One uri is sent, to whoever serves now.
LEMMA ReplayStep ==
  ASSUME SubInv, NEW s \in Sock, NEW u \in Uri, Replay(s, u)
  PROVE  SubInv' /\ Spares
<1>1. /\ TypeOK /\ UNCHANGED <<clientVars, websocket, endpoint, closed>>
      /\ replay' = [replay EXCEPT ![s] = @ \ {u}] /\ endpoint[s] = "replaying"
      /\ watch' = watch \union {u} /\ unwatched' = unwatched \ {u}
  BY DEF Replay, SubInv
<1>2. TypeOK'
  BY <1>1 DEF TypeOK, clientVars
<1>3. \A t \in Sock : replay'[t] = IF t = s THEN replay[t] \ {u} ELSE replay[t]
  BY <1>1 DEF TypeOK
<1>4. Covered'
  BY <1>1, <1>3 DEF SubInv, TypeOK, Covered, Accounted, clientVars
<1> QED BY <1>1, <1>2, <1>4, ProviderKeeps DEF clientVars, SubInv

\* The replay is over.
LEMMA ServeStep ==
  ASSUME SubInv, NEW s \in Sock, Serve(s)
  PROVE  SubInv' /\ Spares
<1>1. /\ TypeOK /\ UNCHANGED <<clientVars, websocket, replay, watch, unwatched, closed>>
      /\ endpoint' = [endpoint EXCEPT ![s] = "serving"]
      /\ endpoint[s] = "replaying" /\ replay[s] = {}
  BY DEF Serve, SubInv
<1>2. TypeOK' /\ \A t \in Sock : endpoint'[t] = IF t = s THEN "serving" ELSE endpoint[t]
  BY <1>1 DEF TypeOK, clientVars
<1>3. Covered'
  BY <1>1, <1>2 DEF SubInv, TypeOK, Covered, Accounted, clientVars
<1> QED BY <1>1, <1>2, <1>3, ProviderKeeps DEF clientVars, SubInv

\* The end of an endpoint, its own channel's provider or not.
LEMMA OverStep ==
  ASSUME SubInv, NEW s \in Sock, EndpointOver(s)
  PROVE  SubInv' /\ Spares
<1>1. InFlight \subseteq Session \X Uri
  BY DEF InFlight
<1>2. /\ TypeOK /\ UNCHANGED <<sessions, levels, subscribers, op, closed>>
      /\ endpoint' = [endpoint EXCEPT ![s] = "gone"] /\ replay' = [replay EXCEPT ![s] = {}]
      /\ websocket = s => NewProvider(None)
      /\ websocket # s => UNCHANGED <<websocket, doomed, watch, unwatched>>
  BY DEF EndpointOver, SubInv
<1>3. TypeOK'
  BY <1>1, <1>2 DEF TypeOK, NewProvider
<1>4. Covered'
  <2>1. CASE websocket = s
    BY <1>2, <2>1 DEF NewProvider, Covered
  <2>2. CASE websocket # s
    <3>1. websocket # None => websocket \in Sock /\ endpoint'[websocket] = endpoint[websocket]
                              /\ replay'[websocket] = replay[websocket]
      BY <1>2, <2>2 DEF TypeOK
    <3> QED BY <1>2, <2>2, <3>1 DEF SubInv, Covered, Accounted
  <2> QED BY <2>1, <2>2
<1> QED BY <1>2, <1>3, <1>4, ProviderKeeps DEF SubInv

\* The channel is removed, with all it kept.
LEMMA CloseStep ==
  ASSUME SubInv, Close
  PROVE  SubInv' /\ Spares
<1>1. /\ TypeOK /\ sessions' = <<>> /\ levels' = {} /\ closed' = TRUE
      /\ subscribers' = [u \in Uri |-> {}] /\ op' = Detach(subscribers')
      /\ NewProvider(None) /\ UNCHANGED <<endpoint, replay>>
  BY DEF Close, SubInv
<1>2. subscribers' \in [Uri -> SUBSET Session] /\ \A u \in Uri : subscribers'[u] = {}
  BY <1>1
<1>3. op' \in Ops
  BY <1>1, <1>2, DetachTyped
<1>4. InFlight \subseteq Session \X Uri
  BY DEF InFlight
<1>5. sessions' \in Seq(Session) /\ Len(sessions') = 0 /\ ToSet(sessions') = {}
  BY <1>1 DEF ToSet
<1>6. TypeOK'
  <2>1. /\ websocket' = None /\ doomed' \in SUBSET (Session \X Uri)
        /\ watch' = {} /\ unwatched' = {}
    BY <1>1, <1>4 DEF NewProvider
  <2>2. Len(sessions') <= MaxSessions
    BY <1>5, SubscriptionsAssumption
  <2>3. op' \in [Session -> [Uri -> {"none", "unsubscribing"} \union Reserved]]
    BY <1>3 DEF Ops
  <2> QED BY <1>1, <1>2, <1>5, <2>1, <2>2, <2>3 DEF TypeOK
<1>7. Distinct' /\ NothingLeftBehind' /\ Attached' /\ Covered' /\ Spares
  BY <1>1, <1>2, <1>5 DEF Distinct, NothingLeftBehind, Attached, Covered, NewProvider, Spares
<1>8. Subscribed' = {}
  BY <1>2 DEF Subscribed
<1>9. IsFiniteSet(Subscribed)' /\ UrisBounded'
  BY <1>8, FS_EmptySet, SubscriptionsAssumption DEF UrisBounded
<1> QED BY <1>6, <1>7, <1>9 DEF SubInv

--------------------------------------------------------------------------------
(* The invariant holds, and with it the properties.                             *)

\* Every step keeps the invariant and spares the others' subscriptions.
LEMMA SubInvNext == SubInv /\ [Next]_vars => SubInv' /\ (Spares \/ UNCHANGED vars)
<1> SUFFICES ASSUME SubInv, [Next]_vars PROVE SubInv' /\ (Spares \/ UNCHANGED vars)
  OBVIOUS
<1>1. ASSUME NEW x \in Session, NEW setsLevel \in BOOLEAN, Touch(x, setsLevel)
      PROVE  SubInv' /\ Spares
  BY <1>1, TouchStep
<1>2. ASSUME NEW x \in Session, DropDead(x) PROVE SubInv' /\ Spares
  BY <1>2, DropStep
<1>3. ASSUME NEW x \in Session, NEW u \in Uri, ClientStep(x, u) PROVE SubInv' /\ Spares
  BY <1>3, SubscribeStep, SubscribeRefusedStep, UnsubscribeStep, AnswerStep DEF ClientStep
<1>4. ASSUME NEW s \in Sock, Attach(s) \/ Resync(s) \/ Serve(s) \/ EndpointOver(s)
      PROVE  SubInv' /\ Spares
  BY <1>4, AttachStep, ResyncStep, ServeStep, OverStep
<1>5. ASSUME NEW s \in Sock, NEW u \in Uri, Replay(s, u) PROVE SubInv' /\ Spares
  BY <1>5, ReplayStep
<1>6. CASE Close
  BY <1>6, CloseStep
<1>7. CASE UNCHANGED vars
  <2>1. UNCHANGED <<sessions, levels, subscribers, op, doomed, websocket, endpoint, replay,
                    watch, unwatched, closed>>
    BY <1>7 DEF vars, clientVars, providerVars
  <2>2. TypeOK' /\ Covered'
    BY <2>1 DEF SubInv, TypeOK, Covered, Accounted
  <2> QED BY <1>7, <2>1, <2>2, ProviderKeeps DEF SubInv
<1> QED BY <1>1, <1>2, <1>3, <1>4, <1>5, <1>6, <1>7 DEF Next

\* The invariant holds in every state.
LEMMA SubInvHolds == Spec => []SubInv
<1>1. Init => SubInv
  <2> SUFFICES ASSUME Init PROVE SubInv
    OBVIOUS
  <2>1. sessions = <<>> /\ sessions \in Seq(Session) /\ Len(sessions) = 0 /\ levels = {}
    BY DEF Init
  <2>2. (\A u \in Uri : subscribers[u] = {}) /\ Subscribed = {}
    BY DEF Init, Subscribed
  <2>3. TypeOK
    <3>1. Len(sessions) <= MaxSessions
      BY <2>1, SubscriptionsAssumption
    <3>2. op \in [Session -> [Uri -> {"none", "unsubscribing"} \union Reserved]]
      BY DEF Init, Reserved
    <3>3. /\ subscribers \in [Uri -> SUBSET Session] /\ replay \in [Sock -> SUBSET Uri]
          /\ endpoint \in [Sock -> {"new", "attached", "replaying", "serving", "gone"}]
      BY DEF Init
    <3> QED BY <2>1, <3>1, <3>2, <3>3 DEF Init, TypeOK
  <2>4. Distinct /\ NothingLeftBehind /\ Attached /\ Covered
    BY <2>1, <2>2 DEF Init, Distinct, NothingLeftBehind, Attached, Covered
  <2>5. IsFiniteSet(Subscribed) /\ UrisBounded
    BY <2>2, FS_EmptySet, SubscriptionsAssumption DEF UrisBounded
  <2> QED BY <2>3, <2>4, <2>5 DEF SubInv
<1>2. SubInv /\ [Next]_vars => SubInv'
  BY SubInvNext
<1> QED BY <1>1, <1>2, PTL DEF Spec

\* The channel's client state keeps its types, the map of sessions its limit
\* (remember_mcp_session, channel.py:158).
THEOREM TypeCorrect == Spec => []TypeOK
<1>1. SubInv => TypeOK
  BY DEF SubInv
<1> QED BY <1>1, SubInvHolds, PTL

\* No subscription and no log level outlives its session, for any limits
\* (_forget_session, channel.py).
THEOREM NothingStays == Spec => []NothingLeftBehind
<1>1. SubInv => NothingLeftBehind
  BY DEF SubInv
<1> QED BY <1>1, SubInvHolds, PTL

\* The limit of uris holds through concurrent reservations, rollbacks and evictions.
THEOREM UrisAlwaysBounded == Spec => []UrisBounded
<1>1. SubInv => UrisBounded
  BY DEF SubInv
<1> QED BY <1>1, SubInvHolds, PTL

\* A provider whose replay is over watches every uri it should, whichever requests were
\* in flight while it was replayed (resync_subscriptions).
THEOREM ReplayAlwaysCovers == Spec => []ReplayCovers
<1>1. SubInv => ReplayCovers
  <2> SUFFICES ASSUME SubInv, NEW u \in Uri, websocket # None,
                      endpoint[websocket] = "serving", subscribers[u] # {},
                      \A x \in Session : op[x][u] = "none"
               PROVE  u \in watch \union unwatched
    BY DEF ReplayCovers
  <2>1. Accounted(u) /\ replay[websocket] = {}
    BY DEF SubInv, Covered
  <2>2. \A x \in subscribers[u] : op[x][u] = "none"
    BY DEF SubInv, TypeOK
  <2> QED BY <2>1, <2>2 DEF Accounted
<1> QED BY <1>1, SubInvHolds, PTL

\* No step ends a subscription that is not its own session's.
THEOREM SubscriptionsSpared == Spec => NobodyElseUnsubscribes
<1>1. SubInv /\ [Next]_vars => [Spares]_vars
  BY SubInvNext
<1>2. Spec => [][Spares]_vars
  BY <1>1, SubInvHolds, PTL DEF Spec
<1> QED BY <1>2 DEF Spares, NobodyElseUnsubscribes
===============================================================================
