---------------------------- MODULE McpAccessProofs ---------------------------
(***************************************************************************)
(* Proofs about McpAccess for any sets of requests, principals, channel    *)
(* ids and sessions and any limits.                                        *)
(*                                                                         *)
(* A request under way knows the id it entered with only through its       *)
(* channel: after each authorization `found` may be another.  AccessInv    *)
(* therefore says that channels have their number to themselves            *)
(* (NumbersOK) and that there is one id that a request's channel can be    *)
(* registered under, for which its session was created and whose grant the *)
(* messages sent since it ended are counted for (Entered).  TablesInv      *)
(* bounds the tables and says that bindings stand in the order of the time *)
(* left to them, which makes a dict with a late purge a SessionTable.      *)
(***************************************************************************)
EXTENDS McpAccess, FiniteSetTheorems, TLAPS

Binding == [who : Identity, left : 0..IdleTicks]

\* The part of the types the argument needs; the order of the bindings is left out.
Typed ==
  /\ registered \in [Id -> 0..MaxChannels] /\ made \in 0..MaxChannels
  /\ req \in [Request -> RequestState]
  /\ bound \in [Session -> Binding \union {None}]
  /\ owner \in [Session -> Identity \union {None}]
  /\ late \in [Request -> Nat]

NumbersOK ==
  /\ \A i \in Id : registered[i] <= made
  /\ \A i, j \in Id : registered[i] = registered[j] /\ registered[i] # 0 => i = j

Reachable(i) == registered[i] # 0 \/ \E m \in removing : m.id = i /\ m.step = "closing"

BoundOK ==
  \A s \in Bound : /\ owner[s] = bound[s].who
                   /\ \A i \in Id : bound[s].who.id = i => Reachable(i)

Entered(r, e) ==
  /\ req[r].channel \in 1..made
  /\ \A i \in Id : registered[i] = req[r].channel => i = e
  /\ req[r].session # None =>
       owner[req[r].session] = [principal |-> req[r].principal, id |-> e]
  /\ late[r] <= 1
  /\ late[r] = 1 /\ req[r].at = "handled" => <<req[r].principal, e>> \notin grants
  /\ late[r] = 1 /\ req[r].at = "sending" => req[r].found # e

RequestOK(r) ==
  /\ req[r].at # "idle" => req[r].principal \in Principal /\ req[r].found \in Id
  /\ req[r].at \in {"idle", "entering"} => late[r] = 0
  /\ req[r].at = "handled" => Entered(r, req[r].found)
  /\ req[r].at = "sending" => \E e \in Id : Entered(r, e)

AccessInv == Typed /\ NumbersOK /\ BoundOK /\ \A r \in Request : RequestOK(r)

--------------------------------------------------------------------------------
(* What steps keep.                                                             *)

\* No session's owner is an identity and none at once.
LEMMA OwnerIsSomeone ==
  ASSUME NEW p \in Principal, NEW i \in Id
  PROVE  [principal |-> p, id |-> i] \in Identity /\ [principal |-> p, id |-> i] # None
BY McpAccessAssumption DEF Identity

\* A binding is a record.
LEMMA BindingIsSomething ==
  ASSUME NEW b \in Binding PROVE b # None
BY McpAccessAssumption DEF Binding, Identity

\* A request that does not move stays in order while channels are created and removed,
\* sessions get owners, and no grant comes to a principal with messages counted late.
LEMMA RequestKept ==
  ASSUME AccessInv, NEW r \in Request, req'[r] = req[r],
         late'[r] = late[r] \/ late'[r] = 0,
         made' \in Nat, made <= made',
         \A i \in Id : registered'[i] \in {registered[i], 0, made + 1},
         \A s \in Session : owner[s] # None => owner'[s] = owner[s],
         late'[r] = 1 => \A i \in Id : <<req[r].principal, i>> \in grants'
                                         => <<req[r].principal, i>> \in grants
  PROVE  RequestOK(r)'
<1>1. /\ RequestOK(r) /\ made \in Nat /\ req[r] \in RequestState /\ late[r] \in Nat
  BY DEF AccessInv, Typed
<1>2. ASSUME NEW e \in Id, Entered(r, e), req[r].at # "idle", req[r].at = "handled" => req[r].found = e
      PROVE  Entered(r, e)'
  <2>1. req'[r].channel \in 1..made' /\ req'[r].channel # made + 1 /\ req'[r].channel # 0
    BY <1>1, <1>2 DEF Entered
  <2>2. \A i \in Id : registered'[i] = req'[r].channel => i = e
    BY <1>2, <2>1 DEF Entered
  <2>3. req'[r].session # None =>
          owner'[req'[r].session] = [principal |-> req'[r].principal, id |-> e]
    <3>1. req[r].session # None => req[r].session \in Session
      BY <1>1 DEF RequestState
    <3>2. [principal |-> req[r].principal, id |-> e] # None
      BY <1>1, <1>2, OwnerIsSomeone DEF RequestOK
    <3> QED BY <1>2, <3>1, <3>2 DEF Entered
  <2>4. late'[r] <= 1 /\ (late'[r] = 1 => late[r] = 1)
    BY <1>1, <1>2 DEF Entered
  <2>5. late'[r] = 1 /\ req'[r].at = "handled" => <<req'[r].principal, e>> \notin grants'
    BY <1>2, <2>4 DEF Entered
  <2>6. late'[r] = 1 /\ req'[r].at = "sending" => req'[r].found # e
    BY <1>2, <2>4 DEF Entered
  <2> QED BY <2>1, <2>2, <2>3, <2>4, <2>5, <2>6 DEF Entered
<1>3. req[r].at # "idle" => req[r].principal \in Principal /\ req[r].found \in Id
  BY <1>1 DEF RequestOK
<1>4. req'[r].at \in {"idle", "entering"} => late'[r] = 0
  BY <1>1 DEF RequestOK
<1>5. req'[r].at = "handled" => Entered(r, req[r].found)'
  BY <1>1, <1>2, <1>3 DEF RequestOK
<1>6. req'[r].at = "sending" => \E e \in Id : Entered(r, e)'
  BY <1>1, <1>2 DEF RequestOK
<1>7. req'[r].at = "handled" => Entered(r, req[r].found)' /\ req'[r].found = req[r].found
  BY <1>5
<1> QED BY <1>3, <1>4, <1>6, <1>7 DEF RequestOK, Entered

\* A request that is over is in order.
LEMMA RequestOver ==
  ASSUME NEW r \in Request, req'[r] = Idle, late'[r] = 0 PROVE RequestOK(r)'
BY DEF RequestOK, Idle

\* Bindings stay in order where none is added and none outlives its channel.
LEMMA BoundShrinks ==
  ASSUME AccessInv,
         \A s \in Session : bound'[s] # None => bound[s] # None /\ bound'[s].who = bound[s].who,
         \A s \in Session : owner[s] # None => owner'[s] = owner[s],
         \A s \in Session, i \in Id :
           bound'[s] # None /\ bound[s].who.id = i /\ Reachable(i) => Reachable(i)'
  PROVE  BoundOK'
<1>1. ASSUME NEW s \in Session, bound'[s] # None
      PROVE  /\ owner'[s] = bound'[s].who
             /\ \A i \in Id : bound'[s].who.id = i => Reachable(i)'
  <2>1. /\ bound[s] # None /\ bound'[s].who = bound[s].who
        /\ bound[s] \in Binding
    BY <1>1 DEF AccessInv, Typed
  <2>2. owner[s] = bound[s].who /\ \A i \in Id : bound[s].who.id = i => Reachable(i)
    BY <2>1 DEF AccessInv, BoundOK, Bound
  <2>3. bound[s].who \in Identity /\ bound[s].who # None
    BY <2>1, McpAccessAssumption DEF Binding, Identity
  <2>4. owner'[s] = bound'[s].who
    BY <2>1, <2>2, <2>3
  <2>5. \A i \in Id : bound'[s].who.id = i => Reachable(i)'
    BY <1>1, <2>1, <2>2
  <2> QED BY <2>4, <2>5
<1> QED BY <1>1 DEF BoundOK, Bound

\* What a purge and a removal leave of the bindings.
LEMMA UnboundShrinks ==
  ASSUME AccessInv, NEW gone, Unbound(gone)
  PROVE  /\ bound' \in [Session -> Binding \union {None}]
         /\ \A s \in Session : bound'[s] # None => s \notin gone /\ bound'[s] = bound[s]
BY DEF AccessInv, Typed, Unbound

--------------------------------------------------------------------------------
(* Steps that no request takes.                                                 *)

\* Time.
LEMMA TickSafe ==
  ASSUME AccessInv, Tick PROVE AccessInv'
<1>1. \A s \in Session : /\ bound'[s] \in Binding \union {None}
                         /\ bound'[s] # None => bound[s] # None /\ bound'[s].who = bound[s].who
  <2> SUFFICES ASSUME NEW s \in Session
               PROVE  /\ bound'[s] \in Binding \union {None}
                      /\ bound'[s] # None => bound[s] # None /\ bound'[s].who = bound[s].who
    OBVIOUS
  <2>1. bound[s] \in Binding \union {None}
    BY DEF AccessInv, Typed
  <2>2. CASE s \in Bound /\ bound[s].left > 0
    <3>1. bound'[s] = [bound[s] EXCEPT !.left = @ - 1] /\ bound[s] # None
      BY <2>2 DEF Tick, Bound
    <3>2. bound[s].left \in 0..IdleTicks /\ bound[s].who \in Identity
      BY <2>1, <3>1 DEF Binding
    <3>3. bound'[s] = [who |-> bound[s].who, left |-> bound[s].left - 1]
      BY <2>1, <3>1 DEF Binding
    <3>4. bound[s].left - 1 \in 0..IdleTicks
      BY <2>2, <3>2, McpAccessAssumption
    <3> QED BY <3>1, <3>2, <3>3, <3>4 DEF Binding
  <2>3. CASE ~(s \in Bound /\ bound[s].left > 0)
    BY <2>1, <2>3 DEF Tick
  <2> QED BY <2>2, <2>3
<1>2. bound' \in [Session -> Binding \union {None}]
  BY <1>1 DEF Tick
<1>3. Typed' /\ NumbersOK'
  BY <1>2 DEF AccessInv, Typed, NumbersOK, Tick
<1>4. BoundOK'
  BY <1>1, BoundShrinks DEF Tick, Reachable
<1>5. \A r \in Request : RequestOK(r)'
  BY RequestKept DEF Tick, AccessInv, Typed
<1> QED BY <1>3, <1>4, <1>5 DEF AccessInv

\* A channel is created under a new number.
LEMMA CreateSafe ==
  ASSUME AccessInv, NEW i \in Id, Create(i) PROVE AccessInv'
<1>1. /\ made \in Nat /\ made' = made + 1 /\ made < MaxChannels
      /\ registered' = [registered EXCEPT ![i] = made + 1] /\ registered[i] = 0
      /\ registered \in [Id -> 0..MaxChannels] /\ MaxChannels \in Nat
      /\ UNCHANGED <<removing, grants, bound, order, req, owner, late>>
  BY McpAccessAssumption DEF AccessInv, Typed, Create, store
<1>2. Typed'
  BY <1>1 DEF AccessInv, Typed
<1>3. NumbersOK'
  BY <1>1 DEF AccessInv, NumbersOK
<1>4. BoundOK'
  BY <1>1, BoundShrinks DEF Reachable
<1>5. \A r \in Request : RequestOK(r)'
  BY <1>1, RequestKept
<1> QED BY <1>2, <1>3, <1>4, <1>5 DEF AccessInv

\* A channel leaves the registry: its bindings wait for the removal under way.
LEMMA RemoveSafe ==
  ASSUME AccessInv, NEW i \in Id, Remove(i) PROVE AccessInv'
<1>1. /\ made \in Nat /\ registered' = [registered EXCEPT ![i] = 0]
      /\ registered \in [Id -> 0..MaxChannels] /\ MaxChannels \in Nat
      /\ removing' = removing \union {[id |-> i, channel |-> registered[i], step |-> "closing"]}
      /\ UNCHANGED <<made, grants, bound, order, req, owner, late>>
  BY McpAccessAssumption DEF AccessInv, Typed, Remove, store
<1>2. Typed'
  BY <1>1 DEF AccessInv, Typed
<1>3. NumbersOK'
  BY <1>1 DEF AccessInv, NumbersOK
<1>4. ASSUME NEW j \in Id, Reachable(j) PROVE Reachable(j)'
  <2>1. CASE j = i
    <3> DEFINE m == [id |-> i, channel |-> registered[i], step |-> "closing"]
    <3>1. m \in removing' /\ m.id = j /\ m.step = "closing"
      BY <1>1, <2>1
    <3> QED BY <3>1 DEF Reachable
  <2>2. CASE j # i
    BY <1>1, <1>4, <2>2 DEF Reachable
  <2> QED BY <2>1, <2>2
<1>5. BoundOK'
  BY <1>1, <1>4, BoundShrinks
<1>6. \A r \in Request : RequestOK(r)'
  BY <1>1, RequestKept
<1> QED BY <1>2, <1>3, <1>5, <1>6 DEF AccessInv

\* The bindings of a removed channel go.
LEMMA RemovalUnbindsSafe ==
  ASSUME AccessInv, NEW m \in removing, RemovalUnbinds(m) PROVE AccessInv'
<1> DEFINE gone == {s \in Bound : bound[s].who.id = m.id}
<1>1. /\ Unbound(gone) /\ UNCHANGED <<registered, made, grants, req, owner, late>>
      /\ removing' = (removing \ {m}) \union {[m EXCEPT !.step = "revoking"]}
  BY DEF RemovalUnbinds
<1>2. /\ bound' \in [Session -> Binding \union {None}]
      /\ \A s \in Session : bound'[s] # None => s \notin gone /\ bound'[s] = bound[s]
  BY <1>1, UnboundShrinks
<1>3. Typed' /\ NumbersOK'
  BY <1>1, <1>2 DEF AccessInv, Typed, NumbersOK
<1>4. ASSUME NEW s \in Session, NEW i \in Id, bound'[s] # None, bound[s].who.id = i, Reachable(i)
      PROVE  Reachable(i)'
  <2>1. i # m.id
    BY <1>2, <1>4 DEF Bound
  <2> QED BY <1>1, <1>4, <2>1 DEF Reachable
<1>5. BoundOK'
  BY <1>1, <1>2, <1>4, BoundShrinks
<1>6. \A r \in Request : RequestOK(r)'
  BY <1>1, RequestKept DEF AccessInv, Typed
<1> QED BY <1>3, <1>5, <1>6 DEF AccessInv

\* The grants of a removed channel go, or stay.
LEMMA RemovalRevokesSafe ==
  ASSUME AccessInv, NEW m \in removing, RemovalRevokes(m) PROVE AccessInv'
<1>1. /\ UNCHANGED <<registered, made, bound, req, owner, late>>
      /\ removing' = removing \ {m} /\ m.step = "revoking"
      /\ grants' \subseteq grants
  BY DEF RemovalRevokes, store
<1>2. Typed' /\ NumbersOK'
  BY <1>1 DEF AccessInv, Typed, NumbersOK
<1>3. BoundOK'
  BY <1>1, BoundShrinks DEF Reachable
<1>4. \A r \in Request : RequestOK(r)'
  BY <1>1, RequestKept DEF AccessInv, Typed
<1> QED BY <1>2, <1>3, <1>4 DEF AccessInv

\* A grant comes: nothing of that principal is late any more.
LEMMA GrantSafe ==
  ASSUME AccessInv, NEW p \in Principal, NEW i \in Id, Grant(p, i) PROVE AccessInv'
<1>1. /\ UNCHANGED <<registered, made, removing, bound, req, owner>>
      /\ grants' = grants \union {<<p, i>>}
      /\ late' = [r \in Request |-> IF req[r].principal = p THEN 0 ELSE late[r]]
  BY DEF Grant, store
<1>2. Typed' /\ NumbersOK'
  BY <1>1 DEF AccessInv, Typed, NumbersOK
<1>3. BoundOK'
  BY <1>1, BoundShrinks DEF Reachable
<1>4. ASSUME NEW r \in Request PROVE RequestOK(r)'
  <2>1. late'[r] = 1 => \A j \in Id : <<req[r].principal, j>> \in grants'
                                        => <<req[r].principal, j>> \in grants
    BY <1>1
  <2>2. late'[r] = late[r] \/ late'[r] = 0
    BY <1>1
  <2> QED BY <1>1, <2>1, <2>2, RequestKept DEF AccessInv, Typed
<1> QED BY <1>2, <1>3, <1>4 DEF AccessInv

\* A grant ends.
LEMMA RevokeSafe ==
  ASSUME AccessInv, NEW g \in grants, Revoke(g) PROVE AccessInv'
<1>1. /\ UNCHANGED <<registered, made, removing, bound, req, owner, late>>
      /\ grants' \subseteq grants
  BY DEF Revoke, store
<1>2. Typed' /\ NumbersOK'
  BY <1>1 DEF AccessInv, Typed, NumbersOK
<1>3. BoundOK'
  BY <1>1, BoundShrinks DEF Reachable
<1>4. \A r \in Request : RequestOK(r)'
  BY <1>1, RequestKept DEF AccessInv, Typed
<1> QED BY <1>2, <1>3, <1>4 DEF AccessInv

--------------------------------------------------------------------------------
(* Steps of a request.                                                          *)

\* A step of one request leaves the others in order.
LEMMA OthersKept ==
  ASSUME AccessInv, NEW r \in Request, NEW v, req' = [req EXCEPT ![r] = v],
         \A q \in Request \ {r} : late'[q] = late[q],
         made' = made, registered' = registered, grants' = grants,
         \A s \in Session : owner[s] # None => owner'[s] = owner[s],
         RequestOK(r)'
  PROVE  \A q \in Request : RequestOK(q)'
<1>1. ASSUME NEW q \in Request \ {r} PROVE RequestOK(q)'
  BY <1>1, RequestKept DEF AccessInv, Typed
<1> QED BY <1>1

\* A request that is over leaves everything in order, whatever bindings it takes along.
LEMMA ForgottenSafe ==
  ASSUME AccessInv, NEW r \in Request, Forgotten(r),
         bound' \in [Session -> Binding \union {None}],
         \A s \in Session : bound'[s] # None => bound'[s] = bound[s],
         UNCHANGED <<registered, made, removing, grants, owner>>
  PROVE  AccessInv'
<1>1. /\ req' = [req EXCEPT ![r] = Idle] /\ late' = [late EXCEPT ![r] = 0]
      /\ req'[r] = Idle /\ late'[r] = 0 /\ Idle \in RequestState
  BY McpAccessAssumption DEF Forgotten, AccessInv, Typed, Idle, RequestState
<1>2. Typed' /\ NumbersOK'
  BY <1>1 DEF AccessInv, Typed, NumbersOK
<1>3. BoundOK'
  BY BoundShrinks DEF Reachable
<1>4. RequestOK(r)'
  BY <1>1, RequestOver
<1>5. \A q \in Request \ {r} : late'[q] = late[q]
  BY <1>1 DEF AccessInv, Typed
<1>6. \A q \in Request : RequestOK(q)'
  BY <1>1, <1>4, <1>5, OthersKept
<1> QED BY <1>2, <1>3, <1>6 DEF AccessInv

\* A request that is refused.
LEMMA DeniedSafe ==
  ASSUME AccessInv, NEW r \in Request, NEW purged, Denied(r, purged),
         UNCHANGED <<registered, made, removing, grants>>
  PROVE  AccessInv'
<1>1. PICK gone : Unbound(gone)
  BY DEF Denied
<1>2. Forgotten(r) /\ UNCHANGED owner
  BY DEF Denied
<1> QED BY <1>1, <1>2, UnboundShrinks, ForgottenSafe

\* A request arrives and is authorized.
LEMMA ArriveSafe ==
  ASSUME AccessInv, NEW r \in Request, NEW p \in Principal, NEW addressed \in Id \union {None},
         NEW s \in Session \union {None}, NEW i \in Id, Arrive(r, p, addressed, s, i)
  PROVE  AccessInv'
<1> DEFINE v == [at |-> "entering", principal |-> p, addressed |-> addressed,
                 session |-> s, found |-> i, channel |-> 0, started |-> FALSE]
<1>1. /\ req[r].at = "idle" /\ req' = [req EXCEPT ![r] = v]
      /\ UNCHANGED <<registered, made, removing, grants, bound, owner, late>>
  BY DEF Arrive, store
<1>3. v \in RequestState /\ v.at = "entering" /\ v.principal = p /\ v.found = i
  BY McpAccessAssumption DEF RequestState
<1> HIDE DEF v
<1>4. req'[r] = v /\ late[r] = 0
  BY <1>1 DEF AccessInv, Typed, RequestOK
<1>5. Typed' /\ NumbersOK'
  BY <1>1, <1>3 DEF AccessInv, Typed, NumbersOK
<1>6. BoundOK'
  BY <1>1, BoundShrinks DEF Reachable
<1>7. RequestOK(r)'
  BY <1>1, <1>3, <1>4 DEF RequestOK
<1>8. \A q \in Request : RequestOK(q)'
  BY <1>1, <1>7, OthersKept
<1> QED BY <1>5, <1>6, <1>8 DEF AccessInv

\* A request enters with the channel registered under the id it was granted.
LEMMA EnterSafe ==
  ASSUME AccessInv, NEW r \in Request, Enter(r) PROVE AccessInv'
<1> DEFINE s == req[r].session
           f == req[r].found
<1>1. CASE Denied(r, {})
  BY <1>1, DeniedSafe DEF Enter
<1>2. CASE /\ registered[f] # 0 /\ (s # None => Acceptable(s, Who(r)))
           /\ IF s = None THEN UNCHANGED store ELSE Renew(s)
           /\ Goes(r, "handled", f, registered[f], FALSE)
           /\ UNCHANGED <<owner, late>>
  <2>1. /\ req[r] \in RequestState /\ req[r].at = "entering" /\ late[r] = 0
        /\ req[r].principal \in Principal /\ f \in Id
        /\ UNCHANGED <<registered, made, removing, grants>>
    BY DEF AccessInv, Typed, RequestOK, Enter
  <2> DEFINE v == [at |-> "handled", principal |-> req[r].principal,
                   addressed |-> req[r].addressed, session |-> s, found |-> f,
                   channel |-> registered[f], started |-> FALSE]
  <2>2. req' = [req EXCEPT ![r] = v]
    BY <1>2 DEF Goes
  <2>3. /\ v \in RequestState /\ v.at = "handled" /\ v.principal = req[r].principal
        /\ v.found = f /\ v.channel = registered[f] /\ v.session = s
    BY <2>1 DEF RequestState, AccessInv, Typed
  <2> HIDE DEF v
  <2>4. req'[r] = v
    BY <2>2 DEF AccessInv, Typed
  <2>5. ASSUME s # None
        PROVE  s \in Session /\ bound[s] # None /\ owner[s] = Who(r)
    BY <1>2, <2>1, <2>5 DEF Acceptable, Bound, RequestState, AccessInv, BoundOK
  <2>6. /\ bound' \in [Session -> Binding \union {None}]
        /\ \A z \in Session : bound'[z] # None => bound[z] # None /\ bound'[z].who = bound[z].who
    <3>1. CASE s = None
      BY <1>2, <3>1 DEF store, AccessInv, Typed
    <3>2. CASE s # None
      <4>1. bound[s] \in Binding
        BY <2>5, <3>2 DEF AccessInv, Typed
      <4>2. bound' = [bound EXCEPT ![s] = [who |-> bound[s].who, left |-> IdleTicks]]
        BY <1>2, <3>2, <4>1 DEF Renew, Binding, AccessInv, Typed
      <4>3. [who |-> bound[s].who, left |-> IdleTicks] \in Binding
        BY <4>1, McpAccessAssumption DEF Binding
      <4> QED BY <2>5, <3>2, <4>2, <4>3 DEF AccessInv, Typed
    <3> QED BY <3>1, <3>2
  <2>7. Typed' /\ NumbersOK'
    BY <1>2, <2>1, <2>2, <2>3, <2>6 DEF AccessInv, Typed, NumbersOK
  <2>8. BoundOK'
    BY <1>2, <2>1, <2>6, BoundShrinks DEF Reachable
  <2>9. RequestOK(r)'
    <3>1. registered[f] \in 1..made
      BY <1>2, <2>1 DEF AccessInv, Typed, NumbersOK
    <3>2. \A i \in Id : registered[i] = registered[f] => i = f
      BY <1>2, <2>1 DEF AccessInv, NumbersOK
    <3>3. s # None => owner[s] = [principal |-> req[r].principal, id |-> f]
      BY <2>5 DEF Who
    <3>4. Entered(r, f)'
      BY <1>2, <2>1, <2>3, <2>4, <3>1, <3>2, <3>3 DEF Entered
    <3> QED BY <2>1, <2>3, <2>4, <3>4 DEF RequestOK, Entered
  <2>10. \A q \in Request : RequestOK(q)'
    BY <1>2, <2>1, <2>2, <2>9, OthersKept
  <2> QED BY <2>7, <2>8, <2>10 DEF AccessInv
<1> QED BY <1>1, <1>2 DEF Enter

\* A request is authorized again, perhaps for another channel.
LEMMA AuthorizeSafe ==
  ASSUME AccessInv, NEW r \in Request, Authorize(r) PROVE AccessInv'
<1>1. CASE Denied(r, {})
  BY <1>1, DeniedSafe DEF Authorize
<1>2. ASSUME NEW i \in Id, Resolves(req[r].principal, req[r].addressed, i),
             Goes(r, "sending", i, req[r].channel, req[r].started),
             UNCHANGED <<store, owner, late>>
      PROVE  AccessInv'
  <2>1. /\ req[r] \in RequestState /\ req[r].at = "handled"
        /\ req[r].principal \in Principal /\ req[r].found \in Id /\ Entered(r, req[r].found)
        /\ UNCHANGED <<registered, made, removing, grants, bound>>
    BY <1>2 DEF AccessInv, Typed, RequestOK, Authorize, store
  <2> DEFINE v == [at |-> "sending", principal |-> req[r].principal,
                   addressed |-> req[r].addressed, session |-> req[r].session, found |-> i,
                   channel |-> req[r].channel, started |-> req[r].started]
  <2>2. req' = [req EXCEPT ![r] = v]
    BY <1>2 DEF Goes
  <2>3. /\ v \in RequestState /\ v.at = "sending" /\ v.principal = req[r].principal
        /\ v.found = i /\ v.channel = req[r].channel /\ v.session = req[r].session
    BY <2>1 DEF RequestState
  <2> HIDE DEF v
  <2>4. req'[r] = v
    BY <2>2 DEF AccessInv, Typed
  <2>5. Typed' /\ NumbersOK'
    BY <1>2, <2>1, <2>2, <2>3 DEF AccessInv, Typed, NumbersOK
  <2>6. BoundOK'
    BY <1>2, <2>1, BoundShrinks DEF Reachable
  <2>7. RequestOK(r)'
    <3>1. PICK e \in Id : e = req[r].found
      BY <2>1
    <3>2. Entered(r, e)
      BY <2>1, <3>1
    <3>3. late[r] = 1 => i # e
      BY <1>2, <2>1, <3>1 DEF Entered, Resolves
    <3>4. Entered(r, e)'
      BY <1>2, <2>1, <2>3, <2>4, <3>2, <3>3 DEF Entered
    <3> QED BY <2>1, <2>3, <2>4, <3>4 DEF RequestOK
  <2>8. \A q \in Request : RequestOK(q)'
    BY <1>2, <2>1, <2>2, <2>7, OthersKept
  <2> QED BY <2>5, <2>6, <2>8 DEF AccessInv
<1> QED BY <1>1, <1>2 DEF Authorize

\* A message of a request goes out: the id it is sent for is the one it entered with, and
\* the message counts as late if the grant is gone.
LEMMA SentSafe ==
  ASSUME AccessInv, NEW r \in Request, req[r].at = "sending", SameChannel(r), Sent(r),
         UNCHANGED <<registered, made, removing, grants>>,
         \A s \in Session : owner[s] # None => owner'[s] = owner[s]
  PROVE  /\ req' \in [Request -> RequestState] /\ late' \in [Request -> Nat]
         /\ registered[req[r].found] # 0 /\ req[r].found \in Id /\ req[r].principal \in Principal
         /\ req[r].session # None => owner[req[r].session] = Who(r)
         /\ \A q \in Request : RequestOK(q)'
<1>1. /\ req[r] \in RequestState /\ late[r] \in Nat
      /\ req[r].principal \in Principal /\ req[r].found \in Id
      /\ \E e \in Id : Entered(r, e)
  BY DEF AccessInv, Typed, RequestOK
<1>2. PICK e \in Id : Entered(r, e)
  BY <1>1
<1>3. /\ req[r].found = e /\ registered[e] = req[r].channel /\ registered[e] # 0
      /\ late[r] = 0
  BY <1>1, <1>2 DEF Entered, SameChannel
<1> DEFINE v == [at |-> "handled", principal |-> req[r].principal,
                 addressed |-> req[r].addressed, session |-> req[r].session,
                 found |-> req[r].found, channel |-> req[r].channel, started |-> TRUE]
<1>4. /\ v \in RequestState /\ v.at = "handled" /\ v.principal = req[r].principal
      /\ v.found = e /\ v.channel = req[r].channel /\ v.session = req[r].session
  BY <1>1, <1>3 DEF RequestState
<1>5. req' = [req EXCEPT ![r] = v]
  BY DEF Sent, Goes
<1> HIDE DEF v
<1>6. /\ late' = [late EXCEPT ![r] = late'[r]] /\ late'[r] \in {0, 1}
      /\ late'[r] = 1 => <<req[r].principal, e>> \notin grants
  BY <1>3 DEF Sent, Holds, AccessInv, Typed
<1>7. /\ req' \in [Request -> RequestState] /\ late' \in [Request -> Nat] /\ req'[r] = v
      /\ \A q \in Request \ {r} : late'[q] = late[q]
  BY <1>4, <1>5, <1>6 DEF AccessInv, Typed
<1>8. req[r].session # None =>
        /\ req[r].session \in Session
        /\ owner[req[r].session] = [principal |-> req[r].principal, id |-> e]
        /\ owner'[req[r].session] = owner[req[r].session]
  BY <1>1, <1>2, OwnerIsSomeone DEF Entered, RequestState
<1>9. Entered(r, e)'
  BY <1>2, <1>4, <1>6, <1>7, <1>8 DEF Entered
<1>10. RequestOK(r)'
  BY <1>1, <1>3, <1>4, <1>7, <1>9 DEF RequestOK, Entered
<1>11. \A q \in Request : RequestOK(q)'
  BY <1>5, <1>7, <1>10, OthersKept
<1> QED BY <1>1, <1>3, <1>7, <1>8, <1>11 DEF Who

\* A message that is not the first.
LEMMA EmitBodySafe ==
  ASSUME AccessInv, NEW r \in Request, EmitBody(r) PROVE AccessInv'
<1>1. /\ UNCHANGED <<registered, made, removing, grants, bound, owner>>
      /\ req[r].at = "sending" /\ SameChannel(r) /\ Sent(r)
  BY DEF EmitBody, store
<1>2. /\ req' \in [Request -> RequestState] /\ late' \in [Request -> Nat]
      /\ \A q \in Request : RequestOK(q)'
  BY <1>1, SentSafe
<1>3. Typed' /\ NumbersOK'
  BY <1>1, <1>2 DEF AccessInv, Typed, NumbersOK
<1>4. BoundOK'
  BY <1>1, BoundShrinks DEF Reachable
<1> QED BY <1>2, <1>3, <1>4 DEF AccessInv

\* The first message of a response that ends the session without naming it.
LEMMA EmitDeletedSafe ==
  ASSUME AccessInv, NEW r \in Request, EmitDeleted(r) PROVE AccessInv'
<1>1. PICK gone : gone = {req[r].session}
  OBVIOUS
<1>2. /\ UNCHANGED <<registered, made, removing, grants, owner>>
      /\ req[r].at = "sending" /\ SameChannel(r) /\ Sent(r) /\ Unbound(gone)
  BY <1>1 DEF EmitDeleted
<1>3. /\ req' \in [Request -> RequestState] /\ late' \in [Request -> Nat]
      /\ \A q \in Request : RequestOK(q)'
  BY <1>2, SentSafe
<1>4. /\ bound' \in [Session -> Binding \union {None}]
      /\ \A s \in Session : bound'[s] # None => bound'[s] = bound[s]
  BY <1>2 DEF Unbound, AccessInv, Typed
<1>5. Typed' /\ NumbersOK'
  BY <1>2, <1>3, <1>4 DEF AccessInv, Typed, NumbersOK
<1>6. BoundOK'
  BY <1>2, <1>4, BoundShrinks DEF Reachable
<1> QED BY <1>3, <1>5, <1>6 DEF AccessInv

\* The first message, which binds the session.
LEMMA EmitStartSafe ==
  ASSUME AccessInv, NEW r \in Request, NEW s \in Session, NEW kept \in BOOLEAN,
         EmitStart(r, s, kept)
  PROVE  AccessInv'
<1>1. CASE Denied(r, Purged)
  BY <1>1, DeniedSafe DEF EmitStart
<1>2. CASE /\ Bind(s, Who(r), kept)
           /\ owner' = IF req[r].session = None THEN [owner EXCEPT ![s] = Who(r)] ELSE owner
           /\ Sent(r)
  <2>1. /\ UNCHANGED <<registered, made, removing, grants>>
        /\ req[r].at = "sending" /\ SameChannel(r)
        /\ IF req[r].session = None THEN owner[s] = None ELSE s = req[r].session
    BY DEF EmitStart
  <2>2. \A z \in Session : owner[z] # None => owner'[z] = owner[z]
    BY <1>2, <2>1 DEF AccessInv, Typed
  <2>3. /\ req' \in [Request -> RequestState] /\ late' \in [Request -> Nat]
        /\ registered[req[r].found] # 0 /\ req[r].found \in Id /\ req[r].principal \in Principal
        /\ req[r].session # None => owner[req[r].session] = Who(r)
        /\ \A q \in Request : RequestOK(q)'
    BY <1>2, <2>1, <2>2, SentSafe
  <2>4. Who(r) \in Identity /\ Fresh(Who(r)) \in Binding /\ Who(r).id = req[r].found
    BY <2>3, McpAccessAssumption DEF Who, Identity, Fresh, Binding
  <2>5. /\ owner' \in [Session -> Identity \union {None}] /\ owner'[s] = Who(r)
    BY <1>2, <2>1, <2>3, <2>4 DEF AccessInv, Typed
  <2>6. /\ bound' \in [Session -> Binding \union {None}]
        /\ bound'[s] \in {Fresh(Who(r)), None}
        /\ \A z \in Session \ {s} : bound'[z] \in {None, bound[z]}
    BY <1>2, <2>4 DEF Bind, AccessInv, Typed
  <2>7. Typed' /\ NumbersOK'
    BY <2>1, <2>3, <2>5, <2>6 DEF AccessInv, Typed, NumbersOK
  <2>8. BoundOK'
    <3>1. ASSUME NEW z \in Session, bound'[z] # None
          PROVE  /\ owner'[z] = bound'[z].who
                 /\ \A i \in Id : bound'[z].who.id = i => Reachable(i)'
      <4>1. CASE z = s
        <5>1. bound'[z].who = Who(r)
          BY <2>6, <3>1, <4>1 DEF Fresh
        <5> QED BY <2>1, <2>3, <2>4, <2>5, <4>1, <5>1 DEF Reachable
      <4>2. CASE z # s
        <5>1. bound'[z] = bound[z] /\ bound[z] \in Binding
          BY <2>6, <3>1, <4>2 DEF AccessInv, Typed
        <5>2. owner[z] = bound[z].who /\ \A i \in Id : bound[z].who.id = i => Reachable(i)
          BY <3>1, <5>1 DEF AccessInv, BoundOK, Bound
        <5>3. bound[z].who # None
          BY <5>1, McpAccessAssumption DEF Binding, Identity
        <5>4. owner'[z] = owner[z]
          BY <2>2, <5>2, <5>3
        <5>5. \A i \in Id : Reachable(i) => Reachable(i)'
          BY <2>1 DEF Reachable
        <5> QED BY <5>1, <5>2, <5>4, <5>5
      <4> QED BY <4>1, <4>2
    <3> QED BY <3>1 DEF BoundOK, Bound
  <2> QED BY <2>3, <2>7, <2>8 DEF AccessInv
<1> QED BY <1>1, <1>2 DEF EmitStart

\* A message for a channel that is gone, or another.
LEMMA EmitRefusedSafe ==
  ASSUME AccessInv, NEW r \in Request, EmitRefused(r) PROVE AccessInv'
BY DeniedSafe DEF EmitRefused

\* The response is over.
LEMMA EndsSafe ==
  ASSUME AccessInv, NEW r \in Request, Ends(r) PROVE AccessInv'
<1>1. /\ Forgotten(r) /\ UNCHANGED <<registered, made, removing, grants, owner, bound>>
  BY DEF Ends, store
<1>2. /\ bound' \in [Session -> Binding \union {None}]
      /\ \A s \in Session : bound'[s] # None => bound'[s] = bound[s]
  BY <1>1 DEF AccessInv, Typed
<1> QED BY <1>1, <1>2, ForgottenSafe

\* The process restarts.
LEMMA RestartSafe ==
  ASSUME AccessInv, Restart PROVE AccessInv'
<1>1. \A r \in Request : RequestOK(r)'
  BY RequestOver DEF Restart
<1>2. Idle \in RequestState
  BY McpAccessAssumption DEF Idle, RequestState
<1>3. Typed'
  BY <1>2, McpAccessAssumption DEF AccessInv, Typed, Restart
<1>4. NumbersOK'
  BY DEF AccessInv, Typed, NumbersOK, Restart
<1>5. BoundOK'
  BY DEF Restart, BoundOK, Bound
<1> QED BY <1>1, <1>3, <1>4, <1>5 DEF AccessInv

--------------------------------------------------------------------------------
(* The invariant and what follows from it.                                      *)

\* A restart of the gateway establishes the invariant, whatever the grants are.
LEMMA AccessInvInit == Init => AccessInv
<1> SUFFICES ASSUME Init PROVE AccessInv
  OBVIOUS
<1>1. Idle \in RequestState
  BY McpAccessAssumption DEF Idle, RequestState
<1>2. Typed /\ NumbersOK /\ BoundOK
  BY <1>1, McpAccessAssumption DEF Init, Typed, NumbersOK, BoundOK, Bound
<1>3. \A r \in Request : RequestOK(r)
  BY DEF Init, RequestOK, Idle
<1> QED BY <1>2, <1>3 DEF AccessInv

\* Every step keeps the invariant.
LEMMA AccessInvNext == AccessInv /\ [Next]_vars => AccessInv'
<1> SUFFICES ASSUME AccessInv, [Next]_vars PROVE AccessInv'
  OBVIOUS
<1>1. ASSUME NEW r \in Request, RequestStep(r) PROVE AccessInv'
  BY <1>1, ArriveSafe, EnterSafe, AuthorizeSafe, EmitStartSafe, EmitDeletedSafe,
     EmitBodySafe, EmitRefusedSafe, EndsSafe DEF RequestStep
<1>2. CASE \E i \in Id : Create(i) \/ Remove(i)
  BY <1>2, CreateSafe, RemoveSafe
<1>3. CASE \E m \in removing : RemovalUnbinds(m) \/ RemovalRevokes(m)
  BY <1>3, RemovalUnbindsSafe, RemovalRevokesSafe
<1>4. CASE \E p \in Principal, i \in Id : Grant(p, i)
  BY <1>4, GrantSafe
<1>5. CASE \E g \in grants : Revoke(g)
  BY <1>5, RevokeSafe
<1>6. CASE Tick \/ Restart
  BY <1>6, TickSafe, RestartSafe
<1>7. CASE UNCHANGED vars
  <2>1. UNCHANGED <<registered, made, removing, grants, bound, req, owner, late>>
    BY <1>7 DEF vars, store
  <2>2. Typed' /\ NumbersOK'
    BY <2>1 DEF AccessInv, Typed, NumbersOK
  <2>3. BoundOK'
    BY <2>1, BoundShrinks DEF Reachable
  <2>4. \A r \in Request : RequestOK(r)'
    BY <2>1, RequestKept DEF AccessInv, Typed
  <2> QED BY <2>2, <2>3, <2>4 DEF AccessInv
<1> QED BY <1>1, <1>2, <1>3, <1>4, <1>5, <1>6, <1>7 DEF Next

\* The invariant holds in every behaviour.
THEOREM AccessInvHolds == Spec => []AccessInv
<1>1. Init => AccessInv
  BY AccessInvInit
<1>2. AccessInv /\ [Next]_vars => AccessInv'
  BY AccessInvNext
<1> QED BY <1>1, <1>2, PTL DEF Spec

\* A session is bound to and used by the identity it was created for, and by no other,
\* however its binding expires, is purged, removed and comes back.
THEOREM SessionsStay == Spec => []SessionStaysWithOwner
<1>1. AccessInv => SessionStaysWithOwner
  BY DEF AccessInv, BoundOK, RequestOK, Entered, SessionStaysWithOwner, Who
<1> QED BY <1>1, AccessInvHolds, PTL

\* Whatever is revoked and however often a response is authorized again, it sends one
\* message at most without its grant.
THEOREM LatenessIsBounded == Spec => []OneLateMessage
<1>1. AccessInv => OneLateMessage
  <2> SUFFICES ASSUME AccessInv, NEW r \in Request PROVE late[r] <= 1
    BY DEF OneLateMessage
  <2>1. RequestOK(r) /\ req[r] \in RequestState
    BY DEF AccessInv, Typed
  <2>2. req[r].at \in {"idle", "entering", "handled", "sending"}
    BY <2>1 DEF RequestState
  <2>3. CASE req[r].at \in {"idle", "entering"}
    BY <2>1, <2>3 DEF RequestOK
  <2>4. CASE req[r].at \in {"handled", "sending"}
    BY <2>1, <2>4 DEF RequestOK, Entered
  <2> QED BY <2>2, <2>3, <2>4
<1> QED BY <1>1, AccessInvHolds, PTL

\* No binding outlives its channel and the removal that is about to reach it.
THEOREM BindingsEnd == Spec => []BindingsEndWithTheChannel
<1>1. AccessInv => BindingsEndWithTheChannel
  <2> SUFFICES ASSUME AccessInv, NEW s \in Bound
               PROVE  Reachable(bound[s].who.id)
    BY DEF BindingsEndWithTheChannel, Reachable
  <2>1. bound[s] \in Binding
    BY DEF AccessInv, Typed, Bound
  <2>2. bound[s].who.id \in Id
    BY <2>1 DEF Binding, Identity
  <2> QED BY <2>2 DEF AccessInv, BoundOK
<1> QED BY <1>1, AccessInvHolds, PTL

--------------------------------------------------------------------------------
(* The tables: their limits, and the order of the bindings, which is that of    *)
(* their last use.                                                              *)

\* A binding stands before those that stay in use at least as long.
Sorted == \A s, z \in Bound : <<s, z>> \in order => bound[s].left <= bound[z].left

BindingsInv ==
  /\ bound \in [Session -> Binding \union {None}]
  /\ IsFiniteSet(Bound) /\ Cardinality(Bound) <= MaxSessions
  /\ Ordered /\ Sorted

GrantsInv ==
  grants \subseteq Principal \X Id /\ IsFiniteSet(grants) /\ Cardinality(grants) <= MaxGrants

RemovingOK ==
  removing \subseteq [id : Id, channel : 1..MaxChannels, step : {"closing", "revoking"}]

TablesInv == BindingsInv /\ GrantsInv /\ RemovingOK

\* Bindings that stay keep their order.
LEMMA RestKept ==
  ASSUME BindingsInv, NEW rest \in SUBSET Bound, bound' \in [Session -> Binding \union {None}],
         Bound' = rest, \A s \in rest : bound'[s] = bound[s], order' = Kept(rest)
  PROVE  BindingsInv'
<1>1. IsFiniteSet(rest) /\ Cardinality(rest) <= Cardinality(Bound)
  BY FS_Subset DEF BindingsInv
<1>2. Cardinality(rest) \in Nat /\ Cardinality(Bound) \in Nat
  BY <1>1, FS_CardinalityType DEF BindingsInv
<1>3. Cardinality(rest) <= MaxSessions
  BY <1>1, <1>2, McpAccessAssumption DEF BindingsInv
<1>4. IsFiniteSet(Bound') /\ Cardinality(Bound') <= MaxSessions
  BY <1>1, <1>3
<1>5. \A s, z \in rest : <<s, z>> \in order' <=> <<s, z>> \in order
  BY DEF Kept
<1>6. order' \subseteq rest \X rest
  BY DEF Kept
<1>7. Ordered'
  BY <1>5, <1>6 DEF Ordered, BindingsInv
<1>8. Sorted'
  BY <1>5 DEF Sorted, BindingsInv
<1> QED BY <1>4, <1>7, <1>8 DEF BindingsInv

\* A binding that is put goes behind those that stay.
LEMMA PutLast ==
  ASSUME BindingsInv, NEW rest \in SUBSET Bound, NEW s \in Session \ rest,
         bound' \in [Session -> Binding \union {None}],
         Bound' = rest \union {s}, \A z \in rest : bound'[z] = bound[z],
         bound'[s].left = IdleTicks, order' = Kept(rest) \union (rest \X {s}),
         Cardinality(rest) < MaxSessions
  PROVE  BindingsInv'
<1>1. IsFiniteSet(rest) /\ Cardinality(rest) \in Nat
  BY FS_Subset, FS_CardinalityType DEF BindingsInv
<1>2. IsFiniteSet(rest \union {s}) /\ Cardinality(rest \union {s}) = Cardinality(rest) + 1
  BY <1>1, FS_AddElement
<1>3. IsFiniteSet(Bound') /\ Cardinality(Bound') <= MaxSessions
  BY <1>1, <1>2, McpAccessAssumption
<1>4. \A y, z \in rest : <<y, z>> \in order' <=> <<y, z>> \in order
  BY DEF Kept
<1>5. \A z \in rest : <<z, s>> \in order' /\ <<s, z>> \notin order'
  BY DEF Kept
<1>6. <<s, s>> \notin order' /\ order' \subseteq Bound' \X Bound'
  BY DEF Kept
<1>7. Ordered'
  <2>1. \A y, z \in Bound' : y # z => (<<y, z>> \in order' <=> <<z, y>> \notin order')
    BY <1>4, <1>5 DEF Ordered, BindingsInv
  <2>2. \A z \in Bound' : <<z, z>> \notin order'
    BY <1>4, <1>6 DEF Ordered, BindingsInv
  <2>3. ASSUME NEW x \in Bound', NEW y \in Bound', NEW z \in Bound',
               <<x, y>> \in order', <<y, z>> \in order'
        PROVE  <<x, z>> \in order'
    <3>1. x \in rest /\ y \in rest
      BY <1>5, <1>6, <2>3
    <3>2. CASE z = s
      BY <1>5, <3>1, <3>2
    <3>3. CASE z # s
      BY <1>4, <2>3, <3>1, <3>3 DEF Ordered, BindingsInv
    <3> QED BY <3>2, <3>3
  <2> QED BY <1>6, <2>1, <2>2, <2>3 DEF Ordered
<1>8. Sorted'
  <2> SUFFICES ASSUME NEW y \in Bound', NEW z \in Bound', <<y, z>> \in order'
               PROVE  bound'[y].left <= bound'[z].left
    BY DEF Sorted
  <2>1. y \in rest
    BY <1>5, <1>6
  <2>2. bound'[y] \in Binding
    BY <2>1 DEF Bound
  <2>3. bound'[y].left \in 0..IdleTicks
    BY <2>2 DEF Binding
  <2>4. CASE z = s
    BY <2>3, <2>4, McpAccessAssumption
  <2>5. CASE z # s
    BY <1>4, <2>1, <2>5 DEF Sorted, BindingsInv
  <2> QED BY <2>4, <2>5
<1> QED BY <1>3, <1>7, <1>8 DEF BindingsInv

\* Bindings that are removed leave the others where they are.
LEMMA UnboundOrdered ==
  ASSUME BindingsInv, NEW gone, Unbound(gone)
  PROVE  BindingsInv'
<1> DEFINE rest == Bound \ gone
<1>1. /\ bound' = [s \in Session |-> IF s \in gone THEN None ELSE bound[s]]
      /\ order' = Kept(rest)
  BY DEF Unbound
<1>2. /\ bound' \in [Session -> Binding \union {None}]
      /\ Bound' = rest /\ \A s \in rest : bound'[s] = bound[s]
  BY <1>1 DEF Bound, BindingsInv
<1>3. rest \in SUBSET Bound
  OBVIOUS
<1> HIDE DEF rest
<1> QED BY <1>1, <1>2, <1>3, RestKept

\* A binding that is used goes to the end.
LEMMA RenewOrdered ==
  ASSUME BindingsInv, NEW s \in Bound, Renew(s)
  PROVE  BindingsInv'
<1> DEFINE rest == Bound \ {s}
<1>1. /\ order' = Kept(rest) \union (rest \X {s})
      /\ s \in Session /\ bound[s] \in Binding
  BY DEF Renew, Bound, BindingsInv
<1>2. bound' = [bound EXCEPT ![s] = [who |-> bound[s].who, left |-> IdleTicks]]
  <2>1. PICK b \in Binding : b = bound[s]
    BY <1>1
  <2>2. [b EXCEPT !.left = IdleTicks] = [who |-> b.who, left |-> IdleTicks]
    BY DEF Binding
  <2>3. bound' = [bound EXCEPT ![s] = [b EXCEPT !.left = IdleTicks]]
    BY <2>1 DEF Renew
  <2> QED BY <2>1, <2>2, <2>3
<1>3. [who |-> bound[s].who, left |-> IdleTicks] \in Binding
  BY <1>1, McpAccessAssumption DEF Binding
<1>4. /\ bound' \in [Session -> Binding \union {None}] /\ bound'[s].left = IdleTicks
      /\ \A z \in rest : bound'[z] = bound[z]
  BY <1>1, <1>2, <1>3 DEF BindingsInv, Bound
<1>5. Bound' = rest \union {s}
  BY <1>1, <1>2, <1>3, BindingIsSomething DEF Bound, BindingsInv
<1>6. Cardinality(rest) < MaxSessions
  <2>1. Cardinality(rest) = Cardinality(Bound) - 1 /\ Cardinality(Bound) \in Nat
    BY FS_RemoveElement, FS_CardinalityType DEF BindingsInv
  <2> QED BY <2>1, McpAccessAssumption DEF BindingsInv
<1>7. rest \in SUBSET Bound /\ s \in Session \ rest
  BY <1>1
<1> HIDE DEF rest
<1> QED BY <1>1, <1>4, <1>5, <1>6, <1>7, PutLast

\* A binding that is made or made anew goes to the end, and there is room for it.
LEMMA BindOrdered ==
  ASSUME BindingsInv, NEW s \in Session, NEW who \in Identity, NEW kept \in BOOLEAN,
         Bindable(s, who), Bind(s, who, kept)
  PROVE  BindingsInv'
<1> DEFINE rest == Bound \ (Purged \union {s})
           new == IF kept THEN Fresh(who) ELSE None
<1>1. /\ bound' = [z \in Session |-> IF z = s THEN new
                                     ELSE IF z \in Purged THEN None ELSE bound[z]]
      /\ order' = Kept(rest) \union (IF kept THEN rest \X {s} ELSE {})
  BY DEF Bind
<1>2. Fresh(who) \in Binding /\ Fresh(who).left = IdleTicks /\ Fresh(who) # None
  BY McpAccessAssumption, BindingIsSomething DEF Fresh, Binding
<1>3. /\ bound' \in [Session -> Binding \union {None}]
      /\ \A z \in rest : bound'[z] = bound[z]
  BY <1>1, <1>2 DEF BindingsInv, Bound
<1>4. rest \in SUBSET Bound /\ s \in Session \ rest
  OBVIOUS
<1>5. CASE kept
  <2>1. Bound' = rest \union {s} /\ bound'[s].left = IdleTicks
    BY <1>1, <1>2, <1>5 DEF Bound
  <2>2. Cardinality(rest) < MaxSessions
    <3> DEFINE left == Bound \ Purged
    <3>1. IsFiniteSet(left) /\ Cardinality(left) <= Cardinality(Bound)
      BY FS_Subset DEF BindingsInv
    <3>2. Cardinality(left) \in Nat /\ Cardinality(Bound) \in Nat
      BY <3>1, FS_CardinalityType DEF BindingsInv
    <3>3. CASE s \in left
      <4>1. rest = left \ {s}
        OBVIOUS
      <4>2. Cardinality(rest) = Cardinality(left) - 1
        BY <3>1, <3>3, <4>1, FS_RemoveElement
      <4> HIDE DEF left, rest
      <4> QED BY <3>1, <3>2, <4>2, McpAccessAssumption DEF BindingsInv
    <3>4. CASE s \notin left
      BY <3>4 DEF Bindable
    <3> QED BY <3>3, <3>4
  <2>3. order' = Kept(rest) \union (rest \X {s})
    BY <1>1, <1>5
  <2> HIDE DEF rest
  <2> QED BY <1>3, <1>4, <2>1, <2>2, <2>3, PutLast
<1>6. CASE ~kept
  <2>1. Bound' = rest
    BY <1>1, <1>6 DEF Bound
  <2>2. order' = Kept(rest)
    BY <1>1, <1>6
  <2> HIDE DEF rest
  <2> QED BY <1>3, <1>4, <2>1, <2>2, RestKept
<1> QED BY <1>5, <1>6

\* Time passes for all bindings alike.
LEMMA TickOrdered ==
  ASSUME BindingsInv, Tick
  PROVE  BindingsInv'
<1>1. \A s \in Bound : bound[s].left \in 0..IdleTicks /\ bound[s] \in Binding
  BY DEF BindingsInv, Bound, Binding
<1>2. ASSUME NEW s \in Session
      PROVE  /\ s \notin Bound => bound'[s] = None
             /\ s \in Bound => /\ bound'[s] \in Binding
                               /\ bound'[s].left = IF bound[s].left > 0
                                                   THEN bound[s].left - 1 ELSE 0
  <2>1. CASE s \in Bound /\ bound[s].left > 0
    <3>1. bound'[s] = [bound[s] EXCEPT !.left = @ - 1]
      BY <2>1 DEF Tick
    <3>2. bound'[s] = [who |-> bound[s].who, left |-> bound[s].left - 1]
      BY <1>1, <2>1, <3>1 DEF Binding
    <3>3. bound[s].left - 1 \in 0..IdleTicks
      BY <1>1, <2>1, McpAccessAssumption
    <3> QED BY <1>1, <2>1, <3>2, <3>3 DEF Binding
  <2>2. CASE s \in Bound /\ ~(bound[s].left > 0)
    <3>1. bound'[s] = bound[s]
      BY <2>2 DEF Tick
    <3>2. bound[s].left = 0
      BY <1>1, <2>2, McpAccessAssumption
    <3> QED BY <1>1, <2>2, <3>1, <3>2
  <2>3. CASE s \notin Bound
    BY <2>3 DEF Tick, Bound
  <2> QED BY <2>1, <2>2, <2>3
<1>3. bound' \in [Session -> Binding \union {None}]
  BY <1>2 DEF Tick
<1>4. Bound' = Bound
  BY <1>2, BindingIsSomething DEF Bound
<1>5. order' = order
  BY DEF Tick
<1>6. Ordered'
  BY <1>4, <1>5 DEF Ordered, BindingsInv
<1>7. Sorted'
  <2> SUFFICES ASSUME NEW s \in Bound, NEW z \in Bound, <<s, z>> \in order
               PROVE  bound'[s].left <= bound'[z].left
    BY <1>4, <1>5 DEF Sorted
  <2>1. bound[s].left <= bound[z].left
    BY DEF Sorted, BindingsInv
  <2>2. s \in Session /\ z \in Session
    BY DEF Bound
  <2> QED BY <1>1, <1>2, <2>1, <2>2, McpAccessAssumption
<1> QED BY <1>3, <1>4, <1>6, <1>7 DEF BindingsInv

\* A step of a request leaves the bindings in order.
LEMMA RequestStepOrdered ==
  ASSUME AccessInv, BindingsInv, NEW r \in Request, RequestStep(r)
  PROVE  BindingsInv'
<1>1. CASE UNCHANGED store
  <2>1. bound' = bound /\ order' = order
    BY <1>1 DEF store
  <2>2. Bound' = Bound
    BY <2>1 DEF Bound
  <2> QED BY <2>1, <2>2 DEF BindingsInv, Ordered, Sorted
<1>2. ASSUME NEW purged, Denied(r, purged) PROVE BindingsInv'
  <2>1. PICK gone : Unbound(gone)
    BY <1>2 DEF Denied
  <2> QED BY <2>1, UnboundOrdered
<1>3. CASE Enter(r)
  <2>1. CASE req[r].session # None /\ Acceptable(req[r].session, Who(r)) /\ Renew(req[r].session)
    <3>1. PICK s \in Bound : s = req[r].session
      BY <2>1 DEF Acceptable
    <3> QED BY <2>1, <3>1, RenewOrdered
  <2> QED BY <1>1, <1>2, <1>3, <2>1 DEF Enter
<1>4. ASSUME NEW s \in Session, NEW kept \in BOOLEAN, EmitStart(r, s, kept)
      PROVE  BindingsInv'
  <2>1. CASE Bindable(s, Who(r)) /\ Bind(s, Who(r), kept)
    <3>1. PICK who : who = Who(r)
      OBVIOUS
    <3>2. who \in Identity
      BY <1>4, <3>1 DEF Who, Identity, EmitStart, AccessInv, RequestOK
    <3> QED BY <2>1, <3>1, <3>2, BindOrdered
  <2> QED BY <1>2, <1>4, <2>1 DEF EmitStart
<1>5. CASE Authorize(r)
  BY <1>1, <1>2, <1>5 DEF Authorize
<1>6. CASE EmitBody(r) \/ Ends(r)
  BY <1>1, <1>6 DEF EmitBody, Ends
<1>7. CASE EmitRefused(r)
  BY <1>2, <1>7 DEF EmitRefused
<1>8. ASSUME NEW p \in Principal, NEW addressed \in Id \union {None},
             NEW s \in Session \union {None}, NEW i \in Id, Arrive(r, p, addressed, s, i)
      PROVE  BindingsInv'
  BY <1>1, <1>8 DEF Arrive
<1>9. CASE EmitDeleted(r)
  <2>1. PICK gone : Unbound(gone)
    BY <1>9 DEF EmitDeleted
  <2> QED BY <2>1, UnboundOrdered
<1> QED BY <1>3, <1>4, <1>5, <1>6, <1>7, <1>8, <1>9 DEF RequestStep

\* Every step keeps the bindings within their limit and in order.
LEMMA BindingsInvNext ==
  ASSUME AccessInv, BindingsInv, [Next]_vars PROVE BindingsInv'
<1>1. CASE UNCHANGED store
  <2>1. bound' = bound /\ order' = order
    BY <1>1 DEF store
  <2>2. Bound' = Bound
    BY <2>1 DEF Bound
  <2> QED BY <2>1, <2>2 DEF BindingsInv, Ordered, Sorted
<1>2. CASE \E r \in Request : RequestStep(r)
  BY <1>2, RequestStepOrdered
<1>3. CASE \E i \in Id : Create(i) \/ Remove(i)
  BY <1>1, <1>3 DEF Create, Remove
<1>4. ASSUME NEW m \in removing, RemovalUnbinds(m) PROVE BindingsInv'
  <2>1. PICK gone : Unbound(gone)
    BY <1>4 DEF RemovalUnbinds
  <2> QED BY <2>1, UnboundOrdered
<1>5. ASSUME NEW m \in removing, RemovalRevokes(m) PROVE BindingsInv'
  BY <1>1, <1>5 DEF RemovalRevokes
<1>6. CASE \E p \in Principal, i \in Id : Grant(p, i)
  BY <1>1, <1>6 DEF Grant
<1>7. CASE \E g \in grants : Revoke(g)
  BY <1>1, <1>7 DEF Revoke
<1>8. CASE Tick
  BY <1>8, TickOrdered
<1>9. CASE Restart
  <2>1. /\ bound' = [s \in Session |-> None] /\ order' = {} /\ Bound' = {}
    BY <1>9 DEF Restart, Bound
  <2> QED BY <2>1, FS_EmptySet, McpAccessAssumption DEF BindingsInv, Ordered, Sorted
<1>10. CASE UNCHANGED vars
  BY <1>1, <1>10 DEF vars
<1> QED BY <1>2, <1>3, <1>4, <1>5, <1>6, <1>7, <1>8, <1>9, <1>10 DEF Next

\* Every step keeps the rows of grants within their limit.
LEMMA GrantsInvNext ==
  ASSUME GrantsInv, [Next]_vars PROVE GrantsInv'
<1>1. ASSUME grants' \subseteq grants PROVE GrantsInv'
  <2>1. IsFiniteSet(grants') /\ Cardinality(grants') <= Cardinality(grants)
    BY <1>1, FS_Subset DEF GrantsInv
  <2>2. Cardinality(grants') \in Nat /\ Cardinality(grants) \in Nat
    BY <2>1, FS_CardinalityType DEF GrantsInv
  <2> QED BY <1>1, <2>1, <2>2, McpAccessAssumption DEF GrantsInv
<1>2. ASSUME NEW p \in Principal, NEW i \in Id, Grant(p, i) PROVE GrantsInv'
  <2>1. /\ grants' = grants \union {<<p, i>>}
        /\ <<p, i>> \in grants \/ Cardinality(grants) < MaxGrants
    BY <1>2 DEF Grant
  <2>2. CASE <<p, i>> \in grants
    <3>1. grants' = grants
      BY <2>1, <2>2
    <3> QED BY <1>1, <3>1
  <2>3. CASE <<p, i>> \notin grants
    <3>1. /\ IsFiniteSet(grants') /\ Cardinality(grants') = Cardinality(grants) + 1
          /\ Cardinality(grants) \in Nat
      BY <2>1, <2>3, FS_AddElement, FS_CardinalityType DEF GrantsInv
    <3> QED BY <2>1, <2>3, <3>1, McpAccessAssumption DEF GrantsInv
  <2> QED BY <2>2, <2>3
<1>3. ASSUME NEW r \in Request, RequestStep(r) PROVE grants' = grants
  BY <1>3 DEF RequestStep, Arrive, Enter, Authorize, EmitStart, EmitDeleted,
              EmitBody, EmitRefused, Ends
<1>4. ASSUME NEW i \in Id, Create(i) \/ Remove(i) PROVE grants' = grants
  BY <1>4 DEF Create, Remove
<1>5. ASSUME NEW m \in removing, RemovalUnbinds(m) \/ RemovalRevokes(m)
      PROVE  grants' \subseteq grants
  BY <1>5 DEF RemovalUnbinds, RemovalRevokes
<1>6. ASSUME NEW g \in grants, Revoke(g) PROVE grants' \subseteq grants
  BY <1>6 DEF Revoke
<1>7. CASE Tick \/ Restart \/ UNCHANGED vars
  BY <1>1, <1>7 DEF Tick, Restart, vars
<1> QED BY <1>1, <1>2, <1>3, <1>4, <1>5, <1>6, <1>7 DEF Next

\* Every step keeps the removals under way typed.
LEMMA RemovingNext ==
  ASSUME AccessInv, RemovingOK, [Next]_vars PROVE RemovingOK'
<1>1. ASSUME NEW r \in Request, RequestStep(r) PROVE removing' = removing
  BY <1>1 DEF RequestStep, Arrive, Enter, Authorize, EmitStart, EmitDeleted,
              EmitBody, EmitRefused, Ends
<1>2. ASSUME NEW i \in Id, Create(i) PROVE removing' = removing
  BY <1>2 DEF Create
<1>3. ASSUME NEW i \in Id, Remove(i) PROVE RemovingOK'
  <2>1. registered[i] \in 1..MaxChannels
    BY <1>3, McpAccessAssumption DEF Remove, AccessInv, Typed
  <2> QED BY <1>3, <2>1 DEF Remove, RemovingOK
<1>4. ASSUME NEW m \in removing, RemovalUnbinds(m) PROVE RemovingOK'
  <2>1. /\ removing' = (removing \ {m}) \union {[m EXCEPT !.step = "revoking"]}
        /\ m \in [id : Id, channel : 1..MaxChannels, step : {"closing", "revoking"}]
    BY <1>4 DEF RemovalUnbinds, RemovingOK
  <2>2. [m EXCEPT !.step = "revoking"]
          \in [id : Id, channel : 1..MaxChannels, step : {"closing", "revoking"}]
    BY <2>1
  <2> QED BY <2>1, <2>2 DEF RemovingOK
<1>5. ASSUME NEW m \in removing, RemovalRevokes(m) PROVE RemovingOK'
  BY <1>5 DEF RemovalRevokes, RemovingOK
<1>6. CASE \/ \E p \in Principal, i \in Id : Grant(p, i)
           \/ \E g \in grants : Revoke(g)
           \/ Tick \/ UNCHANGED vars
  BY <1>6 DEF Grant, Revoke, Tick, vars, RemovingOK
<1>7. CASE Restart
  BY <1>7 DEF Restart, RemovingOK
<1> QED BY <1>1, <1>2, <1>3, <1>4, <1>5, <1>6, <1>7 DEF Next, RemovingOK

\* The tables stay within their limits, and the bindings in the order of their use.
LEMMA TablesInvHolds == Spec => []TablesInv
<1>1. Init => TablesInv
  <2> SUFFICES ASSUME Init PROVE TablesInv
    OBVIOUS
  <2>1. bound = [s \in Session |-> None] /\ order = {} /\ grants = {} /\ removing = {}
    BY DEF Init
  <2>2. Bound = {}
    BY <2>1 DEF Bound
  <2>3. BindingsInv
    BY <2>1, <2>2, FS_EmptySet, McpAccessAssumption DEF BindingsInv, Ordered, Sorted
  <2>4. GrantsInv /\ RemovingOK
    BY <2>1, FS_EmptySet, McpAccessAssumption DEF GrantsInv, RemovingOK
  <2> QED BY <2>3, <2>4 DEF TablesInv
<1>2. AccessInv /\ TablesInv /\ [Next]_vars => TablesInv'
  BY BindingsInvNext, GrantsInvNext, RemovingNext DEF TablesInv
<1> QED BY <1>1, <1>2, AccessInvHolds, PTL DEF Spec

\* The types hold and no table outgrows its limit, for any limits: a purge frees the room
\* that bind then counts, and one row of grants is never stored twice.
THEOREM TablesAreBounded == Spec => []TypeOK
<1>1. AccessInv /\ TablesInv => TypeOK
  BY DEF AccessInv, Typed, TablesInv, BindingsInv, GrantsInv, RemovingOK, Binding, TypeOK
<1> QED BY <1>1, AccessInvHolds, TablesInvHolds, PTL

\* The purge takes every binding that is idle, and no other.
LEMMA PurgedAreIdle ==
  ASSUME BindingsInv PROVE IdleBindingsArePurged
<1>1. ASSUME NEW s \in Bound, bound[s].left = 0 PROVE s \in Purged
  <2>1. \A z \in Bound : bound[z].left \in 0..IdleTicks
    BY DEF BindingsInv, Binding, Bound
  <2>2. \A z \in Bound : <<z, s>> \in order => bound[z].left = 0
    BY <1>1, <2>1, McpAccessAssumption DEF BindingsInv, Sorted
  <2> QED BY <1>1, <2>2 DEF Purged
<1>2. \A s \in Purged : s \in Bound /\ bound[s].left = 0
  BY DEF Purged
<1> QED BY <1>1, <1>2 DEF IdleBindingsArePurged

\* The purge, which stops at the first binding in use, finds every idle one: use moves a
\* binding to the end, and nothing else changes the order (session_binding.py:71-80).
THEOREM PurgeFindsTheIdle == Spec => []IdleBindingsArePurged
<1>1. TablesInv => IdleBindingsArePurged
  BY PurgedAreIdle DEF TablesInv
<1> QED BY <1>1, TablesInvHolds, PTL

--------------------------------------------------------------------------------
(* The bindings implement a table of the sessions in use.                       *)

\* The sessions in use, each as it is bound.
LEMMA UsingIsBound ==
  \A s \in Session : UsingOf[s] = IF bound[s] # None /\ bound[s].left > 0 THEN bound[s] ELSE None
BY DEF UsingOf, Bound

\* The same after a step.
LEMMA UsingNext ==
  /\ UsingOf' = [s \in Session |-> UsingOf'[s]]
  /\ \A s \in Session : UsingOf'[s] = IF bound'[s] # None /\ bound'[s].left > 0
                                      THEN bound'[s] ELSE None
BY DEF UsingOf, Bound

\* The sessions in use are those that are bound and that a purge leaves.
LEMMA InUseIsUnpurged ==
  ASSUME BindingsInv
  PROVE  /\ Sessions!InUse = Bound \ Purged
         /\ \A s \in Bound \ Purged : /\ UsingOf[s] = bound[s] /\ bound[s] \in Binding
                                      /\ bound[s].left \in 1..IdleTicks
         /\ \A s \in Session : s \notin Bound \ Purged => UsingOf[s] = None
<1>1. \A s \in Bound : /\ bound[s] \in Binding /\ bound[s] # None /\ bound[s].left \in 0..IdleTicks
                       /\ s \in Purged <=> bound[s].left = 0
  BY PurgedAreIdle DEF IdleBindingsArePurged, BindingsInv, Binding, Bound
<1>2. \A s \in Bound \ Purged : /\ UsingOf[s] = bound[s] /\ bound[s] \in Binding
                                /\ bound[s].left \in 1..IdleTicks
  BY <1>1, UsingIsBound, McpAccessAssumption DEF Bound
<1>3. \A s \in Session : s \notin Bound \ Purged => UsingOf[s] = None
  BY <1>1, UsingIsBound DEF Bound
<1>4. \A s \in Session : UsingOf[s] # None <=> s \in Bound \ Purged
  BY <1>1, <1>2, <1>3
<1>5. Sessions!InUse = Bound \ Purged
  BY <1>4 DEF Sessions!InUse, Bound
<1> QED BY <1>2, <1>3, <1>5

\* What bind decides with a purge is what the table of the sessions in use decides.
LEMMA DecisionsAgree ==
  ASSUME BindingsInv, NEW s \in Session, NEW who \in Identity
  PROVE  Bindable(s, who) <=> Sessions!MayUse(s, who)
<1>1. Sessions!Cardinality(Bound \ Purged) = Cardinality(Bound \ Purged)
  BY DEF Sessions!Cardinality, Cardinality
<1>2. Sessions!InUse = Bound \ Purged
  BY InUseIsUnpurged
<1>3. s \in Bound \ Purged => UsingOf[s] = bound[s]
  BY InUseIsUnpurged
<1> QED BY <1>1, <1>2, <1>3 DEF Bindable, Sessions!MayUse

\* Bindings that are taken away end their sessions.
LEMMA UnboundEnds ==
  ASSUME NEW gone, Unbound(gone)
  PROVE  Sessions!Next
<1> DEFINE over == {s \in Session : s \in gone}
<1>1. \A s \in Session : UsingOf'[s] = IF s \in over THEN None ELSE UsingOf[s]
  BY UsingIsBound, UsingNext DEF Unbound
<1>2. UsingOf' = [s \in Session |-> IF s \in over THEN None ELSE UsingOf[s]]
  BY <1>1, UsingNext
<1>3. Sessions!End(over)
  BY <1>2 DEF Sessions!End
<1>4. over \in SUBSET Session
  OBVIOUS
<1> HIDE DEF over
<1> QED BY <1>3, <1>4 DEF Sessions!Next

\* A session that a request enters with is used.
LEMMA RenewUses ==
  ASSUME BindingsInv, NEW s, NEW who \in Identity, Acceptable(s, who), Renew(s)
  PROVE  Sessions!Next
<1>1. s \in Session /\ s \in Bound /\ bound[s] # None /\ bound[s].left > 0 /\ bound[s].who = who
      /\ bound[s] \in Binding
  BY DEF Acceptable, Bound, BindingsInv
<1>2. s \in Bound \ Purged
  BY <1>1, PurgedAreIdle DEF IdleBindingsArePurged
<1>3. Sessions!MayUse(s, who)
  BY <1>1, <1>2, InUseIsUnpurged DEF Sessions!MayUse
<1>4. bound' = [bound EXCEPT ![s] = [who |-> who, left |-> IdleTicks]]
  <2>1. PICK b \in Binding : b = bound[s]
    BY <1>1
  <2>2. [b EXCEPT !.left = IdleTicks] = [who |-> b.who, left |-> IdleTicks]
    BY DEF Binding
  <2>3. bound' = [bound EXCEPT ![s] = [b EXCEPT !.left = IdleTicks]]
    BY <2>1 DEF Renew
  <2> QED BY <1>1, <2>1, <2>2, <2>3
<1>5. [who |-> who, left |-> IdleTicks] # None
  <2>1. [who |-> who, left |-> IdleTicks] \in Binding
    BY McpAccessAssumption DEF Binding
  <2> QED BY <2>1, BindingIsSomething
<1>6. \A z \in Session : UsingOf'[z] = IF z = s THEN [who |-> who, left |-> IdleTicks]
                                       ELSE UsingOf[z]
  BY <1>1, <1>4, <1>5, UsingIsBound, UsingNext, McpAccessAssumption DEF BindingsInv
<1>7. UsingOf' = [UsingOf EXCEPT ![s] = [who |-> who, left |-> IdleTicks]]
  BY <1>1, <1>6, UsingNext DEF UsingOf
<1> QED BY <1>1, <1>3, <1>7 DEF Sessions!Use, Sessions!Next

\* A session that a response names is used, or ends with it.
LEMMA BindUses ==
  ASSUME BindingsInv, NEW s \in Session, NEW who \in Identity, NEW kept \in BOOLEAN,
         Bindable(s, who), Bind(s, who, kept)
  PROVE  Sessions!Next
<1>1. bound' = [z \in Session |-> IF z = s THEN (IF kept THEN Fresh(who) ELSE None)
                                  ELSE IF z \in Purged THEN None ELSE bound[z]]
  BY DEF Bind
<1>2. Fresh(who) = [who |-> who, left |-> IdleTicks] /\ Fresh(who) # None
      /\ Fresh(who).left > 0
  <2>1. Fresh(who) \in Binding /\ Fresh(who).left = IdleTicks
    BY McpAccessAssumption DEF Fresh, Binding
  <2> QED BY <2>1, BindingIsSomething, McpAccessAssumption DEF Fresh
<1>3. \A z \in Session \ {s} : UsingOf'[z] = UsingOf[z]
  <2> SUFFICES ASSUME NEW z \in Session \ {s} PROVE UsingOf'[z] = UsingOf[z]
    OBVIOUS
  <2>1. CASE z \in Purged
    <3>1. bound'[z] = None
      BY <1>1, <2>1
    <3>2. UsingOf[z] = None
      BY <2>1, InUseIsUnpurged
    <3> QED BY <3>1, <3>2, UsingNext
  <2>2. CASE z \notin Purged
    <3>1. bound'[z] = bound[z]
      BY <1>1, <2>2
    <3> QED BY <3>1, UsingIsBound, UsingNext
  <2> QED BY <2>1, <2>2
<1>4. CASE kept
  <2>1. UsingOf'[s] = [who |-> who, left |-> IdleTicks]
    <3>1. bound'[s] = Fresh(who)
      BY <1>1, <1>4
    <3> QED BY <1>2, <3>1, UsingNext
  <2>2. UsingOf' = [UsingOf EXCEPT ![s] = [who |-> who, left |-> IdleTicks]]
    BY <1>3, <2>1, UsingNext DEF UsingOf
  <2> QED BY <2>2, DecisionsAgree DEF Sessions!Use, Sessions!Next
<1>5. CASE ~kept
  <2>1. UsingOf'[s] = None
    BY <1>1, <1>5, UsingNext
  <2>2. \A z \in Session : UsingOf'[z] = IF z \in {s} THEN None ELSE UsingOf[z]
    BY <1>3, <2>1
  <2>3. UsingOf' = [z \in Session |-> IF z \in {s} THEN None ELSE UsingOf[z]]
    BY <2>2, UsingNext
  <2>4. {s} \in SUBSET Session
    OBVIOUS
  <2> QED BY <2>3, <2>4 DEF Sessions!End, Sessions!Next
<1> QED BY <1>4, <1>5

\* A tick is one of the sessions in use.
LEMMA TickMaps ==
  ASSUME BindingsInv, Tick
  PROVE  Sessions!Tick
<1>1. Sessions!InUse = Bound \ Purged
  BY InUseIsUnpurged
<1>2. ASSUME NEW s \in Session
      PROVE  UsingOf'[s] = IF s \in Sessions!InUse /\ UsingOf[s].left > 1
                           THEN [who |-> UsingOf[s].who, left |-> UsingOf[s].left - 1] ELSE None
  <2>1. CASE s \in Bound \ Purged
    <3>1. UsingOf[s] = bound[s] /\ bound[s] \in Binding /\ bound[s].left \in 1..IdleTicks
      BY <2>1, InUseIsUnpurged
    <3>2. PICK b \in Binding : b = bound[s] /\ b.left \in 1..IdleTicks
      BY <3>1
    <3>3. [b EXCEPT !.left = @ - 1] = [who |-> b.who, left |-> b.left - 1]
      BY DEF Binding
    <3>4. bound[s].left > 0
      BY <3>1
    <3>5. bound'[s] = [b EXCEPT !.left = @ - 1]
      BY <2>1, <3>2, <3>4 DEF Tick
    <3>6. bound'[s] = [who |-> b.who, left |-> b.left - 1] /\ bound'[s].left = b.left - 1
      BY <3>3, <3>5
    <3>7. b.left - 1 \in 0..IdleTicks /\ (b.left > 1 <=> b.left - 1 > 0)
      BY <3>2, McpAccessAssumption
    <3>8. [who |-> b.who, left |-> b.left - 1] # None
      <4>1. [who |-> b.who, left |-> b.left - 1] \in Binding
        BY <3>2, <3>7 DEF Binding
      <4> QED BY <4>1, BindingIsSomething
    <3>9. UsingOf'[s] = IF b.left > 1 THEN [who |-> b.who, left |-> b.left - 1] ELSE None
      BY <3>6, <3>7, <3>8, UsingNext
    <3> QED BY <1>1, <2>1, <3>1, <3>2, <3>9
  <2>2. CASE s \in Bound /\ s \in Purged
    <3>1. bound[s].left = 0
      BY <2>2 DEF Purged
    <3>2. bound'[s] = bound[s]
      BY <3>1 DEF Tick
    <3> QED BY <1>1, <2>2, <3>1, <3>2, UsingNext
  <2>3. CASE s \notin Bound
    <3>1. bound'[s] = bound[s] /\ bound[s] = None
      BY <2>3 DEF Tick, Bound
    <3> QED BY <1>1, <2>3, <3>1, UsingNext
  <2> QED BY <2>1, <2>2, <2>3
<1>3. UsingOf' = [s \in Session |-> IF s \in Sessions!InUse /\ UsingOf[s].left > 1
                                    THEN [who |-> UsingOf[s].who, left |-> UsingOf[s].left - 1]
                                    ELSE None]
  BY <1>2, UsingNext
<1> QED BY <1>3 DEF Sessions!Tick

\* A step of a request is one of the sessions in use, or changes nothing of them.
LEMMA RequestStepMaps ==
  ASSUME AccessInv, BindingsInv, NEW r \in Request, RequestStep(r)
  PROVE  Sessions!Next \/ UsingOf' = UsingOf
<1>1. CASE UNCHANGED store
  BY <1>1 DEF store, UsingOf, Bound
<1>2. ASSUME NEW purged, Denied(r, purged) PROVE Sessions!Next
  <2>1. PICK gone : Unbound(gone)
    BY <1>2 DEF Denied
  <2> QED BY <2>1, UnboundEnds
<1>3. PICK who : who = Who(r)
  OBVIOUS
<1>4. req[r].at # "idle" => who \in Identity
  BY <1>3 DEF Who, Identity, AccessInv, RequestOK
<1>5. CASE Enter(r)
  <2>1. PICK s : s = req[r].session
    OBVIOUS
  <2>2. CASE s # None /\ Acceptable(s, who) /\ Renew(s)
    BY <1>4, <1>5, <2>2, RenewUses DEF Enter
  <2> QED BY <1>1, <1>2, <1>3, <1>5, <2>1, <2>2 DEF Enter
<1>6. ASSUME NEW s \in Session, NEW kept \in BOOLEAN, EmitStart(r, s, kept)
      PROVE  Sessions!Next
  <2>1. CASE Bindable(s, who) /\ Bind(s, who, kept)
    BY <1>4, <1>6, <2>1, BindUses DEF EmitStart
  <2> QED BY <1>2, <1>3, <1>6, <2>1 DEF EmitStart
<1>7. CASE Authorize(r)
  BY <1>1, <1>2, <1>7 DEF Authorize
<1>8. CASE EmitBody(r) \/ Ends(r)
  BY <1>1, <1>8 DEF EmitBody, Ends
<1>9. CASE EmitRefused(r)
  BY <1>2, <1>9 DEF EmitRefused
<1>10. ASSUME NEW p \in Principal, NEW addressed \in Id \union {None},
              NEW s \in Session \union {None}, NEW i \in Id, Arrive(r, p, addressed, s, i)
       PROVE  UsingOf' = UsingOf
  BY <1>1, <1>10 DEF Arrive, store, UsingOf, Bound
<1>11. CASE EmitDeleted(r)
  <2>1. PICK gone : Unbound(gone)
    BY <1>11 DEF EmitDeleted
  <2> QED BY <2>1, UnboundEnds
<1> QED BY <1>5, <1>6, <1>7, <1>8, <1>9, <1>10, <1>11 DEF RequestStep

\* Every step is one of the sessions in use, or changes nothing of them.
LEMMA SessionStepMaps ==
  ASSUME AccessInv, BindingsInv, [Next]_vars
  PROVE  [Sessions!Next]_UsingOf
<1>1. CASE UNCHANGED store
  BY <1>1 DEF store, UsingOf, Bound
<1>2. CASE \E r \in Request : RequestStep(r)
  BY <1>2, RequestStepMaps
<1>3. CASE \E i \in Id : Create(i) \/ Remove(i)
  BY <1>1, <1>3 DEF Create, Remove
<1>4. ASSUME NEW m \in removing, RemovalUnbinds(m) PROVE Sessions!Next
  <2>1. PICK gone : Unbound(gone)
    BY <1>4 DEF RemovalUnbinds
  <2> QED BY <2>1, UnboundEnds
<1>5. ASSUME NEW m \in removing, RemovalRevokes(m) PROVE UNCHANGED store
  BY <1>5 DEF RemovalRevokes
<1>6. CASE \E p \in Principal, i \in Id : Grant(p, i)
  BY <1>1, <1>6 DEF Grant
<1>7. CASE \E g \in grants : Revoke(g)
  BY <1>1, <1>7 DEF Revoke
<1>8. CASE Tick
  BY <1>8, TickMaps DEF Sessions!Next
<1>9. CASE Restart
  <2>1. \A s \in Session : bound'[s] = None
    BY <1>9 DEF Restart
  <2>2. \A s \in Session : UsingOf'[s] = IF s \in Session THEN None ELSE UsingOf[s]
    BY <2>1, UsingNext
  <2>3. UsingOf' = [s \in Session |-> IF s \in Session THEN None ELSE UsingOf[s]]
    BY <2>2, UsingNext
  <2>4. Session \in SUBSET Session
    OBVIOUS
  <2> QED BY <2>3, <2>4 DEF Sessions!End, Sessions!Next
<1>10. CASE UNCHANGED vars
  BY <1>1, <1>10 DEF vars
<1> QED BY <1>1, <1>2, <1>3, <1>4, <1>5, <1>6, <1>7, <1>8, <1>9, <1>10 DEF Next

\* The dict of bindings in the order of their last use, with its purge when a session is
\* bound, implements a table of the sessions in use: idle bindings that are still in the
\* dict are not to be seen (session_binding.py:42-89).
THEOREM SessionsImplementTable == Spec => ImplementsSessions
<1>1. Init => Sessions!Init
  BY DEF Init, Sessions!Init, UsingOf, Bound
<1>2. AccessInv /\ TablesInv /\ [Next]_vars => [Sessions!Next]_UsingOf
  BY SessionStepMaps DEF TablesInv
<1> QED BY <1>1, <1>2, AccessInvHolds, TablesInvHolds, PTL DEF Spec, ImplementsSessions, Sessions!Spec

\* A session is refused because another identity uses it or as many as MaxSessions are in
\* use, and never because of bindings that are idle (session_binding.py:42-56).
THEOREM BindingDecisions == Spec => []BindingDecisionsAgree
<1>1. TablesInv => BindingDecisionsAgree
  BY DecisionsAgree DEF TablesInv, BindingDecisionsAgree
<1> QED BY <1>1, TablesInvHolds, PTL
===============================================================================
