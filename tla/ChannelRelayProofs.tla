-------------------------- MODULE ChannelRelayProofs --------------------------
(***************************************************************************)
(* Proofs about ChannelRelay for any number of providers and requests and  *)
(* any limit.                                                              *)
(***************************************************************************)
EXTENDS ChannelRelay, FiniteSetTheorems, TLAPS

-----------------------------------------------------------------------------
(* The queue of the send lock *)

\* Leaving the queue keeps it a queue, and its holder if that is not who leaves.
LEMMA WithoutKeepsHolder ==
  ASSUME NEW S, NEW q \in Seq(S), NEW p
  PROVE  /\ Without(q, p) \in Seq(S)
         /\ q # <<>> /\ Head(q) # p => Without(q, p) # <<>> /\ Head(Without(q, p)) = Head(q)
<1>1. CASE ~ \E i \in DOMAIN q : q[i] = p
  BY <1>1 DEF Without
<1>2. CASE \E i \in DOMAIN q : q[i] = p
  <2> DEFINE k == CHOOSE i \in DOMAIN q : q[i] = p
  <2>1. k \in 1..Len(q) /\ q[k] = p
    BY <1>2
  <2>2. Without(q, p) = SubSeq(q, 1, k - 1) \o SubSeq(q, k + 1, Len(q))
    BY <1>2 DEF Without, RemoveAt
  <2> HIDE DEF k
  <2>3. /\ SubSeq(q, 1, k - 1) \in Seq(S) /\ Len(SubSeq(q, 1, k - 1)) = k - 1
        /\ SubSeq(q, k + 1, Len(q)) \in Seq(S)
        /\ \A i \in 1..(k - 1) : SubSeq(q, 1, k - 1)[i] = q[i]
    BY <2>1
  <2>4. Without(q, p) \in Seq(S)
    BY <2>2, <2>3
  <2>5. ASSUME q # <<>>, Head(q) # p
        PROVE  Without(q, p) # <<>> /\ Head(Without(q, p)) = Head(q)
    <3>1. k - 1 \in Nat \ {0}
      BY <2>1, <2>5
    <3> DEFINE a == SubSeq(q, 1, k - 1)
               b == SubSeq(q, k + 1, Len(q))
    <3>2. a \in Seq(S) /\ b \in Seq(S) /\ Len(a) \in Nat \ {0} /\ a[1] = q[1]
      <4>1. 1 \in 1..(k - 1)
        BY <2>1, <3>1
      <4> QED BY <2>3, <3>1, <4>1
    <3> HIDE DEF a, b
    <3>3. Len(a \o b) = Len(a) + Len(b) /\ (a \o b)[1] = a[1] /\ a \o b \in Seq(S)
      BY <3>2
    <3>4. a \o b # <<>> /\ Head(a \o b) = a[1]
      BY <3>2, <3>3
    <3> QED BY <2>2, <2>5, <3>2, <3>4 DEF a, b
  <2> QED BY <2>4, <2>5
<1> QED BY <1>1, <1>2

-----------------------------------------------------------------------------
(* Types *)

EndpointState == {"new", "attaching", "attached", "greeting", "pumping", "gone"}
FutureState   == {"unset", "result", "cancelled"} \union Failures
CallState     == {"idle"} \union Suspended \union Finished

\* A task only leaves by a cancellation it was thrown: what it reports is a reason.
InterruptKnown ==
  \A c \in Call :
    /\ call[c] = "cancelling" => interrupt[c] # "none"
    /\ future[c] = "cancelled" => interrupt[c] # "none"

TypeInv == TypeOK /\ InterruptKnown

\* A frame reaches the transport of the socket it is written to, if that is open.
LEMMA TransmitEffect ==
  ASSUME TypeInv, NEW s \in Sock \union {NoSock}, NEW frame \in Frame, Transmit(s, frame)
  PROVE  /\ delivered' \in [Sock -> SUBSET Frame]
         /\ \A r \in Sock : delivered'[r] = IF r = s /\ s \in open
                                           THEN delivered[r] \union {frame} ELSE delivered[r]
<1> DEFINE new == IF s \in open THEN delivered[s] \union {frame} ELSE delivered[s]
<1>1. delivered \in [Sock -> SUBSET Frame] /\ delivered' = [delivered EXCEPT ![s] = new]
  BY DEF Transmit, TypeInv, TypeOK
<1>2. s \in Sock => new \in SUBSET Frame
  BY <1>1
<1> HIDE DEF new
<1>3. \A r \in Sock : delivered'[r] = IF r = s THEN new ELSE delivered[r]
  BY <1>1
<1> QED BY <1>1, <1>2, <1>3 DEF new

\* It is the only frame that is new.
LEMMA TransmitAdds ==
  ASSUME TypeInv, NEW s \in Sock \union {NoSock}, NEW frame \in Frame, Transmit(s, frame),
         NEW r \in Sock, NEW f, f \in delivered'[r] \ delivered[r]
  PROVE  r = s /\ f = frame
<1>1. delivered'[r] = IF r = s /\ s \in open THEN delivered[r] \union {frame} ELSE delivered[r]
  BY TransmitEffect
<1> QED BY <1>1

\* Taking a snapshot and asking for the lock.
LEMMA BeginSendType ==
  ASSUME TypeInv, NEW p \in Sender, NEW frame \in Frame, BeginSend(p, frame)
  PROVE  /\ target' = [target EXCEPT ![p] = websocket]
         /\ target' \in [Sender -> Sock \union {NoSock}]
         /\ delivered' \in [Sock -> SUBSET Frame]
         /\ sendQueue' \in Seq(Sender)
         /\ writing' \in BOOLEAN
<1> DEFINE ahead == Without(sendQueue, p)
<1>1. ahead \in Seq(Sender)
  BY WithoutKeepsHolder DEF TypeInv, TypeOK
<1>2. /\ target' = [target EXCEPT ![p] = websocket]
      /\ sendQueue' = Append(ahead, p)
      /\ delivered' = delivered \/ Transmit(websocket, frame)
      /\ writing' \in BOOLEAN
  BY DEF BeginSend
<1> HIDE DEF ahead
<1>3. delivered' \in [Sock -> SUBSET Frame]
  BY <1>2, TransmitEffect DEF TypeInv, TypeOK
<1>4. sendQueue' \in Seq(Sender)
  BY <1>1, <1>2
<1> QED BY <1>2, <1>3, <1>4 DEF TypeInv, TypeOK

\* Leaving the send lock passes it on: the queue stays a sequence of senders.
LEMMA LeaveLockType ==
  ASSUME TypeInv, NEW p \in Sender, LeaveLock(p)
  PROVE  sendQueue' \in Seq(Sender) /\ writing' \in BOOLEAN
BY WithoutKeepsHolder DEF TypeInv, TypeOK, LeaveLock

\* Only futures that are not done are failed, and only with a failure.
LEMMA FailPendingType ==
  ASSUME TypeInv, NEW error \in Failures, FailPending(error)
  PROVE  /\ future' \in [Call -> FutureState]
         /\ pending' = {}
         /\ \A c \in Call : future'[c] = IF c \in pending /\ future[c] = "unset" THEN error
                                         ELSE future[c]
BY DEF TypeInv, TypeOK, FailPending, FutureState, Failures

\* The end of a provider's endpoint, with the detach it may cause, keeps the types.
LEMMA EndpointOverType ==
  ASSUME TypeInv, NEW s \in Sock, EndpointOver(s)
  PROVE  /\ endpoint' \in [Sock -> EndpointState]
         /\ websocket' \in Sock \union {NoSock}
         /\ future' \in [Call -> FutureState]
         /\ pending' \in SUBSET Call
         /\ \A c \in Call : future'[c] = "cancelled" <=> future[c] = "cancelled"
<1>1. endpoint' \in [Sock -> EndpointState]
  BY DEF EndpointOver, TypeInv, TypeOK, EndpointState
<1>2. CASE websocket = s
  BY <1>1, <1>2, FailPendingType DEF EndpointOver, Failures
<1>3. CASE websocket # s
  BY <1>1, <1>3 DEF EndpointOver, TypeInv, TypeOK, FutureState
<1> QED BY <1>2, <1>3

\* What a task that finishes reports.
LEMMA FinishType ==
  ASSUME TypeInv, NEW c \in Call, NEW how \in Finished, Finish(c, how)
  PROVE  /\ call' \in [Call -> CallState]
         /\ pending' \in SUBSET Call
         /\ \A d \in Call : call'[d] = "cancelling" => call[d] = "cancelling"
BY DEF Finish, TypeInv, TypeOK, CallState, Suspended, Finished, Reasons

\* An uninterrupted task with a done future ends with a result or a failure.
LEMMA VerdictType ==
  ASSUME TypeInv, NEW c \in Call, interrupt[c] = "none", future[c] # "unset"
  PROVE  Verdict(c) \in Finished
BY DEF Verdict, TypeInv, TypeOK, InterruptKnown, Finished, Failures

\* What is thrown into a request is one of the ways a request can end.
LEMMA ReasonType ==
  ASSUME TypeInv, NEW c \in Call, interrupt[c] # "none"
  PROVE  interrupt[c] \in Finished
BY DEF TypeInv, TypeOK, Finished

\* A channel nobody has used yet is well typed.
THEOREM TypeInvInitially == Init => TypeInv
<1> SUFFICES ASSUME Init PROVE TypeInv
  OBVIOUS
<1>1. sendQueue \in Seq(Sender)
  BY DEF Init
<1>2. delivered \in [Sock -> SUBSET Frame]
  BY DEF Init
<1>3. /\ target \in [Sender -> Sock \union {NoSock}] /\ websocket \in Sock \union {NoSock}
      /\ future \in [Call -> {"unset", "result", "cancelled"} \union Failures]
      /\ call \in [Call -> {"idle"} \union Suspended \union Finished]
      /\ interrupt \in [Call -> {"none"} \union Reasons]
  BY DEF Init
<1> QED BY <1>1, <1>2, <1>3 DEF Init, TypeInv, TypeOK, InterruptKnown

\* The steps of send_to_provider (woken, returning, failing) keep the types.
LEMMA SenderKeepsType ==
  ASSUME TypeInv, NEW p \in Sender, SenderStep(p) PROVE TypeInv'
<1> USE DEF CallState, FutureState, EndpointState
<1>1. CASE SendWake(p)
  <2>1. FrameOf(p) \in Frame
    BY DEF FrameOf, Frame, Sender
  <2>2. delivered' \in [Sock -> SUBSET Frame] /\ writing' \in BOOLEAN
    BY <1>1, <2>1, TransmitEffect DEF SendWake, TypeInv, TypeOK
  <2> QED BY <1>1, <2>2 DEF SendWake, TypeInv, TypeOK, InterruptKnown
<1>2. CASE SendReturns(p)
  <2>1. /\ LeaveLock(p)
        /\ Uninterrupted(p)
        /\ UNCHANGED <<websocket, removed, open, delivered, future, interrupt, target>>
    BY <1>2 DEF SendReturns
  <2>2. CASE /\ p \in Call /\ call[p] = "sending"
             /\ call' = [call EXCEPT ![p] = "waiting"]
             /\ UNCHANGED <<endpoint, pending>>
    BY <2>1, <2>2, LeaveLockType DEF TypeInv, TypeOK, InterruptKnown, Suspended
  <2>3. CASE /\ p \in Call /\ call[p] = "sending" /\ future[p] # "unset"
             /\ Finish(p, Verdict(p)) /\ UNCHANGED endpoint
    <3>1. Verdict(p) \in Finished
      BY <2>1, <2>3, VerdictType DEF Uninterrupted
    <3> QED BY <2>1, <2>3, <3>1, FinishType, LeaveLockType DEF TypeInv, TypeOK, InterruptKnown
  <2>4. CASE /\ p \in Call /\ call[p] = "cancelling"
             /\ Finish(p, interrupt[p]) /\ UNCHANGED endpoint
    <3>1. interrupt[p] \in Finished
      BY <2>4, ReasonType DEF TypeInv, InterruptKnown
    <3> QED BY <2>1, <2>4, <3>1, FinishType, LeaveLockType DEF TypeInv, TypeOK, InterruptKnown
  <2>5. CASE /\ p \in Sock /\ endpoint' = [endpoint EXCEPT ![p] = "pumping"]
             /\ UNCHANGED <<pending, call>>
    BY <2>1, <2>5, LeaveLockType DEF TypeInv, TypeOK, InterruptKnown
  <2> QED BY <1>2, <2>2, <2>3, <2>4, <2>5 DEF SendReturns
<1>3. CASE SendFails(p)
  <2>1. /\ LeaveLock(p)
        /\ UNCHANGED <<removed, open, delivered, interrupt, target>>
    BY <1>3 DEF SendFails
  <2>2. CASE /\ p \in Call /\ Finish(p, "offline")
             /\ UNCHANGED <<websocket, endpoint, future>>
    <3>1. "offline" \in Finished
      BY DEF Finished
    <3> QED BY <2>1, <2>2, <3>1, FinishType, LeaveLockType DEF TypeInv, TypeOK, InterruptKnown
  <2>3. CASE /\ p \in Call /\ call[p] = "cancelling" /\ Finish(p, interrupt[p])
             /\ UNCHANGED <<websocket, endpoint, future>>
    <3>1. interrupt[p] \in Finished
      BY <2>3, ReasonType DEF TypeInv, InterruptKnown
    <3> QED BY <2>1, <2>3, <3>1, FinishType, LeaveLockType DEF TypeInv, TypeOK, InterruptKnown
  <2>4. CASE p \in Sock /\ EndpointOver(p) /\ UNCHANGED call
    BY <2>1, <2>4, EndpointOverType, LeaveLockType DEF TypeInv, TypeOK, InterruptKnown
  <2> QED BY <1>3, <2>2, <2>3, <2>4 DEF SendFails
<1> QED BY <1>1, <1>2, <1>3 DEF SenderStep

\* The steps of one _call_provider, its timer and its client keep the types.
LEMMA RequestKeepsType ==
  ASSUME TypeInv, NEW c \in Call, CallStep(c) \/ CallEvent(c) \/ TimerFires(c)
  PROVE  TypeInv'
<1> USE DEF CallState, FutureState, EndpointState
<1> c \in Sender /\ <<"request", c>> \in Frame /\ <<"cancel", c>> \in Frame
  BY DEF Sender, Frame
<1>1. CASE CallProvider(c)
  BY <1>1, BeginSendType DEF CallProvider, TypeInv, TypeOK, InterruptKnown, Suspended
<1>2. CASE CallRefused(c)
  BY <1>2 DEF CallRefused, TypeInv, TypeOK, InterruptKnown, Finished
<1>3. ASSUME NEW reason \in Reasons, ThrowInto(c, reason) PROVE TypeInv'
  BY <1>3 DEF ThrowInto, TypeInv, TypeOK, InterruptKnown, Reasons
<1>4. CASE Interrupted(c)
  <2>1. interrupt[c] \in Finished
    BY <1>4, ReasonType DEF Interrupted
  <2>2. CASE websocket = NoSock
    BY <1>4, <2>1, <2>2, FinishType, LeaveLockType
    DEF Interrupted, TypeInv, TypeOK, InterruptKnown
  <2>3. CASE websocket # NoSock
    BY <1>4, <2>3, BeginSendType DEF Interrupted, TypeInv, TypeOK, InterruptKnown, Suspended
  <2> QED BY <2>2, <2>3
<1>5. CASE CancelAbandoned(c)
  <2>1. "mcp_client_cancelled" \in Finished
    BY DEF Finished, Reasons
  <2> QED BY <1>5, <2>1, FinishType, LeaveLockType
          DEF CancelAbandoned, TypeInv, TypeOK, InterruptKnown
<1>6. CASE Wake(c)
  <2>1. Verdict(c) \in Finished
    BY <1>6, VerdictType DEF Wake
  <2> QED BY <1>6, <2>1, FinishType DEF Wake, TypeInv, TypeOK, InterruptKnown
<1>7. CASE ClientCancels(c) \/ TimerFires(c)
  BY <1>3, <1>7 DEF ClientCancels, TimerFires, Reasons
<1> QED BY <1>1, <1>2, <1>4, <1>5, <1>6, <1>7 DEF CallStep, CallEvent

\* The steps of one provider's endpoint and of its socket keep the types.
LEMMA EndpointKeepsType ==
  ASSUME TypeInv, NEW s \in Sock, EndpointStep(s) \/ EndpointEvent(s)
  PROVE  TypeInv'
<1> USE DEF CallState, FutureState, EndpointState
<1>1. CASE Attach(s)
  <2>1. CASE websocket # NoSock
    BY <1>1, <2>1, FailPendingType
    DEF Attach, TypeInv, TypeOK, InterruptKnown, Failures
  <2>2. CASE websocket = NoSock
    BY <1>1, <2>2 DEF Attach, TypeInv, TypeOK, InterruptKnown
  <2> QED BY <2>1, <2>2
<1>2. CASE AttachSettles(s)
  BY <1>2 DEF AttachSettles, TypeInv, TypeOK, InterruptKnown
<1>3. CASE Greet(s)
  <2>1. CASE removed \/ websocket = NoSock
    BY <1>3, <2>1, EndpointOverType DEF Greet, TypeInv, TypeOK, InterruptKnown
  <2>2. CASE ~(removed \/ websocket = NoSock)
    <3>1. s \in Sender /\ <<"hello.ack", s>> \in Frame
      BY DEF Sender, Frame
    <3> QED BY <1>3, <2>2, <3>1, BeginSendType DEF Greet, TypeInv, TypeOK, InterruptKnown
  <2> QED BY <2>1, <2>2
<1>4. CASE PumpEnds(s)
  BY <1>4, EndpointOverType DEF PumpEnds, TypeInv, TypeOK, InterruptKnown
<1>5. CASE PeerLeaves(s)
  BY <1>5 DEF PeerLeaves, TypeInv, TypeOK, InterruptKnown
<1> QED BY <1>1, <1>2, <1>3, <1>4, <1>5 DEF EndpointStep, EndpointEvent

\* Every step keeps the types: the requests, the endpoints, results and close.
THEOREM TypeInvStep == TypeInv /\ [Next]_vars => TypeInv'
<1> SUFFICES ASSUME TypeInv, [Next]_vars PROVE TypeInv'
  OBVIOUS
<1>1. ASSUME NEW s \in Sock, NEW c \in Call, HandleResult(s, c) PROVE TypeInv'
  BY <1>1 DEF HandleResult, TypeInv, TypeOK, InterruptKnown
<1>2. CASE Close
  BY <1>2, FailPendingType DEF Close, TypeInv, TypeOK, InterruptKnown, Failures, FutureState
<1>3. CASE UNCHANGED vars
  BY <1>3 DEF vars, TypeInv, TypeOK, InterruptKnown
<1> QED BY <1>1, <1>2, <1>3, SenderKeepsType, RequestKeepsType, EndpointKeepsType DEF Next

\* Every variable keeps its type; in particular no task ever ends as anything but a
\* result or one of the errors the gateway maps.
THEOREM TypeCorrect == Spec => []TypeOK
<1>1. TypeInv => TypeOK
  BY DEF TypeInv
<1> QED BY <1>1, TypeInvInitially, TypeInvStep, PTL DEF Spec

-----------------------------------------------------------------------------
(* Pending requests *)

\* A request that no one decided yet is pending, from before its frame is written.
Tracked ==
  \A c \in Call : call[c] \in {"sending", "waiting"} /\ future[c] = "unset" => c \in pending

\* A sender whose request was failed meanwhile holds the snapshot of a socket that is
\* no longer current, and that cannot become current again.
StaleSnapshot ==
  /\ websocket # NoSock => endpoint[websocket] # "new"
  /\ \A c \in Call : call[c] = "sending" /\ c \notin pending =>
       target[c] \in Sock /\ target[c] # websocket /\ endpoint[target[c]] # "new"

PendingInv == PendingIsWithCurrent /\ SlotsBounded /\ Tracked /\ StaleSnapshot

RelayInv == TypeInv /\ PendingInv

\* No endpoint goes back to being new.
Aged == \A s \in Sock : endpoint[s] # "new" => endpoint'[s] # "new"

\* Fewer slots are in use.
LEMMA FewerSlots ==
  ASSUME RelayInv, pending' \subseteq pending
  PROVE  Cardinality(pending') <= MaxPending
<1>1. IsFiniteSet(pending) /\ Cardinality(pending) \in Nat /\ Cardinality(pending) <= MaxPending
  <2>1. IsFiniteSet(pending)
    BY FS_Subset, RelayAssumption DEF RelayInv, TypeInv, TypeOK
  <2> QED BY <2>1, FS_CardinalityType DEF RelayInv, PendingInv, SlotsBounded
<1>2. Cardinality(pending') \in Nat /\ Cardinality(pending') <= Cardinality(pending)
  <2>1. IsFiniteSet(pending') /\ Cardinality(pending') <= Cardinality(pending)
    BY <1>1, FS_Subset
  <2> QED BY <2>1, FS_CardinalityType
<1> QED BY <1>1, <1>2, RelayAssumption

\* The channel changes provider: every request is failed, and those still being
\* sent hold the snapshot of the old one.
LEMMA SwitchKeepsPending ==
  ASSUME RelayInv, NEW error \in Failures, FailPending(error),
         UNCHANGED <<call, target>>, Aged,
         websocket' \in Sock \union {NoSock}, websocket' # websocket,
         websocket' # NoSock => endpoint[websocket'] = "new" /\ endpoint'[websocket'] # "new"
  PROVE  PendingInv'
<1>1. /\ pending' = {}
      /\ \A c \in Call : future'[c] = IF c \in pending /\ future[c] = "unset" THEN error
                                       ELSE future[c]
      /\ error # "unset"
  BY FailPendingType DEF RelayInv, Failures
<1>2. PendingIsWithCurrent'
  BY <1>1 DEF PendingIsWithCurrent
<1>3. SlotsBounded'
  BY <1>1, FewerSlots DEF SlotsBounded
<1>4. Tracked'
  BY <1>1 DEF Tracked, RelayInv, PendingInv
<1>5. ASSUME NEW c \in Call, call'[c] = "sending"
      PROVE  target'[c] \in Sock /\ target'[c] # websocket' /\ endpoint'[target'[c]] # "new"
  <2>1. CASE c \in pending
    BY <1>5, <2>1 DEF RelayInv, PendingInv, PendingIsWithCurrent, StaleSnapshot, TypeInv,
                      TypeOK, Aged
  <2>2. CASE c \notin pending
    BY <1>5, <2>2, RelayAssumption DEF RelayInv, PendingInv, StaleSnapshot, Aged
  <2> QED BY <2>1, <2>2
<1>6. StaleSnapshot'
  BY <1>5 DEF StaleSnapshot
<1> QED BY <1>2, <1>3, <1>4, <1>6 DEF PendingInv

\* An endpoint that ends empties the pending set if it was the current one's, and
\* leaves it alone otherwise.
LEMMA EndpointOverKeepsPending ==
  ASSUME RelayInv, NEW s \in Sock, EndpointOver(s), UNCHANGED <<call, target>>
  PROVE  PendingInv'
<1>1. Aged
  BY DEF Aged, EndpointOver, RelayInv, TypeInv, TypeOK
<1>2. CASE websocket = s
  <2>1. websocket' = NoSock /\ FailPending("offline") /\ "offline" \in Failures
    BY <1>2 DEF EndpointOver, Failures
  <2>2. NoSock # s
    BY RelayAssumption
  <2> QED BY <1>1, <1>2, <2>1, <2>2, SwitchKeepsPending
<1>3. CASE websocket # s
  <2>1. UNCHANGED <<websocket, future, pending>>
    BY <1>3 DEF EndpointOver
  <2> QED BY <1>1, <2>1 DEF Aged, RelayInv, PendingInv, PendingIsWithCurrent, SlotsBounded,
                            Tracked, StaleSnapshot, TypeInv, TypeOK
<1> QED BY <1>2, <1>3

\* A request that ends gives its slot back and nobody else's.
LEMMA FinishKeepsPending ==
  ASSUME RelayInv, NEW c \in Call, NEW how \in Finished, Finish(c, how),
         UNCHANGED <<websocket, future, target, endpoint>>
  PROVE  PendingInv'
<1>1. /\ pending' = pending \ {c}
      /\ \A d \in Call : call'[d] = IF d = c THEN how ELSE call[d]
      /\ how \notin {"sending", "waiting"}
  BY DEF Finish, RelayInv, TypeInv, TypeOK, Finished, Reasons
<1>2. SlotsBounded'
  BY <1>1, FewerSlots DEF SlotsBounded, RelayInv, PendingInv, TypeInv, TypeOK
<1> QED BY <1>1, <1>2 DEF RelayInv, PendingInv, PendingIsWithCurrent, Tracked, StaleSnapshot,
                          TypeInv, TypeOK

\* A step that leaves requests and providers where they are.
LEMMA QuietKeepsPending ==
  ASSUME RelayInv, UNCHANGED <<websocket, pending, call>>, Aged,
         \A c \in Call : target'[c] = target[c],
         \A c \in Call : future'[c] = "unset" => future[c] = "unset"
  PROVE  PendingInv'
BY DEF RelayInv, PendingInv, PendingIsWithCurrent, SlotsBounded, Tracked, StaleSnapshot,
       TypeInv, TypeOK, Aged

\* A fresh channel has nothing pending, so RelayInv holds.
THEOREM RelayInvInitially == Init => RelayInv
<1> SUFFICES ASSUME Init PROVE PendingInv
  BY TypeInvInitially DEF RelayInv
<1>1. Cardinality(pending) <= MaxPending
  BY FS_EmptySet, RelayAssumption DEF Init
<1> QED BY <1>1 DEF Init, PendingInv, PendingIsWithCurrent, SlotsBounded, Tracked, StaleSnapshot

\* The steps of send_to_provider keep the pending set in step with the provider.
LEMMA SenderKeepsPending ==
  ASSUME RelayInv, NEW p \in Sender, SenderStep(p) PROVE PendingInv'
<1>1. CASE SendWake(p)
  BY <1>1, QuietKeepsPending DEF SendWake, Aged
<1>2. CASE SendReturns(p)
  <2>1. Uninterrupted(p) /\ UNCHANGED <<websocket, future, interrupt, target>>
    BY <1>2 DEF SendReturns
  <2>2. CASE /\ p \in Call /\ call[p] = "sending" /\ future[p] = "unset"
             /\ call' = [call EXCEPT ![p] = "waiting"]
             /\ UNCHANGED <<endpoint, pending>>
    BY <2>1, <2>2 DEF RelayInv, PendingInv, PendingIsWithCurrent, SlotsBounded, Tracked,
                      StaleSnapshot, TypeInv, TypeOK, Suspended
  <2>3. CASE /\ p \in Call /\ call[p] = "sending" /\ future[p] # "unset"
             /\ Finish(p, Verdict(p)) /\ UNCHANGED endpoint
    <3>1. Verdict(p) \in Finished
      BY <2>1, <2>3, VerdictType DEF Uninterrupted, RelayInv
    <3> QED BY <2>1, <2>3, <3>1, FinishKeepsPending
  <2>4. CASE /\ p \in Call /\ call[p] = "cancelling"
             /\ Finish(p, interrupt[p]) /\ UNCHANGED endpoint
    <3>1. interrupt[p] \in Finished
      BY <2>4, ReasonType DEF RelayInv, TypeInv, InterruptKnown
    <3> QED BY <2>1, <2>4, <3>1, FinishKeepsPending
  <2>5. CASE /\ p \in Sock /\ endpoint' = [endpoint EXCEPT ![p] = "pumping"]
             /\ UNCHANGED <<pending, call>>
    <3>1. Aged
      BY <2>5 DEF Aged, RelayInv, TypeInv, TypeOK
    <3> QED BY <2>1, <2>5, <3>1, QuietKeepsPending
  <2> QED BY <1>2, <2>2, <2>3, <2>4, <2>5 DEF SendReturns
<1>3. CASE SendFails(p)
  <2>1. UNCHANGED <<interrupt, target>>
    BY <1>3 DEF SendFails
  <2>2. CASE /\ p \in Call /\ Finish(p, "offline")
             /\ UNCHANGED <<websocket, endpoint, future>>
    <3>1. "offline" \in Finished
      BY DEF Finished
    <3> QED BY <2>1, <2>2, <3>1, FinishKeepsPending
  <2>3. CASE /\ p \in Call /\ call[p] = "cancelling" /\ Finish(p, interrupt[p])
             /\ UNCHANGED <<websocket, endpoint, future>>
    <3>1. interrupt[p] \in Finished
      BY <2>3, ReasonType DEF RelayInv, TypeInv, InterruptKnown
    <3> QED BY <2>1, <2>3, <3>1, FinishKeepsPending
  <2>4. CASE p \in Sock /\ EndpointOver(p) /\ UNCHANGED call
    BY <2>1, <2>4, EndpointOverKeepsPending
  <2> QED BY <1>3, <2>2, <2>3, <2>4 DEF SendFails
<1> QED BY <1>1, <1>2, <1>3 DEF SenderStep

\* A new request takes a slot with the provider of this moment.
LEMMA CallProviderKeepsPending ==
  ASSUME RelayInv, NEW c \in Call, CallProvider(c) PROVE PendingInv'
<1>1. /\ websocket # NoSock /\ Cardinality(pending) < MaxPending
      /\ pending' = pending \union {c}
      /\ call' = [call EXCEPT ![c] = "sending"]
      /\ target' = [target EXCEPT ![c] = websocket]
      /\ UNCHANGED <<websocket, endpoint, future>>
  BY DEF CallProvider, BeginSend
<1>2. SlotsBounded'
  <2>1. IsFiniteSet(pending)
    BY FS_Subset, RelayAssumption DEF RelayInv, TypeInv, TypeOK
  <2>2. Cardinality(pending) \in Nat
    BY <2>1, FS_CardinalityType
  <2>3. Cardinality(pending \union {c}) \in {Cardinality(pending), Cardinality(pending) + 1}
    BY <2>1, FS_AddElement
  <2>4. Cardinality(pending') <= MaxPending
    BY <1>1, <2>2, <2>3, RelayAssumption
  <2> QED BY <1>1, <2>4 DEF SlotsBounded, RelayInv, PendingInv, TypeInv, TypeOK, Suspended
<1> QED BY <1>1, <1>2 DEF RelayInv, PendingInv, PendingIsWithCurrent, Tracked, StaleSnapshot,
                          TypeInv, TypeOK, Sender

\* The steps of one _call_provider keep the pending set in step with the provider.
LEMMA RequestKeepsPending ==
  ASSUME RelayInv, NEW c \in Call, CallStep(c) \/ CallEvent(c) \/ TimerFires(c)
  PROVE  PendingInv'
<1>1. CASE CallProvider(c)
  BY <1>1, CallProviderKeepsPending
<1>2. CASE CallRefused(c)
  BY <1>2 DEF CallRefused, RelayInv, PendingInv, PendingIsWithCurrent, SlotsBounded, Tracked,
              StaleSnapshot, TypeInv, TypeOK, Suspended
<1>3. ASSUME NEW reason \in Reasons, ThrowInto(c, reason) PROVE PendingInv'
  BY <1>3, QuietKeepsPending DEF ThrowInto, Aged, RelayInv, TypeInv, TypeOK
<1>4. CASE Interrupted(c)
  <2>1. interrupt[c] \in Finished /\ UNCHANGED <<websocket, endpoint, future>>
    BY <1>4, ReasonType DEF Interrupted, RelayInv
  <2>2. CASE websocket = NoSock
    BY <1>4, <2>1, <2>2, FinishKeepsPending DEF Interrupted
  <2>3. CASE websocket # NoSock
    <3>1. /\ call' = [call EXCEPT ![c] = "cancelling"]
          /\ target' = [target EXCEPT ![c] = websocket]
          /\ UNCHANGED pending
      BY <1>4, <2>3 DEF Interrupted, BeginSend
    <3> QED BY <2>1, <2>3, <3>1
            DEF RelayInv, PendingInv, PendingIsWithCurrent, SlotsBounded, Tracked,
                StaleSnapshot, TypeInv, TypeOK, Suspended, Sender
  <2> QED BY <2>2, <2>3
<1>5. CASE CancelAbandoned(c)
  <2>1. "mcp_client_cancelled" \in Finished
    BY DEF Finished, Reasons
  <2> QED BY <1>5, <2>1, FinishKeepsPending DEF CancelAbandoned
<1>6. CASE Wake(c)
  <2>1. Verdict(c) \in Finished
    BY <1>6, VerdictType DEF Wake, RelayInv
  <2> QED BY <1>6, <2>1, FinishKeepsPending DEF Wake
<1>7. CASE ClientCancels(c) \/ TimerFires(c)
  BY <1>3, <1>7 DEF ClientCancels, TimerFires, Reasons
<1> QED BY <1>1, <1>2, <1>4, <1>5, <1>6, <1>7 DEF CallStep, CallEvent

\* Attaching, acknowledging, pumping and leaving keep the pending set in step.
LEMMA EndpointKeepsPending ==
  ASSUME RelayInv, NEW s \in Sock, EndpointStep(s) \/ EndpointEvent(s)
  PROVE  PendingInv'
<1>1. CASE Attach(s)
  <2>1. /\ endpoint[s] = "new" /\ websocket' = s /\ websocket # s
        /\ UNCHANGED <<call, target>> /\ Aged /\ endpoint'[s] # "new"
    BY <1>1, RelayAssumption
    DEF Attach, Aged, RelayInv, PendingInv, StaleSnapshot, TypeInv, TypeOK
  <2>2. CASE websocket # NoSock
    BY <1>1, <2>1, <2>2, SwitchKeepsPending DEF Attach, Failures
  <2>3. CASE websocket = NoSock
    <3>1. pending = {} /\ UNCHANGED <<pending, future>>
      BY <1>1, <2>3 DEF Attach, RelayInv, PendingInv, PendingIsWithCurrent
    <3> QED BY <2>1, <2>3, <3>1
            DEF RelayInv, PendingInv, PendingIsWithCurrent, SlotsBounded, Tracked,
                StaleSnapshot, TypeInv, TypeOK, Aged
  <2> QED BY <2>2, <2>3
<1>2. CASE AttachSettles(s)
  BY <1>2, QuietKeepsPending DEF AttachSettles, Aged, RelayInv, TypeInv, TypeOK
<1>3. CASE Greet(s)
  <2>1. CASE removed \/ websocket = NoSock
    BY <1>3, <2>1, EndpointOverKeepsPending DEF Greet
  <2>2. CASE ~(removed \/ websocket = NoSock)
    <3>1. \A c \in Call : target'[c] = target[c]
      BY <1>3, <2>2, RelayAssumption DEF Greet, BeginSend, Sender, RelayInv, TypeInv, TypeOK
    <3> QED BY <1>3, <2>2, <3>1, QuietKeepsPending DEF Greet, Aged, RelayInv, TypeInv, TypeOK
  <2> QED BY <2>1, <2>2
<1>4. CASE PumpEnds(s)
  BY <1>4, EndpointOverKeepsPending DEF PumpEnds
<1>5. CASE PeerLeaves(s)
  BY <1>5, QuietKeepsPending DEF PeerLeaves, Aged
<1> QED BY <1>1, <1>2, <1>3, <1>4, <1>5 DEF EndpointStep, EndpointEvent

\* Every step keeps the pending requests in order.
THEOREM RelayInvStep == RelayInv /\ [Next]_vars => RelayInv'
<1> SUFFICES ASSUME RelayInv, [Next]_vars PROVE PendingInv'
  BY TypeInvStep DEF RelayInv
<1>1. ASSUME NEW s \in Sock, NEW c \in Call, HandleResult(s, c) PROVE PendingInv'
  BY <1>1, QuietKeepsPending DEF HandleResult, Aged, RelayInv, TypeInv, TypeOK
<1>2. CASE Close
  <2>1. FailPending("offline") /\ "offline" \in Failures /\ Aged
    BY <1>2 DEF Close, Failures, Aged
  <2>2. CASE websocket # NoSock
    BY <1>2, <2>1, <2>2, SwitchKeepsPending DEF Close
  <2>3. CASE websocket = NoSock
    <3>1. pending = {} /\ pending' = {} /\ future' = future
      BY <2>1, <2>3, FailPendingType
      DEF RelayInv, PendingInv, PendingIsWithCurrent, FailPending, TypeInv, TypeOK
    <3> QED BY <1>2, <2>1, <2>3, <3>1, QuietKeepsPending DEF Close
  <2> QED BY <2>2, <2>3
<1>3. CASE UNCHANGED vars
  BY <1>3, QuietKeepsPending DEF vars, Aged
<1> QED BY <1>1, <1>2, <1>3, SenderKeepsPending, RequestKeepsPending, EndpointKeepsPending
        DEF Next

\* Requests are only ever pending with the provider that serves the channel.
THEOREM PendingAlwaysWithCurrent == Spec => []PendingIsWithCurrent
<1>1. RelayInv => PendingIsWithCurrent
  BY DEF RelayInv, PendingInv
<1> QED BY <1>1, RelayInvInitially, RelayInvStep, PTL DEF Spec

\* However many requests come, are cancelled or time out, the limit holds.
THEOREM SlotsAlwaysBounded == Spec => []SlotsBounded
<1>1. RelayInv => SlotsBounded
  BY DEF RelayInv, PendingInv
<1> QED BY <1>1, RelayInvInitially, RelayInvStep, PTL DEF Spec

\* No task ever waits for a future that nothing can settle any more.
THEOREM NoWaitIsStranded == Spec => []NoStrandedWait
<1>1. RelayInv => NoStrandedWait
  BY DEF RelayInv, PendingInv, Tracked, NoStrandedWait
<1> QED BY <1>1, RelayInvInitially, RelayInvStep, PTL DEF Spec

-----------------------------------------------------------------------------
(* Frames *)

\* Who writes after a sender left the queue was writing before.
LEMMA LeaveLockHolder ==
  ASSUME TypeInv, NEW p, LeaveLock(p), NEW r, Writes(r)'
  PROVE  Writes(r) /\ r # p
<1>1. writing /\ ~Writes(p) /\ Without(sendQueue, p) # <<>> /\ Head(Without(sendQueue, p)) = r
  BY DEF LeaveLock, Writes
<1>2. sendQueue \in Seq(Sender) /\ sendQueue # <<>>
  BY <1>1 DEF Without, TypeInv, TypeOK
<1>3. Head(sendQueue) # p
  BY <1>1, <1>2 DEF Writes
<1>4. Head(sendQueue) = r
  BY <1>1, <1>2, <1>3, WithoutKeepsHolder
<1> QED BY <1>1, <1>2, <1>3, <1>4 DEF Writes

\* Who writes after a sender asked for the lock was writing before, unless it is that
\* sender, which then has handed its frame over.
LEMMA BeginSendHolder ==
  ASSUME TypeInv, NEW p \in Sender, NEW frame, BeginSend(p, frame), NEW r, Writes(r)'
  PROVE  \/ Writes(r) /\ r # p /\ UNCHANGED delivered
         \/ r = p /\ Transmit(websocket, frame)
<1> DEFINE ahead == Without(sendQueue, p)
<1>1. sendQueue \in Seq(Sender) /\ ahead \in Seq(Sender) /\ sendQueue' = Append(ahead, p)
  BY WithoutKeepsHolder DEF BeginSend, TypeInv, TypeOK
<1>2. CASE ahead = <<>>
  <2>1. Head(sendQueue') = p
    BY <1>1, <1>2
  <2> QED BY <1>2, <2>1 DEF BeginSend, Writes
<1>3. CASE ahead # <<>>
  <2>1. writing /\ ~Writes(p) /\ UNCHANGED delivered
    BY <1>3 DEF BeginSend, Writes
  <2>2. Head(ahead) = r
    <3>1. Head(Append(ahead, p)) = Head(ahead)
      BY <1>1, <1>3
    <3> QED BY <1>1, <3>1 DEF Writes
  <2>3. sendQueue # <<>>
    BY <1>3 DEF Without
  <2>4. Head(sendQueue) # p
    BY <2>1, <2>3 DEF Writes
  <2>5. Head(sendQueue) = r
    BY <1>1, <2>2, <2>3, <2>4, WithoutKeepsHolder
  <2> QED BY <2>1, <2>3, <2>4, <2>5 DEF Writes
<1> QED BY <1>2, <1>3

\* A request frame is only written by the task of a request that is pending with the
\* websocket it is written to.
LEMMA RequestFrames ==
  ASSUME RelayInv, Next, NEW s \in Sock, NEW c \in Call,
         <<"request", c>> \in delivered'[s] \ delivered[s]
  PROVE  c \in pending' /\ websocket = s /\ call'[c] = "sending"
<1>0. websocket \in Sock \union {NoSock} /\ TypeInv
  BY DEF RelayInv, TypeInv, TypeOK
<1>1. ASSUME NEW p \in Sender, SendWake(p)
      PROVE  c \in pending' /\ websocket = s /\ call'[c] = "sending"
  <2>1. FrameOf(p) \in Frame
    BY DEF FrameOf, Frame, Sender
  <2>2. s = websocket /\ FrameOf(p) = <<"request", c>>
    <3>1. Transmit(websocket, FrameOf(p))
      BY <1>1 DEF SendWake
    <3> QED BY <1>0, <2>1, <3>1, TransmitAdds
  <2>3. p = c /\ call[c] = "sending"
    BY <2>2, RelayAssumption DEF FrameOf, Sender
  <2>4. c \in pending
    BY <1>1, <2>2, <2>3 DEF SendWake, RelayInv, PendingInv, StaleSnapshot
  <2> QED BY <1>1, <2>2, <2>3, <2>4 DEF SendWake
<1>2. ASSUME NEW d \in Call, CallProvider(d)
      PROVE  c \in pending' /\ websocket = s /\ call'[c] = "sending"
  <2>1. BeginSend(d, <<"request", d>>) /\ <<"request", d>> \in Frame
    BY <1>2 DEF CallProvider, Frame
  <2>2. Transmit(websocket, <<"request", d>>)
    BY <2>1 DEF BeginSend
  <2>3. s = websocket /\ <<"request", d>> = <<"request", c>>
    BY <1>0, <2>1, <2>2, TransmitAdds
  <2> QED BY <1>2, <2>3 DEF CallProvider, RelayInv, TypeInv, TypeOK
<1>3. ASSUME NEW d \in Call, Interrupted(d) PROVE FALSE
  <2>1. <<"cancel", d>> \in Frame
    BY DEF Frame
  <2>2. UNCHANGED delivered \/ Transmit(websocket, <<"cancel", d>>)
    BY <1>3 DEF Interrupted, BeginSend
  <2>3. Transmit(websocket, <<"cancel", d>>)
    BY <2>2
  <2>4. <<"request", c>> = <<"cancel", d>>
    BY <1>0, <2>1, <2>3, TransmitAdds
  <2> QED BY <2>4
<1>4. ASSUME NEW r \in Sock, Greet(r) PROVE FALSE
  <2>1. <<"hello.ack", r>> \in Frame
    BY DEF Frame
  <2>2. UNCHANGED delivered \/ Transmit(websocket, <<"hello.ack", r>>)
    BY <1>4 DEF Greet, BeginSend
  <2>3. Transmit(websocket, <<"hello.ack", r>>)
    BY <2>2
  <2>4. <<"request", c>> = <<"hello.ack", r>>
    BY <1>0, <2>1, <2>3, TransmitAdds
  <2> QED BY <2>4
<1>5. ASSUME NEW p \in Sender, SendReturns(p) \/ SendFails(p) PROVE FALSE
  BY <1>5 DEF SendReturns, SendFails
<1>6. ASSUME NEW d \in Call,
             Wake(d) \/ CallRefused(d) \/ ClientCancels(d) \/ CancelAbandoned(d) \/ TimerFires(d)
      PROVE  FALSE
  BY <1>6 DEF Wake, CallRefused, ClientCancels, CancelAbandoned, TimerFires, ThrowInto
<1>7. ASSUME NEW r \in Sock, Attach(r) \/ AttachSettles(r) \/ PumpEnds(r) \/ PeerLeaves(r)
      PROVE  FALSE
  BY <1>7 DEF Attach, AttachSettles, PumpEnds, PeerLeaves
<1>8. ASSUME NEW r \in Sock, NEW d \in Call, HandleResult(r, d) PROVE FALSE
  BY <1>8 DEF HandleResult
<1>9. CASE Close
  BY <1>9 DEF Close
<1> QED BY <1>1, <1>2, <1>3, <1>4, <1>5, <1>6, <1>7, <1>8, <1>9
        DEF Next, SenderStep, CallStep, CallEvent, EndpointStep, EndpointEvent

\* No provider is handed a request whose client was already told it is lost.
THEOREM NoRequestIsOrphaned == Spec => NoOrphanRequest
<1> DEFINE A == \A s \in Sock, c \in Call :
                  <<"request", c>> \in delivered'[s] \ delivered[s]
                    => c \in pending' /\ websocket = s
<1>1. RelayInv /\ [Next]_vars => [A]_vars
  BY RequestFrames
<1> QED BY <1>1, RelayInvInitially, RelayInvStep, PTL DEF Spec, NoOrphanRequest

-----------------------------------------------------------------------------
(* The endpoint of a superseded socket *)

\* An endpoint that ends while it is not the current one changes neither the
\* current provider nor any request (detach is a no-op for it).
LEMMA EndpointsEnd ==
  ASSUME RelayInv, Next, NEW s \in Sock, endpoint[s] # "gone", endpoint'[s] = "gone",
         websocket # s
  PROVE  UNCHANGED <<websocket, future, pending>>
<1>0. endpoint \in [Sock -> EndpointState]
  BY DEF RelayInv, TypeInv, TypeOK, EndpointState
<1>1. ASSUME NEW r \in Sock, EndpointOver(r) PROVE UNCHANGED <<websocket, future, pending>>
  BY <1>0, <1>1 DEF EndpointOver
<1>2. ASSUME NEW p \in Sender, SenderStep(p) PROVE UNCHANGED <<websocket, future, pending>>
  BY <1>0, <1>1, <1>2 DEF SenderStep, SendWake, SendReturns, SendFails
<1>3. ASSUME NEW c \in Call, CallStep(c) \/ CallEvent(c) \/ TimerFires(c) PROVE FALSE
  BY <1>3 DEF CallStep, CallEvent, TimerFires, CallProvider, CallRefused, ClientCancels,
              CancelAbandoned, Interrupted, Wake, ThrowInto
<1>4. ASSUME NEW r \in Sock, EndpointStep(r) \/ EndpointEvent(r)
      PROVE  UNCHANGED <<websocket, future, pending>>
  BY <1>0, <1>1, <1>4
  DEF EndpointStep, EndpointEvent, Attach, AttachSettles, Greet, PumpEnds, PeerLeaves
<1>5. ASSUME NEW r \in Sock, NEW c \in Call, HandleResult(r, c) PROVE FALSE
  BY <1>5 DEF HandleResult
<1>6. CASE Close
  BY <1>6 DEF Close
<1> QED BY <1>2, <1>3, <1>4, <1>5, <1>6 DEF Next

\* However many providers follow each other, the end of an old one's endpoint leaves
\* the current one and its requests alone.
THEOREM SupersededNeverHarms == Spec => SupersededIsHarmless
<1> DEFINE A == \A s \in Sock :
                  endpoint[s] # "gone" /\ endpoint'[s] = "gone" /\ websocket # s
                    => /\ websocket' = websocket
                       /\ future' = future
                       /\ pending' = pending
<1>1. RelayInv /\ [Next]_vars => [A]_vars
  BY EndpointsEnd
<1> QED BY <1>1, RelayInvInitially, RelayInvStep, PTL DEF Spec, SupersededIsHarmless

-----------------------------------------------------------------------------
(* Cancel frames *)

\* A task that is writing its cancel frame has handed it over, if the socket is open.
CancelWritten ==
  \A c \in Call : call[c] = "cancelling" /\ Writes(c) /\ target[c] \in open
    => <<"cancel", c>> \in delivered[target[c]]

\* It sends the cancel where the request went, if that provider still serves.
CancelFollows ==
  \A c \in Call, s \in Sock :
    call[c] = "cancelling" /\ websocket = s /\ <<"request", c>> \in delivered[s]
      => target[c] = s

\* A socket that is not attached yet has been sent no request.
FreshSockets ==
  \A s \in Sock, c \in Call : endpoint[s] = "new" => <<"request", c>> \notin delivered[s]

CancelInv == CancelWritten /\ CancelFollows /\ FreshSockets /\ TimeoutIsCancelled

\* What a step has to respect for CancelInv to hold after it.
FramesGrow ==
  /\ open' \subseteq open /\ Aged
  /\ \A s \in Sock : delivered[s] \subseteq delivered'[s]
  /\ \A s \in Sock, c \in Call :
       <<"request", c>> \in delivered'[s] \ delivered[s] => call'[c] = "sending" /\ websocket = s
  /\ websocket' \in {websocket, NoSock} \/ endpoint[websocket'] = "new"

CancelStarts(c) == target'[c] = websocket /\ websocket' = websocket

CancelGoesOn(c) == call[c] = "cancelling" /\ target'[c] = target[c]

TimesOut(c) ==
  \/ call[c] = "timeout"
  \/ websocket' = NoSock
  \/ /\ call[c] = "cancelling" /\ websocket' = websocket
     /\ Writes(c) \/ target[c] # websocket \/ target[c] \notin open

\* CancelInv is kept by a step in which every cancelling request either starts its
\* cancel or goes on with it, and no frame already written is taken back.
LEMMA CancelKept ==
  ASSUME RelayInv, CancelInv, FramesGrow,
         \A c \in Call : call'[c] = "cancelling" => CancelStarts(c) \/ CancelGoesOn(c),
         \A c \in Call : call'[c] = "cancelling" /\ Writes(c)' =>
           \/ CancelGoesOn(c) /\ Writes(c)
           \/ target'[c] \in open => <<"cancel", c>> \in delivered'[target'[c]],
         \A c \in Call : call'[c] = "timeout" => TimesOut(c)
  PROVE  CancelInv'
<1>0. open \subseteq Sock /\ NoSock \notin Sock /\ websocket \in Sock \union {NoSock}
  BY RelayAssumption DEF RelayInv, TypeInv, TypeOK
<1>1. CancelWritten'
  <2> SUFFICES ASSUME NEW c \in Call, call'[c] = "cancelling", Writes(c)', target'[c] \in open'
               PROVE  <<"cancel", c>> \in delivered'[target'[c]]
    BY DEF CancelWritten
  <2>1. target'[c] \in open /\ target'[c] \in Sock
    BY <1>0 DEF FramesGrow
  <2>2. CASE CancelGoesOn(c) /\ Writes(c)
    BY <2>1, <2>2 DEF CancelGoesOn, FramesGrow, CancelInv, CancelWritten
  <2> QED BY <2>1, <2>2
<1>2. CancelFollows'
  <2> SUFFICES ASSUME NEW c \in Call, NEW s \in Sock,
                      call'[c] = "cancelling", websocket' = s, <<"request", c>> \in delivered'[s]
               PROVE  target'[c] = s
    BY DEF CancelFollows
  <2>1. <<"request", c>> \in delivered[s]
    BY DEF FramesGrow
  <2>2. websocket = s
    BY <1>0, <2>1 DEF FramesGrow, CancelInv, FreshSockets
  <2> QED BY <2>1, <2>2 DEF CancelStarts, CancelGoesOn, CancelInv, CancelFollows
<1>3. FreshSockets'
  <2> SUFFICES ASSUME NEW s \in Sock, NEW c \in Call, endpoint'[s] = "new"
               PROVE  <<"request", c>> \notin delivered'[s]
    BY DEF FreshSockets
  <2>1. endpoint[s] = "new" /\ websocket # s
    BY <1>0 DEF FramesGrow, Aged, RelayInv, PendingInv, StaleSnapshot
  <2> QED BY <2>1 DEF FramesGrow, CancelInv, FreshSockets
<1>4. TimeoutIsCancelled'
  <2> SUFFICES ASSUME NEW c \in Call, NEW s \in Sock,
                      call'[c] = "timeout", websocket' = s, s \in open',
                      <<"request", c>> \in delivered'[s]
               PROVE  <<"cancel", c>> \in delivered'[s]
    BY DEF TimeoutIsCancelled
  <2>1. <<"request", c>> \in delivered[s] /\ s \in open
    BY DEF FramesGrow
  <2>2. websocket = s
    BY <1>0, <2>1 DEF FramesGrow, CancelInv, FreshSockets
  <2>3. <<"cancel", c>> \in delivered[s]
    <3>1. CASE call[c] = "timeout"
      BY <2>1, <2>2, <3>1 DEF CancelInv, TimeoutIsCancelled
    <3>2. CASE call[c] = "cancelling"
      <4>1. target[c] = s
        BY <2>1, <2>2, <3>2 DEF CancelInv, CancelFollows
      <4>2. Writes(c)
        BY <1>0, <2>1, <2>2, <3>2, <4>1 DEF TimesOut
      <4> QED BY <2>1, <3>2, <4>1, <4>2 DEF CancelInv, CancelWritten
    <3> QED BY <1>0, <3>1, <3>2 DEF TimesOut
  <2> QED BY <2>3 DEF FramesGrow
<1> QED BY <1>1, <1>2, <1>3, <1>4 DEF CancelInv

\* Frames that were handed over stay handed over.
LEMMA TransmitGrows ==
  ASSUME TypeInv, NEW s \in Sock \union {NoSock}, NEW frame \in Frame, Transmit(s, frame),
         NEW r \in Sock
  PROVE  delivered[r] \subseteq delivered'[r]
<1>1. delivered'[r] = IF r = s /\ s \in open THEN delivered[r] \union {frame} ELSE delivered[r]
  BY TransmitEffect
<1> QED BY <1>1

\* Sockets close and grow older, frames accumulate, and a new provider is a new socket.
LEMMA NextGrowsFrames ==
  ASSUME RelayInv, Next PROVE FramesGrow
<1> DEFINE Grows == /\ open' \subseteq open /\ Aged
                    /\ \A s \in Sock : delivered[s] \subseteq delivered'[s]
                    /\ websocket' \in {websocket, NoSock} \/ endpoint[websocket'] = "new"
<1>0. /\ websocket \in Sock \union {NoSock} /\ TypeInv
      /\ endpoint \in [Sock -> EndpointState]
  BY DEF RelayInv, TypeInv, TypeOK, EndpointState
<1>1. ASSUME NEW r \in Sock, EndpointOver(r)
      PROVE  Aged /\ websocket' \in {websocket, NoSock}
  BY <1>0, <1>1 DEF EndpointOver, Aged
<1>2. ASSUME NEW p \in Sender, NEW frame \in Frame, BeginSend(p, frame)
      PROVE  \A s \in Sock : delivered[s] \subseteq delivered'[s]
  <2>1. UNCHANGED delivered \/ Transmit(websocket, frame)
    BY <1>2 DEF BeginSend
  <2> QED BY <1>0, <2>1, TransmitGrows
<1>3. ASSUME NEW p \in Sender, SenderStep(p) PROVE Grows
  <2>1. CASE SendWake(p)
    <3>1. FrameOf(p) \in Frame
      BY DEF FrameOf, Frame, Sender
    <3>2. \A s \in Sock : delivered[s] \subseteq delivered'[s]
      BY <1>0, <2>1, <3>1, TransmitGrows DEF SendWake
    <3> QED BY <2>1, <3>2 DEF SendWake, Aged
  <2>2. CASE SendReturns(p)
    BY <1>0, <2>2 DEF SendReturns, Aged
  <2>3. CASE SendFails(p)
    BY <1>0, <1>1, <2>3 DEF SendFails, Aged
  <2> QED BY <1>3, <2>1, <2>2, <2>3 DEF SenderStep
<1>4. ASSUME NEW c \in Call, CallStep(c) \/ CallEvent(c) \/ TimerFires(c) PROVE Grows
  <2> c \in Sender /\ <<"request", c>> \in Frame /\ <<"cancel", c>> \in Frame
    BY DEF Sender, Frame
  <2>1. CASE CallProvider(c)
    BY <1>2, <2>1 DEF CallProvider, Aged
  <2>2. CASE Interrupted(c)
    BY <1>2, <2>2 DEF Interrupted, Aged
  <2>3. CASE CallRefused(c) \/ ClientCancels(c) \/ CancelAbandoned(c) \/ Wake(c) \/ TimerFires(c)
    BY <2>3 DEF CallRefused, ClientCancels, CancelAbandoned, Wake, TimerFires, ThrowInto, Aged
  <2> QED BY <1>4, <2>1, <2>2, <2>3 DEF CallStep, CallEvent
<1>5. ASSUME NEW s \in Sock, EndpointStep(s) \/ EndpointEvent(s) PROVE Grows
  <2>1. CASE Greet(s)
    <3>1. s \in Sender /\ <<"hello.ack", s>> \in Frame
      BY DEF Sender, Frame
    <3> QED BY <1>0, <1>1, <1>2, <2>1, <3>1 DEF Greet, Aged
  <2>2. CASE Attach(s)
    BY <1>0, <2>2 DEF Attach, Aged
  <2>3. CASE AttachSettles(s) \/ PumpEnds(s) \/ PeerLeaves(s)
    BY <1>0, <1>1, <2>3 DEF AttachSettles, PumpEnds, PeerLeaves, Aged
  <2> QED BY <1>5, <2>1, <2>2, <2>3 DEF EndpointStep, EndpointEvent
<1>6. ASSUME NEW s \in Sock, NEW c \in Call, HandleResult(s, c) PROVE Grows
  BY <1>6 DEF HandleResult, Aged
<1>7. ASSUME Close PROVE Grows
  BY <1>7 DEF Close, Aged
<1>8. Grows
  BY <1>3, <1>4, <1>5, <1>6, <1>7 DEF Next
<1>9. \A s \in Sock, c \in Call :
        <<"request", c>> \in delivered'[s] \ delivered[s] => call'[c] = "sending" /\ websocket = s
  BY RequestFrames
<1> QED BY <1>8, <1>9 DEF FramesGrow

\* Steps that move no request towards a timeout, and let nobody else write.
LEMMA CancelKeptQuietly ==
  ASSUME RelayInv, CancelInv, Next,
         \A c \in Call : call'[c] \in {"cancelling", "timeout"} => call'[c] = call[c],
         \A c \in Call : call[c] = "cancelling" => target'[c] = target[c],
         \A c \in Call : call[c] = "cancelling" /\ Writes(c)' =>
           \/ Writes(c)
           \/ target[c] \in open => <<"cancel", c>> \in delivered'[target[c]]
  PROVE  CancelInv'
BY CancelKept, NextGrowsFrames DEF CancelGoesOn, TimesOut

\* The steps of send_to_provider, where the cancel frame is written, keep CancelInv.
LEMMA SenderKeepsCancel ==
  ASSUME RelayInv, CancelInv, Next, NEW p \in Sender, SenderStep(p) PROVE CancelInv'
<1>0. /\ websocket \in Sock \union {NoSock} /\ TypeInv /\ open \subseteq Sock
      /\ call \in [Call -> CallState]
  BY DEF RelayInv, TypeInv, TypeOK, CallState
<1>1. CASE SendWake(p)
  <2>1. FrameOf(p) \in Frame
    BY DEF FrameOf, Frame, Sender
  <2>2. /\ target[p] = websocket /\ Head(sendQueue) = p
        /\ Transmit(websocket, FrameOf(p))
        /\ UNCHANGED <<call, target, sendQueue>>
    BY <1>1 DEF SendWake
  <2>3. ASSUME NEW c \in Call, call[c] = "cancelling", Writes(c)', target[c] \in open
        PROVE  <<"cancel", c>> \in delivered'[target[c]]
    <3>1. c = p
      BY <2>2, <2>3 DEF Writes
    <3>2. FrameOf(p) = <<"cancel", c>>
      BY <2>3, <3>1, RelayAssumption DEF FrameOf
    <3>3. websocket \in open
      BY <2>2, <2>3, <3>1
    <3>4. delivered'[websocket] = delivered[websocket] \union {FrameOf(p)}
      BY <1>0, <2>1, <2>2, <3>3, TransmitEffect
    <3> QED BY <2>2, <3>1, <3>2, <3>4
  <2> QED BY <2>2, <2>3, CancelKeptQuietly
<1>2. CASE SendReturns(p) \/ SendFails(p)
  <2>1. LeaveLock(p) /\ UNCHANGED target
    BY <1>2 DEF SendReturns, SendFails
  <2>2. \A c \in Call : Writes(c)' => Writes(c)
    BY <1>0, <2>1, LeaveLockHolder
  <2>3. \A c \in Call : call'[c] = "cancelling" => call[c] = "cancelling"
    BY <1>0, <1>2 DEF SendReturns, SendFails, Finish, Verdict, RelayInv, TypeInv, TypeOK,
                     Reasons, Failures
  <2>4. ASSUME NEW c \in Call, call'[c] = "timeout" PROVE TimesOut(c)
    <3>1. CASE call'[c] = call[c]
      BY <2>4, <3>1 DEF TimesOut
    <3>2. CASE call'[c] # call[c]
      <4>1. p = c /\ call[c] = "cancelling" /\ UNCHANGED websocket
        BY <1>0, <1>2, <2>4, <3>2
        DEF SendReturns, SendFails, Finish, Verdict, RelayInv, TypeInv, TypeOK, Failures
      <4>2. Writes(c) \/ target[c] # websocket \/ target[c] \notin open
        BY <1>2, <4>1 DEF SendReturns, SendFails
      <4> QED BY <4>1, <4>2 DEF TimesOut
    <3> QED BY <3>1, <3>2
  <2> QED BY <2>1, <2>2, <2>3, <2>4, CancelKept, NextGrowsFrames DEF CancelGoesOn
<1> QED BY <1>1, <1>2 DEF SenderStep

\* The steps of one _call_provider, where a timeout starts the cancel, keep CancelInv.
LEMMA RequestKeepsCancel ==
  ASSUME RelayInv, CancelInv, Next, NEW c \in Call, CallStep(c) \/ CallEvent(c) \/ TimerFires(c)
  PROVE  CancelInv'
<1>0. /\ websocket \in Sock \union {NoSock} /\ TypeInv /\ open \subseteq Sock
      /\ call \in [Call -> CallState] /\ target \in [Sender -> Sock \union {NoSock}]
      /\ c \in Sender /\ Call \subseteq Sender
  BY DEF RelayInv, TypeInv, TypeOK, CallState, Sender
<1>1. CASE CallProvider(c)
  <2>1. /\ call[c] = "idle" /\ call' = [call EXCEPT ![c] = "sending"]
        /\ target' = [target EXCEPT ![c] = websocket]
        /\ BeginSend(c, <<"request", c>>)
    BY <1>1 DEF CallProvider, BeginSend
  <2>2. \A d \in Call : Writes(d)' => d = c \/ Writes(d)
    BY <1>0, <2>1, BeginSendHolder
  <2> QED BY <1>0, <2>1, <2>2, CancelKeptQuietly
<1>2. CASE CallRefused(c)
  BY <1>0, <1>2, CancelKeptQuietly DEF CallRefused, Writes
<1>3. CASE ClientCancels(c) \/ TimerFires(c)
  BY <1>0, <1>3, CancelKeptQuietly DEF ClientCancels, TimerFires, ThrowInto, Writes
<1>4. CASE Wake(c)
  BY <1>0, <1>4, CancelKeptQuietly
  DEF Wake, Writes, Finish, Verdict, TypeInv, TypeOK, Failures
<1>5. CASE CancelAbandoned(c)
  <2>1. /\ LeaveLock(c) /\ UNCHANGED target
        /\ call' = [call EXCEPT ![c] = "mcp_client_cancelled"]
    BY <1>5 DEF CancelAbandoned, Finish
  <2>2. \A d \in Call : Writes(d)' => Writes(d)
    BY <1>0, <2>1, LeaveLockHolder
  <2> QED BY <1>0, <2>1, <2>2, CancelKeptQuietly
<1>6. CASE Interrupted(c)
  <2>1. CASE websocket = NoSock
    <3>1. /\ LeaveLock(c) /\ UNCHANGED <<target, websocket>>
          /\ call' = [call EXCEPT ![c] = interrupt[c]]
          /\ interrupt[c] # "cancelling"
      BY <1>0, <1>6, <2>1 DEF Interrupted, Finish, TypeInv, TypeOK, Reasons
    <3>2. \A d \in Call : Writes(d)' => Writes(d)
      BY <1>0, <3>1, LeaveLockHolder
    <3>3. \A d \in Call : call'[d] = "cancelling" => call[d] = "cancelling"
      BY <1>0, <3>1
    <3>4. \A d \in Call : TimesOut(d)
      BY <2>1, <3>1 DEF TimesOut
    <3> QED BY <3>1, <3>2, <3>3, <3>4, CancelKept, NextGrowsFrames DEF CancelGoesOn
  <2>2. CASE websocket # NoSock
    <3>1. /\ call' = [call EXCEPT ![c] = "cancelling"]
          /\ target' = [target EXCEPT ![c] = websocket]
          /\ BeginSend(c, <<"cancel", c>>) /\ <<"cancel", c>> \in Frame
          /\ UNCHANGED websocket
      BY <1>6, <2>2 DEF Interrupted, BeginSend, Frame
    <3>2. target'[c] = websocket /\ CancelStarts(c)
      BY <1>0, <3>1 DEF CancelStarts
    <3>3. \A d \in Call : d # c => target'[d] = target[d] /\ call'[d] = call[d]
      BY <1>0, <3>1
    <3>4. \A d \in Call : d # c /\ Writes(d)' => Writes(d)
      BY <1>0, <3>1, BeginSendHolder
    <3>5. ASSUME Writes(c)', target'[c] \in open
          PROVE  <<"cancel", c>> \in delivered'[target'[c]]
      <4>1. Transmit(websocket, <<"cancel", c>>)
        BY <1>0, <3>1, <3>5, BeginSendHolder
      <4>2. delivered'[websocket] = delivered[websocket] \union {<<"cancel", c>>}
        BY <1>0, <3>1, <3>2, <3>5, <4>1, TransmitEffect
      <4> QED BY <3>2, <4>2
    <3>6. \A d \in Call : call'[d] = "cancelling" => CancelStarts(d) \/ CancelGoesOn(d)
      BY <3>2, <3>3 DEF CancelGoesOn
    <3>7. \A d \in Call : call'[d] = "cancelling" /\ Writes(d)' =>
            \/ CancelGoesOn(d) /\ Writes(d)
            \/ target'[d] \in open => <<"cancel", d>> \in delivered'[target'[d]]
      BY <3>3, <3>4, <3>5 DEF CancelGoesOn
    <3>8. \A d \in Call : call'[d] = "timeout" => TimesOut(d)
      BY <1>0, <3>1 DEF TimesOut
    <3> QED BY <3>6, <3>7, <3>8, CancelKept, NextGrowsFrames
  <2> QED BY <2>1, <2>2
<1> QED BY <1>1, <1>2, <1>3, <1>4, <1>5, <1>6 DEF CallStep, CallEvent

\* The steps of a provider's endpoint keep CancelInv: a replaced or lost provider
\* releases the promise to tell it.
LEMMA EndpointKeepsCancel ==
  ASSUME RelayInv, CancelInv, Next, NEW s \in Sock, EndpointStep(s) \/ EndpointEvent(s)
  PROVE  CancelInv'
<1>0. /\ TypeInv /\ target \in [Sender -> Sock \union {NoSock}]
      /\ s \in Sender /\ s \notin Call
  BY RelayAssumption DEF RelayInv, TypeInv, TypeOK, Sender
<1>1. CASE Greet(s) /\ ~(removed \/ websocket = NoSock)
  <2>1. /\ BeginSend(s, <<"hello.ack", s>>) /\ UNCHANGED call
        /\ target' = [target EXCEPT ![s] = websocket]
    BY <1>1 DEF Greet, BeginSend
  <2>2. \A d \in Call : Writes(d)' => Writes(d)
    BY <1>0, <2>1, BeginSendHolder
  <2>3. \A d \in Call : target'[d] = target[d]
    BY <1>0, <2>1 DEF Sender
  <2> QED BY <2>1, <2>2, <2>3, CancelKeptQuietly
<1>2. CASE Greet(s) /\ (removed \/ websocket = NoSock)
  BY <1>2, CancelKeptQuietly DEF Greet, Writes
<1>3. CASE Attach(s) \/ AttachSettles(s) \/ PumpEnds(s) \/ PeerLeaves(s)
  BY <1>3, CancelKeptQuietly DEF Attach, AttachSettles, PumpEnds, PeerLeaves, Writes
<1> QED BY <1>1, <1>2, <1>3 DEF EndpointStep, EndpointEvent

\* The steps of every task keep the cancel frames in order.
THEOREM CancelInvStep == RelayInv /\ CancelInv /\ [Next]_vars => CancelInv'
<1> SUFFICES ASSUME RelayInv, CancelInv, [Next]_vars PROVE CancelInv'
  OBVIOUS
<1>1. ASSUME Next, NEW s \in Sock, NEW c \in Call, HandleResult(s, c) PROVE CancelInv'
  BY <1>1, CancelKeptQuietly DEF HandleResult, Writes
<1>2. ASSUME Next, Close PROVE CancelInv'
  BY <1>2, CancelKeptQuietly DEF Close, Writes
<1>3. CASE UNCHANGED vars
  BY <1>3 DEF vars, CancelInv, CancelWritten, CancelFollows, FreshSockets, TimeoutIsCancelled,
              Writes
<1>4. ASSUME Next PROVE CancelInv'
  BY <1>1, <1>2, <1>4, SenderKeepsCancel, RequestKeepsCancel, EndpointKeepsCancel DEF Next
<1> QED BY <1>3, <1>4

\* A provider that still serves is always told of the requests that timed out on it.
THEOREM TimeoutsAreCancelled == Spec => []TimeoutIsCancelled
<1>1. Init => CancelInv
  BY DEF Init, CancelInv, CancelWritten, CancelFollows, FreshSockets, TimeoutIsCancelled
<1>2. CancelInv => TimeoutIsCancelled
  BY DEF CancelInv
<1> QED BY <1>1, <1>2, RelayInvInitially, RelayInvStep, CancelInvStep, PTL DEF Spec
=============================================================================
