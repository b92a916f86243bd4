---------------------------- MODULE ChannelRelay ----------------------------
(***************************************************************************)
(* One channel of the gateway (src/src/mcpgtw/channel.py) between its MCP  *)
(* requests and the provider websocket that serves it, with the provider   *)
(* endpoint's loop (gateway.py) that attaches, greets, reads and detaches. *)
(*                                                                         *)
(* The gateway is one asyncio event loop: a step here is what runs between *)
(* two awaits that can suspend.  The bodies under Channel._state_lock hold *)
(* no await, so each is part of one step; Channel._send_lock is held       *)
(* across the awaited write, so it is modelled, with its FIFO waiters.     *)
(*                                                                         *)
(* Left out here: registries, sessions and subscriptions (no request       *)
(* depends on them once it is accepted), the registry's deadlines, and the *)
(* endpoint's other frames (ProviderPump), which queue for the lock as     *)
(* hello.ack does here.                                                    *)
(***************************************************************************)
EXTENDS Naturals, FiniteSets, Sequences, SequencesExt

CONSTANTS
  Sock,          \* provider websockets, each attached at most once
  Call,          \* MCP requests relayed to the provider, one request id each
  NoSock,        \* Channel._websocket is None
  MaxPending     \* settings.maximum_pending_calls_per_channel

ASSUME RelayAssumption ==
  /\ NoSock \notin Sock
  /\ Sock \intersect Call = {}
  /\ IsFiniteSet(Call)
  /\ MaxPending \in Nat

VARIABLES
  websocket,     \* Channel._websocket
  removed,       \* the registry removed the channel and closed it
  open,          \* sockets the gateway can still write to
  endpoint,      \* where the endpoint task of each socket stands
  delivered,     \* frames handed to each socket's transport
  pending,       \* request ids in Channel._pending
  future,        \* the future of each request
  call,          \* where the task of each request stands, or how it ended
  interrupt,     \* a cancellation thrown into the task and not yet seen by it
  target,        \* the websocket a sender took its snapshot of
  sendQueue,     \* holder of _send_lock, then its waiters in FIFO order
  writing        \* the holder is inside websocket.send_json

vars == <<websocket, removed, open, endpoint, delivered, pending, future, call,
          interrupt, target, sendQueue, writing>>

Sender     == Call \union Sock
Reasons    == {"timeout", "mcp_client_cancelled"}
Suspended  == {"sending", "waiting", "cancelling"}
Finished   == {"refused", "returned", "offline", "replaced"} \union Reasons
Failures   == {"offline", "replaced"}
Frame      == ({"request", "cancel"} \X Call) \union ({"hello.ack"} \X Sock)

TypeOK ==
  /\ websocket \in Sock \union {NoSock}
  /\ removed \in BOOLEAN
  /\ open \in SUBSET Sock
  /\ endpoint \in [Sock -> {"new", "attaching", "attached", "greeting", "pumping",
                            "gone"}]
  /\ delivered \in [Sock -> SUBSET Frame]
  /\ pending \in SUBSET Call
  /\ future \in [Call -> {"unset", "result", "cancelled"} \union Failures]
  /\ call \in [Call -> {"idle"} \union Suspended \union Finished]
  /\ interrupt \in [Call -> {"none"} \union Reasons]
  /\ target \in [Sender -> Sock \union {NoSock}]
  /\ sendQueue \in Seq(Sender)
  /\ writing \in BOOLEAN

Init ==
  /\ websocket = NoSock
  /\ removed = FALSE
  /\ open = Sock
  /\ endpoint = [s \in Sock |-> "new"]
  /\ delivered = [s \in Sock |-> {}]
  /\ pending = {}
  /\ future = [c \in Call |-> "unset"]
  /\ call = [c \in Call |-> "idle"]
  /\ interrupt = [c \in Call |-> "none"]
  /\ target = [p \in Sender |-> NoSock]
  /\ sendQueue = <<>>
  /\ writing = FALSE

-----------------------------------------------------------------------------
(* send_to_provider *)

\* The queue once p stopped waiting for the lock, or released it.
Without(q, p) ==
  IF \E i \in DOMAIN q : q[i] = p THEN RemoveAt(q, CHOOSE i \in DOMAIN q : q[i] = p) ELSE q

Writes(p) == writing /\ sendQueue # <<>> /\ Head(sendQueue) = p

Transmit(s, frame) ==
  delivered' = [delivered EXCEPT ![s] = IF s \in open THEN @ \union {frame} ELSE @]

\* p takes its snapshot of _websocket and asks for the lock.  A free lock is
\* taken without a suspension, so the write begins in the same step.
BeginSend(p, frame) ==
  LET ahead == Without(sendQueue, p) IN
  /\ target' = [target EXCEPT ![p] = websocket]
  /\ sendQueue' = Append(ahead, p)
  /\ IF ahead = <<>>
       THEN writing' = TRUE /\ Transmit(websocket, frame)
       ELSE writing' = (writing /\ ~Writes(p)) /\ UNCHANGED delivered

\* Mutation: a waiter that gives up keeps its place in the queue.
LeaveLock_OnlyWriter(p) ==
  /\ sendQueue' = IF Writes(p) THEN Without(sendQueue, p) ELSE sendQueue
  /\ writing' = (writing /\ ~Writes(p))

LeaveLock(p) ==
  /\ sendQueue' = Without(sendQueue, p)
  /\ writing' = (writing /\ ~Writes(p))

\* Mutation: the pending requests are dropped and their futures left alone.
FailPending_Silent(error) ==
  /\ future' = future
  /\ pending' = {}

\* _fail_pending, then _pending.clear()
FailPending(error) ==
  /\ future' = [c \in Call |-> IF c \in pending /\ future[c] = "unset" THEN error
                               ELSE future[c]]
  /\ pending' = {}

\* A request's task returns or raises; its finally clause frees the slot.
Finish(c, how) ==
  /\ call' = [call EXCEPT ![c] = how]
  /\ pending' = pending \ {c}

\* What `await future` gives a task, or the exception it re-raises.
Verdict(c) == IF future[c] = "result" THEN "returned" ELSE future[c]

\* Mutation: detach does not compare its socket with the current one.
EndpointOver_AnySocket(s) ==
  /\ endpoint' = [endpoint EXCEPT ![s] = "gone"]
  /\ websocket' = NoSock
  /\ FailPending("offline")

\* Mutation: detach leaves the requests of the lost socket pending.
EndpointOver_KeepsPending(s) ==
  /\ endpoint' = [endpoint EXCEPT ![s] = "gone"]
  /\ websocket' = IF websocket = s THEN NoSock ELSE websocket
  /\ UNCHANGED <<future, pending>>

\* Mutation: the endpoint ends without detaching.
EndpointOver_NoDetach(s) ==
  /\ endpoint' = [endpoint EXCEPT ![s] = "gone"]
  /\ UNCHANGED <<websocket, future, pending>>

\* The endpoint's finally: detach only clears the channel of its own socket.
EndpointOver(s) ==
  /\ endpoint' = [endpoint EXCEPT ![s] = "gone"]
  /\ IF websocket = s
       THEN websocket' = NoSock /\ FailPending("offline")
       ELSE UNCHANGED <<websocket, future, pending>>

FrameOf(p) ==
  CASE p \in Call -> <<IF call[p] = "sending" THEN "request" ELSE "cancel", p>>
    [] p \in Sock -> <<"hello.ack", p>>

\* A cancelled task is thrown CancelledError instead of getting the lock.
Uninterrupted(p) == p \in Call => (interrupt[p] = "none" \/ call[p] = "cancelling")

\* Mutation: the websocket is read once the lock is held, not before.
SendWake_LateSnapshot(p) ==
  /\ sendQueue # <<>> /\ Head(sendQueue) = p /\ ~writing
  /\ Uninterrupted(p)
  /\ websocket # NoSock
  /\ target' = [target EXCEPT ![p] = websocket]
  /\ writing' = TRUE
  /\ Transmit(websocket, FrameOf(p))
  /\ UNCHANGED <<websocket, removed, open, endpoint, pending, future, call, interrupt,
                 sendQueue>>

\* The lock reached p, and the snapshot it took is still the current websocket.
SendWake(p) ==
  /\ sendQueue # <<>> /\ Head(sendQueue) = p /\ ~writing
  /\ Uninterrupted(p)
  /\ target[p] = websocket
  /\ writing' = TRUE
  /\ Transmit(websocket, FrameOf(p))
  /\ UNCHANGED <<websocket, removed, open, endpoint, pending, future, call, interrupt,
                 target, sendQueue>>

\* send_json returned: the task goes on to its next await.
SendReturns(p) ==
  /\ Writes(p) /\ Uninterrupted(p)
  /\ LeaveLock(p)
  /\ \/ /\ p \in Call /\ call[p] = "sending" /\ future[p] = "unset"
        /\ call' = [call EXCEPT ![p] = "waiting"]
        /\ UNCHANGED <<endpoint, pending>>
     \/ /\ p \in Call /\ call[p] = "sending" /\ future[p] # "unset"
        /\ Finish(p, Verdict(p))
        /\ UNCHANGED endpoint
     \/ /\ p \in Call /\ call[p] = "cancelling"
        /\ Finish(p, interrupt[p])
        /\ UNCHANGED endpoint
     \/ /\ p \in Sock
        /\ endpoint' = [endpoint EXCEPT ![p] = "pumping"]
        /\ UNCHANGED <<pending, call>>
  /\ UNCHANGED <<websocket, removed, open, delivered, future, interrupt, target>>

\* ChannelOfflineError: the snapshot went stale while p waited for the lock, or
\* send_json raised.  A cancel is best effort, so its sender ends as it would have.
SendFails(p) ==
  /\ sendQueue # <<>> /\ Head(sendQueue) = p
  /\ Uninterrupted(p)
  /\ IF writing THEN target[p] \notin open ELSE target[p] # websocket
  /\ LeaveLock(p)
  /\ \/ /\ p \in Call /\ call[p] = "sending"
        /\ Finish(p, "offline")
        /\ UNCHANGED <<websocket, endpoint, future>>
     \/ /\ p \in Call /\ call[p] = "cancelling"
        /\ Finish(p, interrupt[p])
        /\ UNCHANGED <<websocket, endpoint, future>>
     \/ /\ p \in Sock
        /\ EndpointOver(p)
        /\ UNCHANGED call
  /\ UNCHANGED <<removed, open, delivered, interrupt, target>>

-----------------------------------------------------------------------------
(* _call_provider *)

\* Mutation: the limit lets one request too many in.
CallProvider_OffByOne(c) ==
  /\ call[c] = "idle"
  /\ websocket # NoSock
  /\ Cardinality(pending) <= MaxPending
  /\ pending' = pending \union {c}
  /\ call' = [call EXCEPT ![c] = "sending"]
  /\ BeginSend(c, <<"request", c>>)
  /\ UNCHANGED <<websocket, removed, open, endpoint, future, interrupt>>

\* The checks, the new pending entry and the snapshot run without a suspension.
CallProvider(c) ==
  /\ call[c] = "idle"
  /\ websocket # NoSock
  /\ Cardinality(pending) < MaxPending
  /\ pending' = pending \union {c}
  /\ call' = [call EXCEPT ![c] = "sending"]
  /\ BeginSend(c, <<"request", c>>)
  /\ UNCHANGED <<websocket, removed, open, endpoint, future, interrupt>>

CallRefused(c) ==
  /\ call[c] = "idle"
  /\ websocket = NoSock \/ Cardinality(pending) >= MaxPending
  /\ call' = [call EXCEPT ![c] = "refused"]
  /\ UNCHANGED <<websocket, removed, open, endpoint, delivered, pending, future,
                 interrupt, target, sendQueue, writing>>

\* Cancelling a task cancels the future it awaits, when that is not done yet.
ThrowInto(c, reason) ==
  /\ interrupt' = [interrupt EXCEPT ![c] = reason]
  /\ future' = [future EXCEPT ![c] = IF call[c] = "waiting" /\ @ = "unset"
                                       THEN "cancelled" ELSE @]
  /\ UNCHANGED <<websocket, removed, open, endpoint, delivered, pending, call, target,
                 sendQueue, writing>>

\* wait_for's timer covers the wait for the answer, not the send before it.
TimerFires(c) ==
  /\ call[c] = "waiting" /\ interrupt[c] = "none"
  /\ ThrowInto(c, "timeout")

ClientCancels(c) ==
  /\ call[c] \in {"sending", "waiting"} /\ interrupt[c] # "mcp_client_cancelled"
  /\ ThrowInto(c, "mcp_client_cancelled")

\* Mutation: a timed-out request is dropped without telling the provider.
Interrupted_NoCancel(c) ==
  /\ call[c] \in {"sending", "waiting"} /\ interrupt[c] # "none"
  /\ Finish(c, interrupt[c])
  /\ LeaveLock(c)
  /\ UNCHANGED <<websocket, removed, open, endpoint, delivered, future, interrupt, target>>

\* The task sees the cancellation and tries to send a cancel frame to the
\* websocket of this moment, keeping its pending entry until that is over.
Interrupted(c) ==
  /\ call[c] \in {"sending", "waiting"} /\ interrupt[c] # "none"
  /\ IF websocket = NoSock
       THEN /\ Finish(c, interrupt[c])
            /\ LeaveLock(c)
            /\ UNCHANGED <<delivered, target>>
       ELSE /\ call' = [call EXCEPT ![c] = "cancelling"]
            /\ BeginSend(c, <<"cancel", c>>)
            /\ UNCHANGED pending
  /\ UNCHANGED <<websocket, removed, open, endpoint, future, interrupt>>

\* A cancelled scope cancels again: the cancel frame is given up.
CancelAbandoned(c) ==
  /\ call[c] = "cancelling"
  /\ Finish(c, "mcp_client_cancelled")
  /\ LeaveLock(c)
  /\ UNCHANGED <<websocket, removed, open, endpoint, delivered, future, interrupt, target>>

\* Mutation: a future someone cancelled is taken for an outcome of the request.
Wake_Cancelled(c) ==
  /\ call[c] = "waiting" /\ future[c] # "unset"
  /\ call' = [call EXCEPT ![c] = IF future[c] = "result" THEN "returned" ELSE future[c]]
  /\ pending' = pending \ {c}
  /\ UNCHANGED <<websocket, removed, open, endpoint, delivered, future, interrupt,
                 target, sendQueue, writing>>

\* The future is done and nothing interrupted the task before it woke up.
Wake(c) ==
  /\ call[c] = "waiting" /\ interrupt[c] = "none" /\ future[c] # "unset"
  /\ Finish(c, Verdict(c))
  /\ UNCHANGED <<websocket, removed, open, endpoint, delivered, future, interrupt,
                 target, sendQueue, writing>>

-----------------------------------------------------------------------------
(* The provider endpoint, attach, detach and close *)

\* Mutation: the requests of the replaced provider stay open.
Attach_KeepsPending(s) ==
  /\ endpoint[s] = "new"
  /\ websocket' = s
  /\ open' = open \ {websocket}
  /\ endpoint' = [endpoint EXCEPT ![s] = "attached"]
  /\ UNCHANGED <<removed, delivered, pending, future, call, interrupt, target, sendQueue,
                 writing>>

\* An accepted socket becomes current.  A replaced one is closed and its requests
\* fail; the closing handshake and the list_changed notifications are awaited.
Attach(s) ==
  /\ endpoint[s] = "new"
  /\ websocket' = s
  /\ IF websocket # NoSock
       THEN /\ FailPending("replaced")
            /\ open' = open \ {websocket}
            /\ endpoint' = [endpoint EXCEPT ![s] = "attaching"]
       ELSE /\ endpoint' = [endpoint EXCEPT ![s] = "attached"]
            /\ UNCHANGED <<open, pending, future>>
  /\ UNCHANGED <<removed, delivered, call, interrupt, target, sendQueue, writing>>

AttachSettles(s) ==
  /\ endpoint[s] = "attaching"
  /\ endpoint' = [endpoint EXCEPT ![s] = "attached"]
  /\ UNCHANGED <<websocket, removed, open, delivered, pending, future, call, interrupt,
                 target, sendQueue, writing>>

\* registry.provider_connected is false for a removed channel; otherwise hello.ack
\* goes to whatever websocket is current by now.
Greet(s) ==
  /\ endpoint[s] = "attached"
  /\ IF removed \/ websocket = NoSock
       THEN /\ EndpointOver(s)
            /\ open' = open \ {s}
            /\ UNCHANGED <<delivered, target, sendQueue, writing>>
       ELSE /\ endpoint' = [endpoint EXCEPT ![s] = "greeting"]
            /\ BeginSend(s, <<"hello.ack", s>>)
            /\ UNCHANGED <<websocket, open, pending, future>>
  /\ UNCHANGED <<removed, call, interrupt>>

\* A result frame of the current socket.  The provider answers requests it
\* received, perhaps twice, perhaps after the request ended.
HandleResult(s, c) ==
  /\ endpoint[s] = "pumping" /\ websocket = s
  /\ <<"request", c>> \in delivered[s]
  /\ c \in pending /\ future[c] = "unset"
  /\ future' = [future EXCEPT ![c] = "result"]
  /\ UNCHANGED <<websocket, removed, open, endpoint, delivered, pending, call, interrupt,
                 target, sendQueue, writing>>

\* The receive loop ends: the peer left, or a frame came on a superseded socket.
PumpEnds(s) ==
  /\ endpoint[s] = "pumping"
  /\ s \notin open \/ websocket # s
  /\ EndpointOver(s)
  /\ UNCHANGED <<removed, open, delivered, call, interrupt, target, sendQueue, writing>>

\* External: the peer or the network closes the socket.
PeerLeaves(s) ==
  /\ s \in open
  /\ open' = open \ {s}
  /\ UNCHANGED <<websocket, removed, endpoint, delivered, pending, future, call,
                 interrupt, target, sendQueue, writing>>

\* registry.remove_channel, or close_all at shutdown.
Close ==
  /\ ~removed
  /\ removed' = TRUE
  /\ websocket' = NoSock
  /\ FailPending("offline")
  /\ open' = open \ {websocket}
  /\ UNCHANGED <<endpoint, delivered, call, interrupt, target, sendQueue, writing>>

-----------------------------------------------------------------------------
SenderStep(p) == SendWake(p) \/ SendReturns(p) \/ SendFails(p)

CallStep(c) == Interrupted(c) \/ Wake(c)

CallEvent(c) == CallProvider(c) \/ CallRefused(c) \/ ClientCancels(c) \/ CancelAbandoned(c)

EndpointStep(s) == AttachSettles(s) \/ Greet(s) \/ PumpEnds(s)

EndpointEvent(s) == Attach(s) \/ PeerLeaves(s)

Next ==
  \/ \E p \in Sender : SenderStep(p)
  \/ \E c \in Call : CallStep(c) \/ CallEvent(c) \/ TimerFires(c)
  \/ \E s \in Sock : EndpointStep(s) \/ EndpointEvent(s)
  \/ \E s \in Sock, c \in Call : HandleResult(s, c)
  \/ Close

Spec == Init /\ [][Next]_vars

\* The event loop runs every ready task, a set timer fires, and a write to a closed
\* socket raises.  A write to an open one returns once the peer has read enough of what
\* was written before, and nothing obliges it to; nor to answer, or to stay.  Nor must
\* the close and the notifications that attach awaits end (channel.py:124-128).
\* The loop is taken to get back to reading; ProviderPump shows what can hold it up.
Fairness ==
  /\ \A p \in Sender : WF_vars(SendWake(p) \/ SendFails(p))
  /\ \A c \in Call : WF_vars(CallStep(c)) /\ WF_vars(TimerFires(c))
  /\ \A s \in Sock : WF_vars(Greet(s) \/ PumpEnds(s))

FairSpec == Spec /\ Fairness

-----------------------------------------------------------------------------
(* Properties *)

\* Every pending request is with the websocket that serves the channel now, so
\* an offline channel has none and a replaced provider can settle none.
PendingIsWithCurrent ==
  \A c \in pending : websocket # NoSock /\ target[c] = websocket

\* A slot is held by a live task only, and the limit counts the slots still held
\* by tasks that are busy sending their cancel.
SlotsBounded ==
  /\ Cardinality(pending) <= MaxPending
  /\ \A c \in pending : call[c] \in Suspended

\* A task that waits for its future can still be reached: its request is pending,
\* so the next result, replacement or disconnection settles it.
NoStrandedWait ==
  \A c \in Call : call[c] = "waiting" /\ future[c] = "unset" => c \in pending

\* A provider is only handed a request that is still pending with it: nobody runs
\* a tool call whose client has already been told that the provider was lost.
NoOrphanRequest ==
  [][\A s \in Sock, c \in Call :
       <<"request", c>> \in delivered'[s] \ delivered[s] => c \in pending' /\ websocket = s]_vars

\* The endpoint of a superseded socket ends without touching the channel that
\* another socket serves, or that waits for its next provider.
SupersededIsHarmless ==
  [][\A s \in Sock : endpoint[s] # "gone" /\ endpoint'[s] = "gone" /\ websocket # s
       => /\ websocket' = websocket
          /\ future' = future
          /\ pending' = pending]_vars

\* A provider that still serves the channel and has been given a request which
\* then timed out has been told so, unless its socket is closed.
TimeoutIsCancelled ==
  \A c \in Call, s \in Sock :
    /\ call[c] = "timeout" /\ websocket = s /\ s \in open
    /\ <<"request", c>> \in delivered[s]
    => <<"cancel", c>> \in delivered[s]

\* The channel implements the service its requests rely on.
RequestStatus(c) ==
  CASE call[c] \in {"idle"} \union Finished                        -> call[c]
    [] call[c] \in Suspended /\ interrupt[c] # "none"              -> "leaving"
    [] call[c] \in Suspended /\ interrupt[c] = "none" ->
         CASE future[c] = "unset"     -> "open"
           [] future[c] = "result"    -> "answered"
           [] future[c] \in Failures  -> "lost"

Service == INSTANCE CallService WITH
             provider <- websocket, status <- [c \in Call |-> RequestStatus(c)]

ImplementsService == Service!Spec

\* Every relayed request ends, answered or not: what the documentation promises of one
\* that is not answered within the tool timeout.  A provider that stays connected and
\* reads nothing breaks it: the timer starts after the send (channel.py:453-454).
CallsEnd == \A c \in Call : (call[c] \in Suspended) ~> (call[c] \in Finished)

\* p holds the send lock in a write to a provider that is connected and does not read.
Unread(p) == Writes(p) /\ target[p] \in open

\* Every relayed request ends, answered or not, unless one write to a connected provider
\* never returns: only that can hold the send lock for ever, whoever is cancelled, times
\* out or gives up while it writes or waits.
CallsEndUnlessUnread ==
  \A c \in Call : (call[c] \in Suspended)
    ~> (call[c] \in Finished \/ \E p \in Sender : []Unread(p))

\* A serving socket that died is noticed and the channel goes offline or is served by
\* another one, so nobody stays pending on it, unless its attach never ends.
LossIsNoticed ==
  \A s \in Sock :
    (websocket = s /\ s \notin open) ~> (websocket # s \/ [](endpoint[s] = "attaching"))
=============================================================================
