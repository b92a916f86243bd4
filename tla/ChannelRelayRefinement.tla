------------------------ MODULE ChannelRelayRefinement ------------------------
(***************************************************************************)
(* ChannelRelay implements CallService, for any number of providers and    *)
(* requests: RequestStatus maps the state of a request's task, future and  *)
(* interruption to the one status its client can tell.                     *)
(***************************************************************************)
EXTENDS ChannelRelayProofs

\* The status a task, an interruption and a future stand for.
StatusOf(task, thrown, outcome) ==
  IF task \notin Suspended THEN task
  ELSE IF thrown # "none" THEN "leaving"
  ELSE IF outcome = "unset" THEN "open"
  ELSE IF outcome = "result" THEN "answered"
  ELSE "lost"

\* Nothing has happened yet to a request that was not made.
IdleIsClean ==
  \A c \in Call : call[c] = "idle" => interrupt[c] = "none" /\ future[c] = "unset"

RefInv == RelayInv /\ IdleIsClean

StatusIsMapped ==
  \A c \in Call : RequestStatus(c) = StatusOf(call[c], interrupt[c], future[c])

\* The refinement mapping reads a request's status from call, interrupt and future.
LEMMA StatusIs == TypeInv => StatusIsMapped
<1> SUFFICES ASSUME TypeInv, NEW c \in Call
             PROVE  RequestStatus(c) = StatusOf(call[c], interrupt[c], future[c])
  BY DEF StatusIsMapped
<1>1. call[c] \in CallState /\ interrupt[c] \in {"none"} \union Reasons /\ future[c] \in FutureState
  BY DEF TypeInv, TypeOK, CallState, FutureState
<1>2. interrupt[c] = "none" => future[c] # "cancelled"
  BY DEF TypeInv, InterruptKnown
<1>3. call[c] \in {"idle"} \union Finished <=> call[c] \notin Suspended
  BY <1>1 DEF CallState, Suspended, Finished, Reasons
<1>4. CASE call[c] \notin Suspended
  BY <1>3, <1>4 DEF RequestStatus, StatusOf
<1>5. CASE call[c] \in Suspended /\ interrupt[c] # "none"
  BY <1>3, <1>5 DEF RequestStatus, StatusOf
<1>6. CASE call[c] \in Suspended /\ interrupt[c] = "none"
  <2>1. RequestStatus(c) = CASE future[c] = "unset"     -> "open"
                             [] future[c] = "result"    -> "answered"
                             [] future[c] \in Failures  -> "lost"
    BY <1>3, <1>6 DEF RequestStatus
  <2>2. future[c] \in {"unset", "result"} \union Failures
    BY <1>1, <1>2, <1>6 DEF FutureState
  <2> QED BY <1>6, <2>1, <2>2 DEF StatusOf, Failures
<1> QED BY <1>4, <1>5, <1>6

\* The same after a step.
LEMMA StatusIsNext == TypeInv' => StatusIsMapped'
BY StatusIs, PTL

\* The abstract state is unchanged when no status and no provider changes.
LEMMA Stutters ==
  ASSUME TypeInv, TypeInv', UNCHANGED websocket,
         \A c \in Call : StatusOf(call'[c], interrupt'[c], future'[c])
                           = StatusOf(call[c], interrupt[c], future[c])
  PROVE  UNCHANGED Service!vars
<1>1. \A c \in Call : RequestStatus(c)' = RequestStatus(c)
  BY StatusIs, StatusIsNext DEF StatusIsMapped
<1> QED BY <1>1 DEF Service!vars

\* One request moves on.
LEMMA Progresses ==
  ASSUME TypeInv, TypeInv', UNCHANGED websocket, NEW c \in Call,
         \A d \in Call : d # c => /\ call'[d] = call[d]
                                 /\ interrupt'[d] = interrupt[d]
                                 /\ future'[d] = future[d],
         NEW to, to = StatusOf(call'[c], interrupt'[c], future'[c]),
         Service!Follows(StatusOf(call[c], interrupt[c], future[c]), to),
         to \in Service!Status
  PROVE  Service!Next
<1> DEFINE status == [d \in Call |-> RequestStatus(d)]
<1>1. /\ \A d \in Call : RequestStatus(d) = StatusOf(call[d], interrupt[d], future[d])
      /\ \A d \in Call : RequestStatus(d)' = StatusOf(call'[d], interrupt'[d], future'[d])
  BY StatusIs, StatusIsNext DEF StatusIsMapped
<1>2. RequestStatus(c)' = to
  BY <1>1
<1>3. \A d \in Call : d # c => RequestStatus(d)' = RequestStatus(d)
  BY <1>1
<1>4. Service!Follows(status[c], to)
  BY <1>1
<1>5. status' = [status EXCEPT ![c] = to]
  BY <1>2, <1>3
<1>6. Service!Progress(c, to)
  BY <1>4, <1>5 DEF Service!Progress
<1> QED BY <1>6 DEF Service!Next

\* The provider changes, and with it every open request is lost.
LEMMA Switches ==
  ASSUME TypeInv, TypeInv', websocket' \in Sock \union {NoSock}, websocket' # websocket,
         \A c \in Call : StatusOf(call'[c], interrupt'[c], future'[c])
                          = IF StatusOf(call[c], interrupt[c], future[c]) = "open" THEN "lost"
                            ELSE StatusOf(call[c], interrupt[c], future[c])
  PROVE  Service!Next
<1> DEFINE status == [d \in Call |-> RequestStatus(d)]
<1>1. /\ \A d \in Call : RequestStatus(d) = StatusOf(call[d], interrupt[d], future[d])
      /\ \A d \in Call : RequestStatus(d)' = StatusOf(call'[d], interrupt'[d], future'[d])
  BY StatusIs, StatusIsNext DEF StatusIsMapped
<1>2. \A c \in Call : RequestStatus(c)' = IF RequestStatus(c) = "open" THEN "lost"
                                          ELSE RequestStatus(c)
  BY <1>1
<1>3. status' = [c \in Call |-> IF status[c] = "open" THEN "lost" ELSE status[c]]
  BY <1>2
<1>4. Service!Switch(websocket')
  BY <1>3 DEF Service!Switch
<1> QED BY <1>4 DEF Service!Next

\* The provider changes and every pending future is failed.
LEMMA FailsAndSwitches ==
  ASSUME RelayInv, TypeInv', NEW error \in Failures, FailPending(error),
         UNCHANGED <<call, interrupt>>,
         websocket' \in Sock \union {NoSock}, websocket' # websocket
  PROVE  Service!Next
<1>1. \A c \in Call : future'[c] = IF c \in pending /\ future[c] = "unset" THEN error
                                   ELSE future[c]
  BY FailPendingType DEF RelayInv
<1>2. \A c \in Call : c \in pending \/ future[c] # "unset" \/ call[c] \notin {"sending", "waiting"}
  BY DEF RelayInv, PendingInv, Tracked
<1>3. \A c \in Call : call[c] = "cancelling" => interrupt[c] # "none"
  BY DEF RelayInv, TypeInv, InterruptKnown
<1>4. ASSUME NEW c \in Call
      PROVE  StatusOf(call'[c], interrupt'[c], future'[c])
               = IF StatusOf(call[c], interrupt[c], future[c]) = "open" THEN "lost"
                 ELSE StatusOf(call[c], interrupt[c], future[c])
  <2>1. call[c] \in CallState
    BY DEF RelayInv, TypeInv, TypeOK, CallState
  <2>2. call[c] # "open"
    BY <2>1 DEF CallState, Suspended, Finished, Reasons
  <2> QED BY <1>1, <1>2, <1>3, <2>2 DEF StatusOf, Suspended, Failures
<1> QED BY <1>4, Switches DEF RelayInv

\* An endpoint that ends switches the provider off, or changes nothing.
LEMMA EndpointEnds ==
  ASSUME RelayInv, TypeInv', NEW s \in Sock, EndpointOver(s), UNCHANGED <<call, interrupt>>
  PROVE  Service!Next \/ UNCHANGED Service!vars
<1>1. CASE websocket = s
  <2>1. websocket' = NoSock /\ FailPending("offline") /\ "offline" \in Failures
    BY <1>1 DEF EndpointOver, Failures
  <2> QED BY <1>1, <2>1, FailsAndSwitches, RelayAssumption
<1>2. CASE websocket # s
  BY <1>2, Stutters DEF EndpointOver, RelayInv
<1> QED BY <1>1, <1>2

-----------------------------------------------------------------------------
(* Each step of the channel is a step of the service, or none *)

Maps == Service!Next \/ UNCHANGED Service!vars

\* A request that finishes as its abstract status allows maps to a step of CallService.
LEMMA FinishMaps ==
  ASSUME RelayInv, TypeInv', NEW c \in Call, NEW how, Finish(c, how),
         how \in Finished, UNCHANGED <<websocket, interrupt, future>>,
         Service!Follows(StatusOf(call[c], interrupt[c], future[c]), how)
  PROVE  Maps
<1>1. call' = [call EXCEPT ![c] = how] /\ call \in [Call -> CallState]
  BY DEF Finish, RelayInv, TypeInv, TypeOK, CallState
<1>2. how \notin Suspended /\ how \in Service!Status
  BY DEF Finished, Reasons, Suspended, Service!Status, Service!Ended
<1>3. StatusOf(call'[c], interrupt'[c], future'[c]) = how
  BY <1>1, <1>2 DEF StatusOf
<1>4. \A d \in Call : d # c => call'[d] = call[d]
  BY <1>1
<1>5. Service!Next
  BY <1>2, <1>3, <1>4, Progresses DEF RelayInv
<1> QED BY <1>5 DEF Maps

\* The steps of send_to_provider map to steps of CallService or to stutters.
LEMMA SenderMaps ==
  ASSUME RelayInv, TypeInv', NEW p \in Sender, SenderStep(p) PROVE Maps
<1>0. /\ TypeInv /\ call \in [Call -> CallState]
      /\ p \in Call => interrupt[p] \in {"none"} \union Reasons /\ future[p] \in FutureState
  BY DEF RelayInv, TypeInv, TypeOK, CallState, FutureState
<1>1. CASE SendWake(p)
  BY <1>0, <1>1, Stutters DEF SendWake, Maps
<1>2. CASE SendReturns(p)
  <2>1. Uninterrupted(p) /\ UNCHANGED <<websocket, future, interrupt>>
    BY <1>2 DEF SendReturns
  <2>2. CASE /\ p \in Call /\ call[p] = "sending" /\ future[p] = "unset"
             /\ call' = [call EXCEPT ![p] = "waiting"]
    <3>1. \A c \in Call : call'[c] = IF c = p THEN "waiting" ELSE call[c]
      BY <1>0, <2>2
    <3>2. \A c \in Call : StatusOf(call'[c], interrupt'[c], future'[c])
                           = StatusOf(call[c], interrupt[c], future[c])
      BY <2>1, <2>2, <3>1 DEF StatusOf, Suspended
    <3> QED BY <1>0, <2>1, <3>2, Stutters DEF Maps
  <2>3. CASE /\ p \in Call /\ call[p] = "sending" /\ future[p] # "unset"
             /\ Finish(p, Verdict(p))
    <3>1. interrupt[p] = "none" /\ Verdict(p) \in Finished
      BY <1>0, <2>1, <2>3, VerdictType DEF Uninterrupted
    <3>2. future[p] \in {"result", "offline", "replaced"}
      BY <1>0, <2>3, <3>1 DEF FutureState, Failures, RelayInv, TypeInv, InterruptKnown
    <3>3. Service!Follows(StatusOf(call[p], interrupt[p], future[p]), Verdict(p))
      BY <2>3, <3>1, <3>2 DEF StatusOf, Suspended, Verdict, Service!Follows
    <3> QED BY <2>1, <2>3, <3>1, <3>3, FinishMaps
  <2>4. CASE /\ p \in Call /\ call[p] = "cancelling" /\ Finish(p, interrupt[p])
    <3>1. interrupt[p] \in Reasons
      BY <1>0, <2>4 DEF RelayInv, TypeInv, InterruptKnown
    <3>2. Service!Follows(StatusOf(call[p], interrupt[p], future[p]), interrupt[p])
      BY <2>4, <3>1 DEF StatusOf, Suspended, Reasons, Service!Follows
    <3> QED BY <2>1, <2>4, <3>1, <3>2, FinishMaps DEF Finished
  <2>5. CASE p \in Sock /\ UNCHANGED call
    BY <1>0, <2>1, <2>5, Stutters DEF Maps
  <2> QED BY <1>2, <2>2, <2>3, <2>4, <2>5 DEF SendReturns
<1>3. CASE SendFails(p)
  <2>1. Uninterrupted(p) /\ UNCHANGED interrupt
    BY <1>3 DEF SendFails
  <2>2. CASE /\ p \in Call /\ call[p] = "sending" /\ Finish(p, "offline")
             /\ UNCHANGED <<websocket, future>>
    <3>1. interrupt[p] = "none"
      BY <2>1, <2>2 DEF Uninterrupted
    <3>2. Service!Follows(StatusOf(call[p], interrupt[p], future[p]), "offline")
      BY <2>2, <3>1 DEF StatusOf, Suspended, Service!Follows
    <3> QED BY <2>1, <2>2, <3>2, FinishMaps DEF Finished
  <2>3. CASE /\ p \in Call /\ call[p] = "cancelling" /\ Finish(p, interrupt[p])
             /\ UNCHANGED <<websocket, future>>
    <3>1. interrupt[p] \in Reasons
      BY <1>0, <2>3 DEF RelayInv, TypeInv, InterruptKnown
    <3>2. Service!Follows(StatusOf(call[p], interrupt[p], future[p]), interrupt[p])
      BY <2>3, <3>1 DEF StatusOf, Suspended, Reasons, Service!Follows
    <3> QED BY <2>1, <2>3, <3>1, <3>2, FinishMaps DEF Finished
  <2>4. CASE p \in Sock /\ EndpointOver(p) /\ UNCHANGED call
    BY <2>1, <2>4, EndpointEnds DEF Maps
  <2> QED BY <1>3, <2>2, <2>3, <2>4 DEF SendFails
<1> QED BY <1>1, <1>2, <1>3 DEF SenderStep

\* The steps of one _call_provider and of its timer and client map likewise.
LEMMA RequestMaps ==
  ASSUME RefInv, TypeInv', NEW c \in Call, CallStep(c) \/ CallEvent(c) \/ TimerFires(c)
  PROVE  Maps
<1>0. /\ RelayInv /\ TypeInv /\ call \in [Call -> CallState]
      /\ interrupt[c] \in {"none"} \union Reasons /\ future[c] \in FutureState
      /\ interrupt \in [Call -> {"none"} \union Reasons]
      /\ future \in [Call -> FutureState]
  BY DEF RefInv, RelayInv, TypeInv, TypeOK, CallState, FutureState
<1>1. CASE CallProvider(c)
  <2>1. /\ call[c] = "idle" /\ websocket # NoSock
        /\ call' = [call EXCEPT ![c] = "sending"]
        /\ UNCHANGED <<websocket, future, interrupt>>
    BY <1>1 DEF CallProvider
  <2>2. interrupt[c] = "none" /\ future[c] = "unset"
    BY <2>1 DEF RefInv, IdleIsClean
  <2>3. /\ StatusOf(call[c], interrupt[c], future[c]) = "idle"
        /\ StatusOf(call'[c], interrupt'[c], future'[c]) = "open"
    BY <1>0, <2>1, <2>2 DEF StatusOf, Suspended
  <2>4. Service!Follows("idle", "open") /\ "open" \in Service!Status
    BY <2>1 DEF Service!Follows, Service!Status, Service!Undecided
  <2>5. Service!Next
    BY <1>0, <2>1, <2>3, <2>4, Progresses
  <2> QED BY <2>5 DEF Maps
<1>2. CASE CallRefused(c)
  <2>1. /\ call[c] = "idle" /\ call' = [call EXCEPT ![c] = "refused"]
        /\ UNCHANGED <<websocket, future, interrupt>>
    BY <1>2 DEF CallRefused
  <2>2. /\ StatusOf(call[c], interrupt[c], future[c]) = "idle"
        /\ StatusOf(call'[c], interrupt'[c], future'[c]) = "refused"
    BY <1>0, <2>1 DEF StatusOf, Suspended
  <2>3. Service!Follows("idle", "refused") /\ "refused" \in Service!Status
    BY DEF Service!Follows, Service!Status, Service!Ended
  <2>4. Service!Next
    BY <1>0, <2>1, <2>2, <2>3, Progresses
  <2> QED BY <2>4 DEF Maps
<1>3. ASSUME NEW reason \in Reasons, ThrowInto(c, reason), call[c] \in {"sending", "waiting"}
      PROVE  Maps
  <2>1. /\ UNCHANGED <<websocket, call>>
        /\ \A d \in Call : d # c => interrupt'[d] = interrupt[d] /\ future'[d] = future[d]
        /\ interrupt'[c] = reason /\ reason # "none"
    BY <1>0, <1>3 DEF ThrowInto, Reasons
  <2>2. StatusOf(call'[c], interrupt'[c], future'[c]) = "leaving"
    BY <1>3, <2>1 DEF StatusOf, Suspended
  <2>3. CASE interrupt[c] # "none"
    <3>1. StatusOf(call[c], interrupt[c], future[c]) = "leaving"
      BY <1>3, <2>3 DEF StatusOf, Suspended
    <3> QED BY <1>0, <2>1, <2>2, <3>1, Stutters DEF Maps
  <2>4. CASE interrupt[c] = "none"
    <3>1. StatusOf(call[c], interrupt[c], future[c]) \in {"open", "answered", "lost"}
      BY <1>3, <2>4 DEF StatusOf, Suspended
    <3>2. /\ Service!Follows(StatusOf(call[c], interrupt[c], future[c]), "leaving")
          /\ "leaving" \in Service!Status
      BY <3>1 DEF Service!Follows, Service!Status, Service!Decided
    <3>3. Service!Next
      BY <1>0, <2>1, <2>2, <3>2, Progresses
    <3> QED BY <3>3 DEF Maps
  <2> QED BY <2>3, <2>4
<1>4. CASE Interrupted(c)
  <2>1. /\ interrupt[c] \in Reasons /\ call[c] \in Suspended
        /\ UNCHANGED <<websocket, future, interrupt>>
    BY <1>0, <1>4 DEF Interrupted, Suspended
  <2>2. StatusOf(call[c], interrupt[c], future[c]) = "leaving"
    BY <2>1 DEF StatusOf, Reasons
  <2>3. CASE websocket = NoSock
    <3>1. Service!Follows("leaving", interrupt[c])
      BY <2>1 DEF Service!Follows, Reasons
    <3> QED BY <1>0, <1>4, <2>1, <2>2, <2>3, <3>1, FinishMaps DEF Interrupted, Finished
  <2>4. CASE websocket # NoSock
    <3>1. call' = [call EXCEPT ![c] = "cancelling"]
      BY <1>4, <2>4 DEF Interrupted
    <3>2. StatusOf(call'[c], interrupt'[c], future'[c]) = "leaving"
      BY <1>0, <2>1, <3>1 DEF StatusOf, Suspended, Reasons
    <3>3. \A d \in Call : d # c => call'[d] = call[d]
      BY <1>0, <3>1
    <3> QED BY <1>0, <2>1, <2>2, <3>2, <3>3, Stutters DEF Maps
  <2> QED BY <2>3, <2>4
<1>5. CASE CancelAbandoned(c)
  <2>1. /\ call[c] = "cancelling" /\ Finish(c, "mcp_client_cancelled")
        /\ UNCHANGED <<websocket, future, interrupt>>
    BY <1>5 DEF CancelAbandoned
  <2>2. StatusOf(call[c], interrupt[c], future[c]) = "leaving"
    BY <2>1 DEF StatusOf, Suspended, RefInv, RelayInv, TypeInv, InterruptKnown
  <2>3. Service!Follows("leaving", "mcp_client_cancelled")
    BY DEF Service!Follows
  <2> QED BY <1>0, <2>1, <2>2, <2>3, FinishMaps DEF Finished, Reasons
<1>6. CASE Wake(c)
  <2>1. /\ call[c] = "waiting" /\ interrupt[c] = "none" /\ future[c] # "unset"
        /\ Finish(c, Verdict(c)) /\ Verdict(c) \in Finished
        /\ UNCHANGED <<websocket, future, interrupt>>
    BY <1>0, <1>6, VerdictType DEF Wake
  <2>2. future[c] \in {"result", "offline", "replaced"}
    BY <1>0, <2>1 DEF FutureState, Failures, TypeInv, InterruptKnown
  <2>3. Service!Follows(StatusOf(call[c], interrupt[c], future[c]), Verdict(c))
    BY <2>1, <2>2 DEF StatusOf, Suspended, Verdict, Service!Follows
  <2> QED BY <1>0, <2>1, <2>3, FinishMaps
<1>7. CASE ClientCancels(c) \/ TimerFires(c)
  BY <1>3, <1>7 DEF ClientCancels, TimerFires, Reasons
<1> QED BY <1>1, <1>2, <1>4, <1>5, <1>6, <1>7 DEF CallStep, CallEvent

\* The steps of a provider's endpoint map to a change of provider or to a stutter.
LEMMA EndpointMaps ==
  ASSUME RelayInv, TypeInv', NEW s \in Sock, EndpointStep(s) \/ EndpointEvent(s)
  PROVE  Maps
<1>0. TypeInv
  BY DEF RelayInv
<1>1. CASE Attach(s)
  <2>1. websocket' = s /\ websocket # s /\ UNCHANGED <<call, interrupt>>
    BY <1>1, RelayAssumption DEF Attach, RelayInv, PendingInv, StaleSnapshot
  <2>2. CASE websocket # NoSock
    <3>1. FailPending("replaced") /\ "replaced" \in Failures
      BY <1>1, <2>2 DEF Attach, Failures
    <3> QED BY <2>1, <3>1, FailsAndSwitches DEF Maps
  <2>3. CASE websocket = NoSock
    <3>1. pending = {} /\ UNCHANGED future
      BY <1>1, <2>3 DEF Attach, RelayInv, PendingInv, PendingIsWithCurrent
    <3>2. \A c \in Call : StatusOf(call[c], interrupt[c], future[c]) # "open"
      <4>1. \A c \in Call : call[c] # "open"
        BY <1>0 DEF TypeInv, TypeOK, Suspended, Finished, Reasons
      <4> QED BY <3>1, <4>1
              DEF StatusOf, Suspended, RelayInv, PendingInv, Tracked, TypeInv, InterruptKnown
    <3>3. Service!Next
      BY <1>0, <2>1, <3>1, <3>2, Switches
    <3> QED BY <3>3 DEF Maps
  <2> QED BY <2>2, <2>3
<1>2. CASE AttachSettles(s)
  BY <1>0, <1>2, Stutters DEF AttachSettles, Maps
<1>3. CASE Greet(s)
  <2>1. CASE removed \/ websocket = NoSock
    BY <1>3, <2>1, EndpointEnds DEF Greet, Maps
  <2>2. CASE ~(removed \/ websocket = NoSock)
    BY <1>0, <1>3, <2>2, Stutters DEF Greet, Maps
  <2> QED BY <2>1, <2>2
<1>4. CASE PumpEnds(s)
  BY <1>4, EndpointEnds DEF PumpEnds, Maps
<1>5. CASE PeerLeaves(s)
  BY <1>0, <1>5, Stutters DEF PeerLeaves, Maps
<1> QED BY <1>1, <1>2, <1>3, <1>4, <1>5 DEF EndpointStep, EndpointEvent

\* A result sets the status to answered, or comes too late and changes nothing.
LEMMA HandleResultMaps ==
  ASSUME RelayInv, TypeInv', NEW s \in Sock, NEW c \in Call, HandleResult(s, c)
  PROVE  Maps
<1>1. /\ TypeInv /\ websocket # NoSock /\ future[c] = "unset"
      /\ call[c] \in Suspended
      /\ future' = [future EXCEPT ![c] = "result"]
      /\ UNCHANGED <<websocket, call, interrupt>>
  BY RelayAssumption DEF HandleResult, RelayInv, PendingInv, SlotsBounded
<1>2. future'[c] = "result" /\ \A d \in Call : d # c => future'[d] = future[d]
  BY <1>1 DEF TypeInv, TypeOK
<1>3. CASE interrupt[c] = "none"
  <2>1. /\ StatusOf(call[c], interrupt[c], future[c]) = "open"
        /\ StatusOf(call'[c], interrupt'[c], future'[c]) = "answered"
    BY <1>1, <1>2, <1>3 DEF StatusOf
  <2>2. Service!Follows("open", "answered") /\ "answered" \in Service!Status
    BY <1>1 DEF Service!Follows, Service!Status, Service!Decided
  <2>3. Service!Next
    BY <1>1, <1>2, <2>1, <2>2, Progresses
  <2> QED BY <2>3 DEF Maps
<1>4. CASE interrupt[c] # "none"
  BY <1>1, <1>2, <1>4, Stutters DEF StatusOf, Maps
<1> QED BY <1>3, <1>4

\* close maps to the loss of the provider and of every waiting request.
LEMMA CloseMaps ==
  ASSUME RelayInv, TypeInv', Close PROVE Maps
<1>1. /\ FailPending("offline") /\ "offline" \in Failures /\ websocket' = NoSock
      /\ UNCHANGED <<call, interrupt>>
  BY DEF Close, Failures
<1>2. CASE websocket # NoSock
  BY <1>1, <1>2, FailsAndSwitches DEF Maps
<1>3. CASE websocket = NoSock
  <2>1. \A c \in Call : future'[c] = future[c]
    BY <1>1, <1>3, FailPendingType DEF RelayInv, PendingInv, PendingIsWithCurrent
  <2> QED BY <1>1, <1>3, <2>1, Stutters DEF RelayInv, Maps
<1> QED BY <1>2, <1>3

\* A request that has not started has no result and no interruption yet.
LEMMA IdleStaysClean ==
  ASSUME RefInv, [Next]_vars PROVE IdleIsClean'
<1>0. /\ RelayInv /\ IdleIsClean /\ call \in [Call -> CallState]
      /\ future \in [Call -> FutureState] /\ interrupt \in [Call -> {"none"} \union Reasons]
      /\ \A c \in pending : call[c] # "idle"
  BY DEF RefInv, RelayInv, TypeInv, TypeOK, CallState, FutureState, PendingInv, SlotsBounded,
         Suspended
<1>1. ASSUME NEW error, FailPending(error), UNCHANGED <<call, interrupt>> PROVE IdleIsClean'
  BY <1>0, <1>1 DEF IdleIsClean, FailPending
<1>2. ASSUME NEW s \in Sock, EndpointOver(s), UNCHANGED <<call, interrupt>> PROVE IdleIsClean'
  BY <1>0, <1>1, <1>2 DEF EndpointOver, IdleIsClean
<1>3. ASSUME NEW c \in Call, NEW how, Finish(c, how), how # "idle", UNCHANGED <<interrupt, future>>
      PROVE  IdleIsClean'
  BY <1>0, <1>3 DEF Finish, IdleIsClean
<1>4. ASSUME NEW p \in Sender, SenderStep(p) PROVE IdleIsClean'
  <2>1. CASE SendWake(p)
    BY <1>0, <2>1 DEF SendWake, IdleIsClean
  <2>2. CASE SendReturns(p)
    <3>1. p \in Call => Verdict(p) # "idle" /\ interrupt[p] # "idle"
      BY <1>0 DEF Verdict, FutureState, Failures, Reasons
    <3> QED BY <1>0, <1>3, <2>2, <3>1 DEF SendReturns, IdleIsClean
  <2>3. CASE SendFails(p)
    <3>1. p \in Call => interrupt[p] # "idle"
      BY <1>0 DEF Reasons
    <3> QED BY <1>0, <1>2, <1>3, <2>3, <3>1 DEF SendFails
  <2> QED BY <1>4, <2>1, <2>2, <2>3 DEF SenderStep
<1>5. ASSUME NEW c \in Call, CallStep(c) \/ CallEvent(c) \/ TimerFires(c) PROVE IdleIsClean'
  <2>1. Verdict(c) # "idle" /\ interrupt[c] # "idle"
    BY <1>0 DEF Verdict, FutureState, Failures, Reasons
  <2>2. CASE CallProvider(c) \/ CallRefused(c)
    BY <1>0, <2>2 DEF CallProvider, CallRefused, IdleIsClean
  <2>3. CASE Interrupted(c)
    BY <1>0, <1>3, <2>1, <2>3 DEF Interrupted, IdleIsClean
  <2>4. CASE CancelAbandoned(c) \/ Wake(c)
    BY <1>3, <2>1, <2>4 DEF CancelAbandoned, Wake
  <2>5. CASE ClientCancels(c) \/ TimerFires(c)
    BY <1>0, <2>5 DEF ClientCancels, TimerFires, ThrowInto, IdleIsClean
  <2> QED BY <1>5, <2>2, <2>3, <2>4, <2>5 DEF CallStep, CallEvent
<1>6. ASSUME NEW s \in Sock, EndpointStep(s) \/ EndpointEvent(s) PROVE IdleIsClean'
  <2>1. CASE Attach(s)
    BY <1>0, <1>1, <2>1 DEF Attach, IdleIsClean
  <2>2. CASE Greet(s) \/ PumpEnds(s)
    BY <1>0, <1>2, <2>2 DEF Greet, PumpEnds, IdleIsClean
  <2>3. CASE AttachSettles(s) \/ PeerLeaves(s)
    BY <1>0, <2>3 DEF AttachSettles, PeerLeaves, IdleIsClean
  <2> QED BY <1>6, <2>1, <2>2, <2>3 DEF EndpointStep, EndpointEvent
<1>7. ASSUME NEW s \in Sock, NEW c \in Call, HandleResult(s, c) PROVE IdleIsClean'
  BY <1>0, <1>7 DEF HandleResult, IdleIsClean
<1>8. CASE Close
  BY <1>1, <1>8 DEF Close
<1>9. CASE UNCHANGED vars
  BY <1>0, <1>9 DEF vars, IdleIsClean
<1> QED BY <1>4, <1>5, <1>6, <1>7, <1>8, <1>9 DEF Next

\* The refinement's invariant.
THEOREM RefInvHolds == Spec => []RefInv
<1>1. Init => RefInv
  BY RelayInvInitially DEF Init, RefInv, IdleIsClean
<1>2. RefInv /\ [Next]_vars => RefInv'
  BY RelayInvStep, IdleStaysClean DEF RefInv
<1> QED BY <1>1, <1>2, PTL DEF Spec

\* Every step of the relay, with its queue, its timers and its futures, is a step of
\* the service that CallService promises, or changes nothing a client can tell.
THEOREM RelayImplementsService == Spec => ImplementsService
<1>1. Init => Service!Init
  <2> SUFFICES ASSUME Init PROVE Service!Init
    OBVIOUS
  <2>1. \A c \in Call : RequestStatus(c) = "idle"
    <3>1. StatusIsMapped
      BY TypeInvInitially, StatusIs
    <3> QED BY <3>1 DEF Init, StatusIsMapped, StatusOf, Suspended
  <2> QED BY <2>1 DEF Init, Service!Init
<1>2. RefInv /\ RefInv' /\ [Next]_vars => [Service!Next]_(Service!vars)
  <2> SUFFICES ASSUME RefInv, RefInv', [Next]_vars PROVE Maps
    BY DEF Maps
  <2>0. RelayInv /\ TypeInv /\ TypeInv'
    BY DEF RefInv, RelayInv
  <2>1. CASE UNCHANGED vars
    BY <2>0, <2>1, Stutters DEF vars, Maps
  <2>2. CASE Next
    BY <2>0, <2>2, SenderMaps, RequestMaps, EndpointMaps, HandleResultMaps, CloseMaps DEF Next
  <2> QED BY <2>1, <2>2
<1> QED BY <1>1, <1>2, RefInvHolds, PTL DEF Spec, ImplementsService, Service!Spec
=============================================================================
