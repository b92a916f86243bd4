---------------------------- MODULE Subscriptions ----------------------------
(***************************************************************************)
(* Client state a channel keeps for MCP sessions (channel.py): the         *)
(* least-recently-used map of sessions, their log levels, and the resource *)
(* subscriptions, which outlive a provider and are replayed to the next.   *)
(*                                                                         *)
(* subscribe reserves its place, asks the provider and rolls back if that  *)
(* fails; unsubscribe asks first.  Between the two the session may be      *)
(* evicted, the provider replaced, the channel closed.  The set a          *)
(* subscribe put its session in may have been deleted and replaced by      *)
(* another one for the same uri: its rollback then has a stale reference.  *)
(*                                                                         *)
(* The provider call itself is ChannelRelay's: here it succeeds, having    *)
(* been processed by the provider, or fails, processed or not.             *)
(***************************************************************************)
EXTENDS Naturals, FiniteSets, Sequences, SequencesExt

CONSTANTS
  Session,       \* MCP sessions
  Uri,           \* resource uris
  Sock,          \* provider connections, each attached at most once
  None,          \* no provider
  MaxSessions,   \* settings.maximum_mcp_sessions_per_channel
  MaxUris,       \* settings.maximum_subscriptions_per_channel
  MaxInFlight    \* bound of the model: subscribe and unsubscribe requests at once

ASSUME SubscriptionsAssumption ==
  /\ MaxSessions \in Nat \ {0} /\ MaxUris \in Nat \ {0}
  /\ MaxInFlight \in Nat \ {0}
  /\ None \notin Sock

VARIABLES
  sessions,      \* _mcp_sessions, oldest first
  levels,        \* sessions with an entry in _log_levels
  subscribers,   \* _subscriptions: Uri -> sessions, {} when the uri has no entry
  op,            \* the request each session has in flight for each uri
  doomed,        \* <<session, uri>> whose request lost its provider
  websocket,     \* Channel._websocket
  endpoint,      \* where each provider endpoint stands
  replay,        \* uris an endpoint's resync_subscriptions has still to send
  watch,         \* uris the serving provider was asked to watch
  unwatched,     \* uris it was asked to stop watching since
  closed         \* the channel was removed

clientVars   == <<sessions, levels, subscribers, op, doomed>>
providerVars == <<websocket, endpoint, replay, watch, unwatched>>
vars         == <<clientVars, providerVars, closed>>

\* "subscribing" holds the set that is in the map, "detached" one that no longer is.
Reserved == {"subscribing", "detached"}

TypeOK ==
  /\ sessions \in Seq(Session) /\ Len(sessions) <= MaxSessions
  /\ levels \in SUBSET Session
  /\ subscribers \in [Uri -> SUBSET Session]
  /\ op \in [Session -> [Uri -> {"none", "unsubscribing"} \union Reserved]]
  /\ doomed \in SUBSET (Session \X Uri)
  /\ websocket \in Sock \union {None}
  /\ endpoint \in [Sock -> {"new", "attached", "replaying", "serving", "gone"}]
  /\ replay \in [Sock -> SUBSET Uri]
  /\ watch \in SUBSET Uri
  /\ unwatched \in SUBSET Uri
  /\ closed \in BOOLEAN

Init ==
  /\ sessions = <<>>
  /\ levels = {}
  /\ subscribers = [u \in Uri |-> {}]
  /\ op = [x \in Session |-> [u \in Uri |-> "none"]]
  /\ doomed = {}
  /\ websocket = None
  /\ endpoint = [s \in Sock |-> "new"]
  /\ replay = [s \in Sock |-> {}]
  /\ watch = {}
  /\ unwatched = {}
  /\ closed = FALSE

-----------------------------------------------------------------------------
(* Sessions *)

Live       == ToSet(sessions)
Subscribed == {u \in Uri : subscribers[u] # {}}

\* Deleting a uri's entry leaves the requests that hold its set with a stale reference.
Detach(kept) ==
  [x \in Session |-> [u \in Uri |->
     IF kept[u] = {} /\ op[x][u] = "subscribing" THEN "detached" ELSE op[x][u]]]

\* Mutation: eviction forgets the log level but not the subscriptions.
Forget_KeepsSubscriptions(gone) == subscribers

\* _forget_session: the subscriptions that are left.
Forget(gone) == [u \in Uri |-> subscribers[u] \ gone]

\* The dict of sessions without x.
Without(x) ==
  LET at == {i \in DOMAIN sessions : sessions[i] = x}
  IN  IF at = {} THEN sessions ELSE RemoveAt(sessions, CHOOSE i \in at : TRUE)

\* Mutation: the limit is checked before the session is added.
Remembered_LateLimit(x) ==
  LET order == Without(x)
  IN  Append(IF Len(order) > MaxSessions THEN Tail(order) ELSE order, x)

\* remember_mcp_session re-inserts at the recent end and evicts from the old end.
Remembered(x) ==
  LET order == Append(Without(x), x)
  IN  IF Len(order) > MaxSessions THEN Tail(order) ELSE order

\* Every handler begins by remembering its session (context in gateway.py): the
\* sessions it evicts are forgotten in the same step.
Evicted(x) == Live \ ToSet(Remembered(x))

\* A request that only uses the session, or sets its log level.
Touch(x, setsLevel) ==
  /\ ~closed
  /\ sessions' = Remembered(x)
  /\ levels' = (levels \ Evicted(x)) \union (IF setsLevel THEN {x} ELSE {})
  /\ subscribers' = Forget(Evicted(x))
  /\ op' = Detach(subscribers')
  /\ UNCHANGED <<doomed, providerVars, closed>>

\* A notification to a dead session raised: _notify and _relay_log drop it.
DropDead(x) ==
  /\ x \in Live
  /\ sessions' = Without(x)
  /\ levels' = levels \ {x}
  /\ subscribers' = Forget({x})
  /\ op' = Detach(subscribers')
  /\ UNCHANGED <<doomed, providerVars, closed>>

-----------------------------------------------------------------------------
(* subscribe and unsubscribe *)

InFlight == {t \in Session \X Uri : op[t[1]][t[2]] # "none"}

\* The client keeps one request per uri in flight.
MayAsk(x, u) == op[x][u] = "none" /\ Cardinality(InFlight) < MaxInFlight

\* Mutation: the uri that is about to be added is not counted.
HasRoom_OffByOne(kept, u) ==
  kept[u] # {} \/ Cardinality({v \in Uri : kept[v] # {}}) <= MaxUris

HasRoom(kept, u) == kept[u] # {} \/ Cardinality({v \in Uri : kept[v] # {}}) < MaxUris

\* The limit is checked and the place reserved in the step that remembers the session
\* and sends the request; an offline provider fails it within that step, which rolls
\* the reservation back.
Subscribe(x, u) ==
  LET kept == Forget(Evicted(x)) IN
  /\ ~closed
  /\ MayAsk(x, u)
  /\ HasRoom(kept, u)
  /\ sessions' = Remembered(x)
  /\ levels' = levels \ Evicted(x)
  /\ IF websocket = None
       THEN /\ subscribers' = [kept EXCEPT ![u] = @ \ {x}]
            /\ op' = Detach(subscribers')
       ELSE /\ subscribers' = [kept EXCEPT ![u] = @ \union {x}]
            /\ op' = [Detach(subscribers') EXCEPT ![x][u] = "subscribing"]
  /\ UNCHANGED <<doomed, providerVars, closed>>

SubscribeRefused(x, u) ==
  LET kept == Forget(Evicted(x)) IN
  /\ ~closed
  /\ MayAsk(x, u)
  /\ ~HasRoom(kept, u)
  /\ sessions' = Remembered(x)
  /\ levels' = levels \ Evicted(x)
  /\ subscribers' = kept
  /\ op' = Detach(kept)
  /\ UNCHANGED <<doomed, providerVars, closed>>

SubscribeSucceeds(x, u) ==
  /\ op[x][u] \in Reserved /\ <<x, u>> \notin doomed
  /\ op' = [op EXCEPT ![x][u] = "none"]
  /\ watch' = watch \union {u}
  /\ unwatched' = unwatched \ {u}
  /\ UNCHANGED <<sessions, levels, subscribers, doomed, websocket, endpoint, replay, closed>>

\* The provider may have processed a request whose answer was an error, late or lost.
MaybeProcessed(u, watched) ==
  \/ UNCHANGED <<watch, unwatched>>
  \/ websocket # None /\ watch' = watched /\ unwatched' = unwatched \union ({u} \ watched)

\* Mutation: the rollback empties the uri's entry without comparing the set.
Rollback_AnySet(x, u) ==
  LET mine == IF op[x][u] = "subscribing" THEN subscribers[u] \ {x} ELSE {}
  IN  IF mine = {} THEN [subscribers EXCEPT ![u] = {}]
                   ELSE [subscribers EXCEPT ![u] = mine]

\* discard from the set this request holds, which only matters if it is in the map.
Rollback(x, u) ==
  IF op[x][u] = "subscribing" THEN [subscribers EXCEPT ![u] = @ \ {x}] ELSE subscribers

SubscribeFails(x, u) ==
  /\ op[x][u] \in Reserved
  /\ subscribers' = Rollback(x, u)
  /\ op' = [Detach(subscribers') EXCEPT ![x][u] = "none"]
  /\ doomed' = doomed \ {<<x, u>>}
  /\ IF <<x, u>> \in doomed THEN UNCHANGED <<watch, unwatched>>
                            ELSE MaybeProcessed(u, watch \union {u})
  /\ UNCHANGED <<sessions, levels, websocket, endpoint, replay, closed>>

Unsubscribe(x, u) ==
  /\ ~closed /\ websocket # None
  /\ MayAsk(x, u)
  /\ sessions' = Remembered(x)
  /\ levels' = levels \ Evicted(x)
  /\ subscribers' = Forget(Evicted(x))
  /\ op' = [Detach(subscribers') EXCEPT ![x][u] = "unsubscribing"]
  /\ UNCHANGED <<doomed, providerVars, closed>>

UnsubscribeSucceeds(x, u) ==
  /\ op[x][u] = "unsubscribing" /\ <<x, u>> \notin doomed
  /\ subscribers' = [subscribers EXCEPT ![u] = @ \ {x}]
  /\ op' = [Detach(subscribers') EXCEPT ![x][u] = "none"]
  /\ watch' = watch \ {u}
  /\ unwatched' = unwatched \union {u}
  /\ UNCHANGED <<sessions, levels, doomed, websocket, endpoint, replay, closed>>

UnsubscribeFails(x, u) ==
  /\ op[x][u] = "unsubscribing"
  /\ op' = [op EXCEPT ![x][u] = "none"]
  /\ doomed' = doomed \ {<<x, u>>}
  /\ IF <<x, u>> \in doomed THEN UNCHANGED <<watch, unwatched>>
                            ELSE MaybeProcessed(u, watch \ {u})
  /\ UNCHANGED <<sessions, levels, subscribers, websocket, endpoint, replay, closed>>

-----------------------------------------------------------------------------
(* The provider comes and goes *)

\* Every request in flight fails with the provider it was sent to.
NewProvider(s) ==
  /\ websocket' = s
  /\ doomed' = InFlight
  /\ watch' = {}
  /\ unwatched' = {}

Attach(s) ==
  /\ endpoint[s] = "new"
  /\ endpoint' = [endpoint EXCEPT ![s] = "attached"]
  /\ NewProvider(s)
  /\ UNCHANGED <<sessions, levels, subscribers, op, replay, closed>>

\* Mutation: a uri whose own request is still in flight is left to that request.
Resync_SkipsInFlight(s) ==
  /\ endpoint[s] = "attached"
  /\ endpoint' = [endpoint EXCEPT ![s] = "replaying"]
  /\ replay' = [replay EXCEPT ![s] = {u \in Subscribed : \A x \in Session : op[x][u] = "none"}]
  /\ UNCHANGED <<clientVars, websocket, watch, unwatched, closed>>

\* resync_subscriptions after hello.ack: a snapshot of the subscribed uris.
Resync(s) ==
  /\ endpoint[s] = "attached"
  /\ endpoint' = [endpoint EXCEPT ![s] = "replaying"]
  /\ replay' = [replay EXCEPT ![s] = Subscribed]
  /\ UNCHANGED <<clientVars, websocket, watch, unwatched, closed>>

\* One untracked request per uri, to whichever provider serves the channel by then.
Replay(s, u) ==
  /\ endpoint[s] = "replaying" /\ u \in replay[s]
  /\ websocket # None
  /\ replay' = [replay EXCEPT ![s] = @ \ {u}]
  /\ watch' = watch \union {u}
  /\ unwatched' = unwatched \ {u}
  /\ UNCHANGED <<clientVars, websocket, endpoint, closed>>

Serve(s) ==
  /\ endpoint[s] = "replaying" /\ replay[s] = {}
  /\ endpoint' = [endpoint EXCEPT ![s] = "serving"]
  /\ UNCHANGED <<clientVars, websocket, replay, watch, unwatched, closed>>

\* The socket is lost or superseded; detach leaves the subscriptions alone.
EndpointOver(s) ==
  /\ endpoint[s] \in {"attached", "replaying", "serving"}
  /\ endpoint' = [endpoint EXCEPT ![s] = "gone"]
  /\ replay' = [replay EXCEPT ![s] = {}]
  /\ IF websocket = s THEN NewProvider(None)
                      ELSE UNCHANGED <<websocket, doomed, watch, unwatched>>
  /\ UNCHANGED <<sessions, levels, subscribers, op, closed>>

\* Channel.close after the registry removed the channel.
Close ==
  /\ ~closed
  /\ closed' = TRUE
  /\ sessions' = <<>>
  /\ levels' = {}
  /\ subscribers' = [u \in Uri |-> {}]
  /\ op' = Detach(subscribers')
  /\ NewProvider(None)
  /\ UNCHANGED <<endpoint, replay>>

-----------------------------------------------------------------------------
ClientStep(x, u) ==
  \/ Subscribe(x, u) \/ SubscribeRefused(x, u) \/ SubscribeSucceeds(x, u)
  \/ SubscribeFails(x, u)
  \/ Unsubscribe(x, u) \/ UnsubscribeSucceeds(x, u) \/ UnsubscribeFails(x, u)

Next ==
  \/ \E x \in Session, setsLevel \in BOOLEAN : Touch(x, setsLevel)
  \/ \E x \in Session : DropDead(x)
  \/ \E x \in Session, u \in Uri : ClientStep(x, u)
  \/ \E s \in Sock : Attach(s) \/ Resync(s) \/ Serve(s) \/ EndpointOver(s)
  \/ \E s \in Sock, u \in Uri : Replay(s, u)
  \/ Close

Spec == Init /\ [][Next]_vars

-----------------------------------------------------------------------------
(* Properties *)

\* Nothing is kept of a session the channel forgot: no subscription, no log level, so
\* neither memory nor a later session with the same id() inherits anything.
NothingLeftBehind == levels \union UNION {subscribers[u] : u \in Uri} \subseteq Live

\* At most the configured number of uris has subscribers, reservations included.
UrisBounded == Cardinality(Subscribed) <= MaxUris

\* A session's subscription ends by its own request or with the session itself, never
\* by another session's rollback, unsubscription or eviction, nor by a provider's loss.
NobodyElseUnsubscribes ==
  [][\A x \in Session, u \in Uri :
       x \in subscribers[u] \ subscribers'[u]
         => \/ x \notin ToSet(sessions')
            \/ op[x][u] # op'[x][u]
            \/ websocket = None /\ x = Last(sessions')]_vars

\* Once a provider's replay is over it watches every subscribed uri, but for requests
\* in flight and for uris it was told to stop watching.
ReplayCovers ==
  \A u \in Uri :
    /\ websocket # None /\ endpoint[websocket] = "serving"
    /\ subscribers[u] # {} /\ \A x \in Session : op[x][u] = "none"
    => u \in watch \union unwatched
=============================================================================
