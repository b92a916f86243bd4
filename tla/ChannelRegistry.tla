--------------------------- MODULE ChannelRegistry ---------------------------
(***************************************************************************)
(* The registry of channels (src/src/mcpgtw/registry.py), the reclamation  *)
(* deadlines of TtlExpiryPolicy (expiry.py), the reaper and the provider   *)
(* endpoints (gateway.py) that mark a channel connected and disconnected.  *)
(*                                                                         *)
(* A channel is an object: an endpoint resolves its token to one and keeps *)
(* it across awaits while the registry may remove it, and may register     *)
(* another object under the same id.  The bodies under the registry's lock *)
(* hold no await, so each is one step; what follows it (closing the        *)
(* removed channel's socket, the listeners) is where others interleave.    *)
(*                                                                         *)
(* Time is kept as the time left to each deadline, down to 0 (expired).    *)
(***************************************************************************)
EXTENDS Naturals, FiniteSets

CONSTANTS
  Chan,          \* channel objects, each created at most once
  Id,            \* channel ids
  Token,         \* mcp and provider tokens
  Sock,          \* provider connections
  None,          \* absent: no channel, no id, no socket, no token
  Forever,       \* math.inf as a deadline
  Grace,         \* settings.offline_ttl_seconds
  InitialTtl,    \* the deadlines create_channel may give a new channel
  IdOf,          \* Chan -> Id: the id each channel object is created with
  MaxChannels    \* settings.maximum_channels

ASSUME RegistryAssumption ==
  /\ Grace \in Nat /\ MaxChannels \in Nat
  /\ Forever \notin Nat /\ None \notin Nat /\ None # Forever
  /\ None \notin Chan \union Id \union Token \union Sock
  /\ InitialTtl \subseteq (0..Grace) \union {Forever}
  /\ IdOf \in [Chan -> Id]
  /\ IsFiniteSet(Id)

VARIABLES
  channels,      \* _channels: Id -> the registered channel object, or None
  byMcp,         \* _by_mcp_token: Token -> Id or None
  byProvider,    \* _by_provider_token: Token -> Id or None
  expiry,        \* _expiry: Id -> time left, Forever, or None
  mcpToken,      \* Channel.mcp_token, None before the object exists
  providerToken, \* Channel.provider_token, None before the object exists
  websocket,     \* Channel._websocket
  endpoint,      \* where the endpoint task of each socket stands
  channelOf,     \* the channel object the endpoint holds
  open,          \* sockets that are still connected
  sweep          \* ids purge_expired still has to visit

indexVars == <<channels, byMcp, byProvider, mcpToken, providerToken>>
sockVars  == <<endpoint, channelOf, open>>
vars      == <<indexVars, expiry, websocket, sockVars, sweep>>

Deadline == (0..Grace) \union {Forever}

Registered(ch) == channels[IdOf[ch]] = ch
Ids            == {i \in Id : channels[i] # None}

TypeOK ==
  /\ channels \in [Id -> Chan \union {None}]
  /\ byMcp \in [Token -> Id \union {None}]
  /\ byProvider \in [Token -> Id \union {None}]
  /\ expiry \in [Id -> Deadline \union {None}]
  /\ mcpToken \in [Chan -> Token \union {None}]
  /\ providerToken \in [Chan -> Token \union {None}]
  /\ websocket \in [Chan -> Sock \union {None}]
  /\ endpoint \in [Sock -> {"new", "accepting", "attaching", "announced", "rejected",
                            "serving", "leaving", "gone"}]
  /\ channelOf \in [Sock -> Chan \union {None}]
  /\ open \in SUBSET Sock
  /\ sweep \in SUBSET Id

Init ==
  /\ channels = [i \in Id |-> None]
  /\ byMcp = [t \in Token |-> None]
  /\ byProvider = [t \in Token |-> None]
  /\ expiry = [i \in Id |-> None]
  /\ mcpToken = [ch \in Chan |-> None]
  /\ providerToken = [ch \in Chan |-> None]
  /\ websocket = [ch \in Chan |-> None]
  /\ endpoint = [s \in Sock |-> "new"]
  /\ channelOf = [s \in Sock |-> None]
  /\ open = Sock
  /\ sweep = {}

-----------------------------------------------------------------------------
(* create_channel and remove_channel *)

\* Mutation: a token is only looked up among those of its own kind.
TokenTaken_OneIndex(t) == byMcp[t] # None

TokenTaken(t) == byMcp[t] # None \/ byProvider[t] # None

\* Tokens are minted fresh or supplied by the caller; either way they must differ
\* and be unused in both indexes.
CreateChannel(ch, m, p, ttl) ==
  LET id == IdOf[ch] IN
  /\ mcpToken[ch] = None
  /\ Cardinality(Ids) < MaxChannels
  /\ channels[id] = None
  /\ m # p /\ ~TokenTaken(m) /\ ~TokenTaken(p)
  /\ mcpToken' = [mcpToken EXCEPT ![ch] = m]
  /\ providerToken' = [providerToken EXCEPT ![ch] = p]
  /\ channels' = [channels EXCEPT ![id] = ch]
  /\ byMcp' = [byMcp EXCEPT ![m] = id]
  /\ byProvider' = [byProvider EXCEPT ![p] = id]
  /\ expiry' = [expiry EXCEPT ![id] = ttl]
  /\ UNCHANGED <<websocket, sockVars, sweep>>

\* Mutation: the provider token of a removed channel stays in its index.
Unregister_KeepsProviderToken(id) ==
  LET ch == channels[id] IN
  /\ channels' = [channels EXCEPT ![id] = None]
  /\ byMcp' = [byMcp EXCEPT ![mcpToken[ch]] = None]
  /\ expiry' = [expiry EXCEPT ![id] = None]
  /\ websocket' = [websocket EXCEPT ![ch] = None]
  /\ open' = open \ {websocket[ch]}
  /\ UNCHANGED <<byProvider, mcpToken, providerToken, endpoint, channelOf>>

\* The critical section of remove_channel, then Channel.close up to its await.
Unregister(id) ==
  LET ch == channels[id] IN
  /\ channels' = [channels EXCEPT ![id] = None]
  /\ byMcp' = [byMcp EXCEPT ![mcpToken[ch]] = None]
  /\ byProvider' = [byProvider EXCEPT ![providerToken[ch]] = None]
  /\ expiry' = [expiry EXCEPT ![id] = None]
  /\ websocket' = [websocket EXCEPT ![ch] = None]
  /\ open' = open \ {websocket[ch]}
  /\ UNCHANGED <<mcpToken, providerToken, endpoint, channelOf>>

\* remove_channel by the application, or close_all's next one at shutdown.
RemoveChannel(id) ==
  /\ channels[id] # None
  /\ Unregister(id)
  /\ UNCHANGED sweep

-----------------------------------------------------------------------------
(* purge_expired, run by the reaper *)

Offline(id) == websocket[channels[id]] = None

SweepStarts ==
  /\ sweep = {}
  /\ sweep' = {i \in Ids : Offline(i) /\ expiry[i] = 0}
  /\ sweep' # {}
  /\ UNCHANGED <<indexVars, expiry, websocket, sockVars>>


\* remove_channel(id, require_offline=True) on the next id of the list made when
\* the sweep began; each removal awaits, so the others may be stale by then.
SweepNext(id) ==
  /\ id \in sweep
  /\ sweep' = sweep \ {id}
  /\ IF channels[id] = None \/ ~Offline(id)
       THEN UNCHANGED <<indexVars, expiry, websocket, sockVars>>
       ELSE Unregister(id)

\* Mutation: the time that passed is added to the time left.
Left_PastGrace(t) == IF t \in 0..Grace THEN t + 1 ELSE t

\* The time left to a deadline, a tick later.
Left(t) == IF t \in 1..Grace THEN t - 1 ELSE t

Tick ==
  /\ \E i \in Id : expiry[i] \in 1..Grace
  /\ expiry' = [i \in Id |-> Left(expiry[i])]
  /\ UNCHANGED <<indexVars, websocket, sockVars, sweep>>

-----------------------------------------------------------------------------
(* The provider endpoint *)

\* authenticate_provider; an unknown token is refused before accept.
Authenticate(s, t) ==
  LET id == byProvider[t] IN
  /\ endpoint[s] = "new"
  /\ IF id = None
       THEN /\ endpoint' = [endpoint EXCEPT ![s] = "gone"]
            /\ open' = open \ {s}
            /\ UNCHANGED channelOf
       ELSE /\ endpoint' = [endpoint EXCEPT ![s] = "accepting"]
            /\ channelOf' = [channelOf EXCEPT ![s] = channels[id]]
            /\ UNCHANGED open
  /\ UNCHANGED <<indexVars, expiry, websocket, sweep>>

\* Mutation: nobody looks whether the channel is still registered.
ProviderConnected_Unchecked(s) ==
  LET id == IdOf[channelOf[s]] IN
  /\ expiry' = [expiry EXCEPT ![id] = IF channels[id] # None THEN Forever ELSE @]
  /\ endpoint' = [endpoint EXCEPT ![s] = "announced"]

\* registry.provider_connected up to its await; the verdict is returned after it.
ProviderConnected(s) ==
  LET id == IdOf[channelOf[s]] IN
  IF channels[id] # None
    THEN /\ expiry' = [expiry EXCEPT ![id] = Forever]
         /\ endpoint' = [endpoint EXCEPT ![s] = "announced"]
    ELSE /\ endpoint' = [endpoint EXCEPT ![s] = "rejected"]
         /\ UNCHANGED expiry

\* Channel.attach once the socket is accepted.  Only when it replaced a provider
\* does attach await before provider_connected runs.
Attach(s) ==
  LET ch == channelOf[s] IN
  /\ endpoint[s] = "accepting"
  /\ websocket' = [websocket EXCEPT ![ch] = s]
  /\ IF websocket[ch] = None
       THEN ProviderConnected(s) /\ UNCHANGED open
       ELSE /\ endpoint' = [endpoint EXCEPT ![s] = "attaching"]
            /\ open' = open \ {websocket[ch]}
            /\ UNCHANGED expiry
  /\ UNCHANGED <<indexVars, channelOf, sweep>>

AttachSettles(s) ==
  /\ endpoint[s] = "attaching"
  /\ ProviderConnected(s)
  /\ UNCHANGED <<indexVars, websocket, channelOf, open, sweep>>

\* The channel is gone: detach, close 1008, and no provider_disconnected.
TurnAway(s) ==
  LET ch == channelOf[s] IN
  /\ endpoint[s] = "rejected"
  /\ endpoint' = [endpoint EXCEPT ![s] = "gone"]
  /\ websocket' = [websocket EXCEPT ![ch] = IF @ = s THEN None ELSE @]
  /\ open' = open \ {s}
  /\ UNCHANGED <<indexVars, expiry, channelOf, sweep>>

\* hello.ack, the replayed subscriptions and the receive loop.
Serve(s) ==
  /\ endpoint[s] = "announced"
  /\ endpoint' = [endpoint EXCEPT ![s] = "serving"]
  /\ UNCHANGED <<indexVars, expiry, websocket, channelOf, open, sweep>>

\* The loop ends on a lost or superseded socket; detach is true for the current one.
ServeEnds(s) ==
  LET ch == channelOf[s] IN
  /\ endpoint[s] = "serving"
  /\ s \notin open \/ websocket[ch] # s
  /\ websocket' = [websocket EXCEPT ![ch] = IF @ = s THEN None ELSE @]
  /\ endpoint' = [endpoint EXCEPT ![s] = IF websocket[ch] = s THEN "leaving" ELSE "gone"]
  /\ UNCHANGED <<indexVars, expiry, channelOf, open, sweep>>

\* Mutation: the grace starts though another provider has attached meanwhile.
ProviderDisconnected_Unchecked(s) ==
  LET id == IdOf[channelOf[s]] IN
  /\ endpoint[s] = "leaving"
  /\ endpoint' = [endpoint EXCEPT ![s] = "gone"]
  /\ expiry' = [expiry EXCEPT ![id] = IF channels[id] # None THEN Grace ELSE @]
  /\ UNCHANGED <<indexVars, websocket, channelOf, open, sweep>>

\* registry.provider_disconnected, after detach has awaited its notifications.
ProviderDisconnected(s) ==
  LET ch == channelOf[s]  id == IdOf[channelOf[s]] IN
  /\ endpoint[s] = "leaving"
  /\ endpoint' = [endpoint EXCEPT ![s] = "gone"]
  /\ expiry' = [expiry EXCEPT ![id] =
                  IF channels[id] # None /\ websocket[ch] = None THEN Grace ELSE @]
  /\ UNCHANGED <<indexVars, websocket, channelOf, open, sweep>>

\* External: the peer or the network closes the socket.
PeerLeaves(s) ==
  /\ s \in open
  /\ open' = open \ {s}
  /\ UNCHANGED <<indexVars, expiry, websocket, endpoint, channelOf, sweep>>

-----------------------------------------------------------------------------
EndpointStep(s) ==
  \/ Attach(s) \/ AttachSettles(s) \/ TurnAway(s)
  \/ Serve(s) \/ ServeEnds(s) \/ ProviderDisconnected(s)

Next ==
  \/ \E ch \in Chan, m, p \in Token, ttl \in InitialTtl : CreateChannel(ch, m, p, ttl)
  \/ \E id \in Id : RemoveChannel(id) \/ SweepNext(id)
  \/ SweepStarts
  \/ Tick
  \/ \E s \in Sock : EndpointStep(s) \/ PeerLeaves(s)
  \/ \E s \in Sock, t \in Token : Authenticate(s, t)

Spec == Init /\ [][Next]_vars

\* Time passes, the reaper keeps sweeping and finishes each sweep, and the tasks of
\* the endpoints run: accept and the listeners end, and a lost socket is noticed.
\* The sweep removes offline channels only, so it waits for no provider.
Fairness ==
  /\ WF_vars(Tick) /\ WF_vars(SweepStarts) /\ \A id \in Id : WF_vars(SweepNext(id))
  /\ \A s \in Sock : WF_vars(Attach(s) \/ TurnAway(s) \/ Serve(s) \/ ServeEnds(s))

FairSpec == Spec /\ Fairness

\* attach and detach also await what nothing in the gateway bounds: every client takes
\* its notifications, and a replaced provider's socket gets closed.
PeersCooperate ==
  \A s \in Sock : WF_vars(AttachSettles(s)) /\ WF_vars(ProviderDisconnected(s))

CooperativeSpec == FairSpec /\ PeersCooperate

-----------------------------------------------------------------------------
(* Properties *)

\* The four indexes never tear: a registered channel is found by exactly its own
\* two tokens and has a deadline, and nothing is left of a removed one.
IndexesAgree ==
  /\ \A i \in Id : channels[i] # None => IdOf[channels[i]] = i
  /\ \A t \in Token, i \in Id :
       /\ byMcp[t] = i <=> channels[i] # None /\ mcpToken[channels[i]] = t
       /\ byProvider[t] = i <=> channels[i] # None /\ providerToken[channels[i]] = t
  /\ \A i \in Id : channels[i] = None <=> expiry[i] = None

\* No string is at once a provider token and an mcp token, of one channel or of
\* two: whoever holds the public one can never attach as a provider.
TokensApart == \A t \in Token : byMcp[t] = None \/ byProvider[t] = None

\* A channel that a provider serves has no deadline, however the end of an older
\* connection and the start of this one interleaved.
ServedNeverExpires ==
  \A s \in Sock :
    LET ch == channelOf[s] IN
    /\ endpoint[s] \in {"announced", "serving"}
    /\ Registered(ch) /\ websocket[ch] = s
    => expiry[IdOf[ch]] = Forever


\* s is the provider of a channel object no client resolves to.
Orphaned(s) == \E ch \in Chan : websocket[ch] = s /\ ~Registered(ch)

\* A provider on a channel that is not registered is turned away, unless its attach
\* never ends: a reconnect racing the reclamation does not leave it serving an
\* orphaned channel.
OrphanIsTurnedAway ==
  \A s \in Sock : Orphaned(s) ~> (~Orphaned(s) \/ [](endpoint[s] = "attaching"))

\* A channel without provider is reclaimed in the end, unless one comes back, even when
\* every client and every peer cooperates.
OfflineIsReclaimed ==
  \A i \in Id :
    (channels[i] # None /\ Offline(i)) ~> (channels[i] = None \/ ~Offline(i))

\* No provider serves a channel that is not registered: one that connects as its channel
\* is removed is still held by attach, or about to be turned away (gateway.py:749-754).
NoOrphanIsServed == \A s \in Sock : Orphaned(s) => endpoint[s] \in {"attaching", "rejected"}

-----------------------------------------------------------------------------
(* The four indexes and the channel objects as one table. *)

TableOf == {[id |-> i, channel |-> channels[i], mcp |-> mcpToken[channels[i]],
             provider |-> providerToken[channels[i]]] : i \in Ids}

Table == INSTANCE ChannelTable WITH table <- TableOf

\* The registry is that table (registry.py:95-164).
ImplementsTable == Table!Spec

\* A token finds what the table says, and is taken when the table has it
\* (registry.py:56-71, 203-204).
LookupsAgree ==
  \A t \in Token :
    /\ TokenTaken(t) <=> Table!Taken(t)
    /\ \A ch \in Chan :
         /\ Table!ClientFinds(t, ch) <=> byMcp[t] # None /\ channels[byMcp[t]] = ch
         /\ Table!ProviderFinds(t, ch) <=> byProvider[t] # None /\ channels[byProvider[t]] = ch
=============================================================================
