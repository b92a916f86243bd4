------------------------ MODULE ChannelRegistryProofs ------------------------
(***************************************************************************)
(* Proofs about ChannelRegistry for any channels, ids, tokens and sockets. *)
(*                                                                         *)
(* IndexInv is inductive for any IdOf: the four indexes agree and no token *)
(* is in both.  ServedNeverExpires also needs the channels' ids to differ  *)
(* (InjectiveIds), which TokenProvider.generate gives them and a           *)
(* deterministic id does not; ServedInv is its inductive invariant.  With  *)
(* AttachedOK it also follows that a removed channel is never served.      *)
(* That the registry implements ChannelTable holds for any IdOf.           *)
(***************************************************************************)
EXTENDS ChannelRegistry, TLAPS

\* A registered channel has its two tokens, and they differ.
HasTokens ==
  \A i \in Id : channels[i] # None =>
    mcpToken[channels[i]] \in Token /\ providerToken[channels[i]] \in Token

IndexInv == TypeOK /\ IndexesAgree /\ TokensApart /\ HasTokens

\* The new entries of a created channel do not meet an older one.
LEMMA CreateKeepsIndexes ==
  ASSUME IndexInv,
         NEW ch \in Chan, NEW m \in Token, NEW p \in Token, NEW ttl \in InitialTtl,
         CreateChannel(ch, m, p, ttl)
  PROVE  IndexInv'
<1> DEFINE id == IdOf[ch]
<1>1. id \in Id /\ ttl \in Deadline /\ ch # None /\ id # None
  BY RegistryAssumption DEF Deadline
<1>2. TypeOK'
  BY <1>1 DEF IndexInv, TypeOK, CreateChannel, sockVars
<1>3. /\ channels' = [channels EXCEPT ![id] = ch]
      /\ byMcp' = [byMcp EXCEPT ![m] = id]
      /\ byProvider' = [byProvider EXCEPT ![p] = id]
      /\ expiry' = [expiry EXCEPT ![id] = ttl]
      /\ mcpToken' = [mcpToken EXCEPT ![ch] = m]
      /\ providerToken' = [providerToken EXCEPT ![ch] = p]
      /\ channels[id] = None /\ m # p
      /\ byMcp[m] = None /\ byProvider[m] = None
      /\ byMcp[p] = None /\ byProvider[p] = None
  BY DEF CreateChannel, TokenTaken
<1>4. \A i \in Id : channels[i] # None => channels[i] \in Chan /\ channels[i] # ch
  BY <1>1, <1>3 DEF IndexInv, IndexesAgree, TypeOK
<1>5. HasTokens'
  BY <1>1, <1>3, <1>4 DEF IndexInv, HasTokens, TypeOK
<1>6. TokensApart'
  BY <1>1, <1>3 DEF IndexInv, TokensApart, TypeOK
<1>7. IndexesAgree'
  <2>1. \A i \in Id : channels'[i] # None => IdOf[channels'[i]] = i
    BY <1>1, <1>3 DEF IndexInv, IndexesAgree, TypeOK
  <2>2. \A t \in Token, i \in Id :
          byMcp'[t] = i <=> channels'[i] # None /\ mcpToken'[channels'[i]] = t
    BY <1>1, <1>3, <1>4 DEF IndexInv, IndexesAgree, TypeOK
  <2>3. \A t \in Token, i \in Id :
          byProvider'[t] = i <=> channels'[i] # None /\ providerToken'[channels'[i]] = t
    BY <1>1, <1>3, <1>4 DEF IndexInv, IndexesAgree, TypeOK
  <2>4. \A i \in Id : channels'[i] = None <=> expiry'[i] = None
    <3>1. ttl # None
      BY RegistryAssumption
    <3> QED BY <1>1, <1>3, <3>1 DEF IndexInv, IndexesAgree, TypeOK
  <2> QED BY <2>1, <2>2, <2>3, <2>4 DEF IndexesAgree
<1> QED BY <1>2, <1>5, <1>6, <1>7 DEF IndexInv

\* Removing a channel takes out its own two tokens and nobody else's.
LEMMA UnregisterKeepsIndexes ==
  ASSUME IndexInv, NEW id \in Id, channels[id] # None, Unregister(id), sweep' \in SUBSET Id
  PROVE  IndexInv'
<1> DEFINE ch == channels[id]
<1>1. ch \in Chan /\ mcpToken[ch] \in Token /\ providerToken[ch] \in Token
  BY DEF IndexInv, HasTokens, TypeOK
<1>2. TypeOK'
  BY <1>1 DEF IndexInv, TypeOK, Unregister
<1>3. /\ channels' = [channels EXCEPT ![id] = None]
      /\ byMcp' = [byMcp EXCEPT ![mcpToken[ch]] = None]
      /\ byProvider' = [byProvider EXCEPT ![providerToken[ch]] = None]
      /\ expiry' = [expiry EXCEPT ![id] = None]
      /\ UNCHANGED <<mcpToken, providerToken>>
  BY DEF Unregister
<1>4. HasTokens'
  BY <1>3 DEF IndexInv, HasTokens, TypeOK
<1>5. TokensApart'
  BY <1>1, <1>3 DEF IndexInv, TokensApart, TypeOK
<1>6. IndexesAgree'
  <2>1. \A i \in Id : channels'[i] # None => IdOf[channels'[i]] = i
    BY <1>3 DEF IndexInv, IndexesAgree, TypeOK
  <2>2. \A t \in Token, i \in Id :
          byMcp'[t] = i <=> channels'[i] # None /\ mcpToken'[channels'[i]] = t
    BY <1>1, <1>3, RegistryAssumption DEF IndexInv, IndexesAgree, TypeOK
  <2>3. \A t \in Token, i \in Id :
          byProvider'[t] = i <=> channels'[i] # None /\ providerToken'[channels'[i]] = t
    BY <1>1, <1>3, RegistryAssumption DEF IndexInv, IndexesAgree, TypeOK
  <2>4. \A i \in Id : channels'[i] = None <=> expiry'[i] = None
    BY <1>3 DEF IndexInv, IndexesAgree, TypeOK
  <2> QED BY <2>1, <2>2, <2>3, <2>4 DEF IndexesAgree
<1> QED BY <1>2, <1>4, <1>5, <1>6 DEF IndexInv

\* Every other step leaves the indexes alone and only moves deadlines that exist.
LEMMA OthersKeepIndexes ==
  ASSUME IndexInv, TypeOK', UNCHANGED indexVars,
         \A i \in Id : expiry'[i] = None <=> expiry[i] = None
  PROVE  IndexInv'
BY DEF IndexInv, IndexesAgree, TokensApart, HasTokens, indexVars

\* A tick neither sets nor clears a deadline.
LEMMA LeftIsDeadline ==
  ASSUME NEW t \in Deadline \union {None}
  PROVE  Left(t) \in Deadline \union {None} /\ (Left(t) = None <=> t = None)
BY RegistryAssumption DEF Left, Deadline

\* Marking a channel connected moves a deadline only where there is one.
LEMMA ConnectedMovesDeadline ==
  ASSUME IndexInv, NEW s \in Sock, ProviderConnected(s)
  PROVE  /\ expiry' \in [Id -> Deadline \union {None}]
         /\ \A i \in Id : expiry'[i] = None <=> expiry[i] = None
         /\ endpoint' \in [Sock -> {"new", "accepting", "attaching", "announced", "rejected",
                                   "serving", "leaving", "gone"}]
<1>1. Forever \in Deadline /\ Forever # None
  BY RegistryAssumption DEF Deadline
<1> QED BY <1>1 DEF IndexInv, TypeOK, IndexesAgree, ProviderConnected

\* The empty registry.
THEOREM IndexInvInitially == Init => IndexInv
BY RegistryAssumption DEF Init, IndexInv, TypeOK, IndexesAgree, TokensApart, HasTokens

\* Every step of registry, reaper and endpoints keeps the indexes in agreement.
THEOREM IndexInvStep == IndexInv /\ [Next]_vars => IndexInv'
<1> SUFFICES ASSUME IndexInv, [Next]_vars PROVE IndexInv'
  OBVIOUS
<1>1. ASSUME NEW ch \in Chan, NEW m \in Token, NEW p \in Token, NEW ttl \in InitialTtl,
             CreateChannel(ch, m, p, ttl)
      PROVE  IndexInv'
  BY <1>1, CreateKeepsIndexes
<1>2. ASSUME NEW id \in Id, RemoveChannel(id) PROVE IndexInv'
  <2>1. channels[id] # None /\ Unregister(id) /\ sweep' \in SUBSET Id
    BY <1>2 DEF RemoveChannel, IndexInv, TypeOK
  <2> QED BY <2>1, UnregisterKeepsIndexes
<1>3. ASSUME NEW id \in Id, SweepNext(id) PROVE IndexInv'
  <2>1. sweep' \in SUBSET Id
    BY <1>3 DEF SweepNext, IndexInv, TypeOK
  <2>2. CASE channels[id] = None \/ ~Offline(id)
    <3>1. TypeOK'
      BY <1>3, <2>1, <2>2 DEF SweepNext, indexVars, sockVars, IndexInv, TypeOK
    <3>2. UNCHANGED indexVars /\ UNCHANGED expiry
      BY <1>3, <2>2 DEF SweepNext
    <3> QED BY <3>1, <3>2, OthersKeepIndexes
  <2>3. CASE channels[id] # None /\ Offline(id)
    BY <1>3, <2>1, <2>3, UnregisterKeepsIndexes DEF SweepNext
  <2> QED BY <2>2, <2>3
<1>4. CASE SweepStarts
  <2>1. TypeOK'
    BY <1>4 DEF SweepStarts, indexVars, sockVars, IndexInv, TypeOK, Ids
  <2> QED BY <1>4, <2>1, OthersKeepIndexes DEF SweepStarts
<1>5. CASE Tick
  <2>1. \A i \in Id : /\ expiry'[i] \in Deadline \union {None}
                      /\ expiry'[i] = None <=> expiry[i] = None
    BY <1>5, LeftIsDeadline DEF Tick, IndexInv, TypeOK
  <2>2. TypeOK'
    BY <1>5, <2>1 DEF Tick, indexVars, sockVars, IndexInv, TypeOK
  <2> QED BY <1>5, <2>1, <2>2, OthersKeepIndexes DEF Tick
<1>6. ASSUME NEW s \in Sock, EndpointStep(s) PROVE IndexInv'
  <2>1. CASE Attach(s)
    <3>1. UNCHANGED indexVars /\ UNCHANGED channelOf /\ UNCHANGED sweep
      BY <2>1 DEF Attach
    <3>2. /\ expiry' \in [Id -> Deadline \union {None}]
          /\ \A i \in Id : expiry'[i] = None <=> expiry[i] = None
          /\ endpoint' \in [Sock -> {"new", "accepting", "attaching", "announced",
                                    "rejected", "serving", "leaving", "gone"}]
      BY <2>1, ConnectedMovesDeadline DEF Attach, IndexInv, TypeOK
    <3>3. websocket' \in [Chan -> Sock \union {None}] /\ open' \in SUBSET Sock
      BY <2>1 DEF Attach, IndexInv, TypeOK
    <3>4. TypeOK'
      BY <3>1, <3>2, <3>3 DEF indexVars, IndexInv, TypeOK
    <3> QED BY <3>1, <3>2, <3>4, OthersKeepIndexes
  <2>2. CASE AttachSettles(s)
    <3>1. /\ UNCHANGED <<indexVars, websocket, channelOf, open, sweep>>
          /\ ProviderConnected(s)
      BY <2>2 DEF AttachSettles
    <3>2. TypeOK'
      BY <3>1, ConnectedMovesDeadline DEF indexVars, IndexInv, TypeOK
    <3> QED BY <3>1, <3>2, ConnectedMovesDeadline, OthersKeepIndexes
  <2>3. CASE TurnAway(s)
    <3>1. TypeOK'
      BY <2>3 DEF TurnAway, indexVars, IndexInv, TypeOK
    <3> QED BY <2>3, <3>1, OthersKeepIndexes DEF TurnAway
  <2>4. CASE Serve(s)
    <3>1. TypeOK'
      BY <2>4 DEF Serve, indexVars, IndexInv, TypeOK
    <3> QED BY <2>4, <3>1, OthersKeepIndexes DEF Serve
  <2>5. CASE ServeEnds(s)
    <3>1. TypeOK'
      BY <2>5 DEF ServeEnds, indexVars, IndexInv, TypeOK
    <3> QED BY <2>5, <3>1, OthersKeepIndexes DEF ServeEnds
  <2>6. CASE ProviderDisconnected(s)
    <3>1. Grace \in Deadline /\ Grace # None
      BY RegistryAssumption DEF Deadline
    <3>2. \A i \in Id : expiry'[i] = None <=> expiry[i] = None
      BY <2>6, <3>1 DEF ProviderDisconnected, IndexInv, IndexesAgree, TypeOK
    <3>3. TypeOK'
      BY <2>6, <3>1 DEF ProviderDisconnected, indexVars, IndexInv, TypeOK
    <3>4. UNCHANGED indexVars
      BY <2>6 DEF ProviderDisconnected
    <3> QED BY <3>2, <3>3, <3>4, OthersKeepIndexes
  <2> QED BY <1>6, <2>1, <2>2, <2>3, <2>4, <2>5, <2>6 DEF EndpointStep
<1>7. ASSUME NEW s \in Sock, PeerLeaves(s) PROVE IndexInv'
  <2>1. TypeOK'
    BY <1>7 DEF PeerLeaves, indexVars, IndexInv, TypeOK
  <2> QED BY <1>7, <2>1, OthersKeepIndexes DEF PeerLeaves
<1>8. ASSUME NEW s \in Sock, NEW t \in Token, Authenticate(s, t) PROVE IndexInv'
  <2>1. TypeOK'
    BY <1>8 DEF Authenticate, indexVars, IndexInv, TypeOK
  <2> QED BY <1>8, <2>1, OthersKeepIndexes DEF Authenticate
<1>9. CASE UNCHANGED vars
  <2>1. TypeOK'
    BY <1>9 DEF vars, indexVars, sockVars, IndexInv, TypeOK
  <2> QED BY <1>9, <2>1, OthersKeepIndexes DEF vars
<1> QED BY <1>1, <1>2, <1>3, <1>4, <1>5, <1>6, <1>7, <1>8, <1>9 DEF Next

\* Every variable keeps its type, whatever the interleaving of endpoints and reaper.
THEOREM TypeCorrect == Spec => []TypeOK
<1>1. IndexInv => TypeOK
  BY DEF IndexInv
<1> QED BY <1>1, IndexInvInitially, IndexInvStep, PTL DEF Spec

\* The indexes of the registry never tear, with any number of channels and tokens,
\* unique or reused ids.
THEOREM IndexesAlwaysAgree == Spec => []IndexesAgree
<1>1. IndexInv => IndexesAgree
  BY DEF IndexInv
<1> QED BY <1>1, IndexInvInitially, IndexInvStep, PTL DEF Spec

\* No token is ever an mcp token and a provider token.
THEOREM TokensStayApart == Spec => []TokensApart
<1>1. IndexInv => TokensApart
  BY DEF IndexInv
<1> QED BY <1>1, IndexInvInitially, IndexInvStep, PTL DEF Spec

-----------------------------------------------------------------------------
(* A served channel has no deadline *)

\* No two channel objects share an id.
InjectiveIds == \A c, d \in Chan : IdOf[c] = IdOf[d] => c = d

\* An endpoint that got past authentication holds a channel that was created.
HoldsChannel ==
  \A s \in Sock :
    /\ endpoint[s] \notin {"new", "gone"} => channelOf[s] \in Chan
    /\ channelOf[s] \in Chan => mcpToken[channelOf[s]] \in Token

ServedInv == IndexInv /\ HoldsChannel /\ ServedNeverExpires

\* A channel created now is served by nobody yet, and takes no other channel's deadline.
LEMMA CreateKeepsServed ==
  ASSUME InjectiveIds, ServedInv,
         NEW ch \in Chan, NEW m \in Token, NEW p \in Token, NEW ttl \in InitialTtl,
         CreateChannel(ch, m, p, ttl)
  PROVE  HoldsChannel' /\ ServedNeverExpires'
<1>1. /\ mcpToken[ch] = None /\ channels[IdOf[ch]] = None
      /\ mcpToken' = [mcpToken EXCEPT ![ch] = m]
      /\ channels' = [channels EXCEPT ![IdOf[ch]] = ch]
      /\ expiry' = [expiry EXCEPT ![IdOf[ch]] = ttl]
      /\ UNCHANGED <<websocket, endpoint, channelOf>>
  BY DEF CreateChannel, sockVars
<1>2. /\ channels \in [Id -> Chan \union {None}] /\ IdOf \in [Chan -> Id]
      /\ mcpToken \in [Chan -> Token \union {None}]
      /\ expiry \in [Id -> Deadline \union {None}]
      /\ None \notin Token
  BY RegistryAssumption DEF ServedInv, IndexInv, TypeOK
<1>3. HoldsChannel'
  BY <1>1, <1>2 DEF ServedInv, HoldsChannel
<1>4. ASSUME NEW s \in Sock,
             endpoint'[s] \in {"announced", "serving"},
             Registered(channelOf[s])', websocket'[channelOf'[s]] = s
      PROVE  expiry'[IdOf[channelOf'[s]]] = Forever
  <2> DEFINE c == channelOf[s]
  <2>1. c \in Chan /\ mcpToken[c] \in Token
    BY <1>1, <1>4 DEF ServedInv, HoldsChannel
  <2>2. c # ch /\ IdOf[c] # IdOf[ch]
    BY <1>1, <1>2, <2>1 DEF InjectiveIds
  <2>3. Registered(c) /\ websocket[c] = s /\ expiry'[IdOf[c]] = expiry[IdOf[c]]
    BY <1>1, <1>2, <1>4, <2>1, <2>2 DEF Registered
  <2> QED BY <1>1, <1>4, <2>3 DEF ServedInv, ServedNeverExpires
<1> QED BY <1>3, <1>4 DEF ServedNeverExpires

\* Removing a channel leaves the deadlines of the others alone.
LEMMA UnregisterKeepsServed ==
  ASSUME ServedInv, NEW id \in Id, channels[id] # None, Unregister(id)
  PROVE  HoldsChannel' /\ ServedNeverExpires'
<1>1. /\ channels' = [channels EXCEPT ![id] = None]
      /\ expiry' = [expiry EXCEPT ![id] = None]
      /\ websocket' = [websocket EXCEPT ![channels[id]] = None]
      /\ UNCHANGED <<mcpToken, endpoint, channelOf>>
  BY DEF Unregister
<1>2. /\ channels \in [Id -> Chan \union {None}] /\ IdOf \in [Chan -> Id]
      /\ websocket \in [Chan -> Sock \union {None}]
      /\ expiry \in [Id -> Deadline \union {None}]
      /\ None \notin Sock /\ None \notin Chan
  BY RegistryAssumption DEF ServedInv, IndexInv, TypeOK
<1>3. HoldsChannel'
  BY <1>1 DEF ServedInv, HoldsChannel
<1>4. ASSUME NEW s \in Sock,
             endpoint'[s] \in {"announced", "serving"},
             Registered(channelOf[s])', websocket'[channelOf'[s]] = s
      PROVE  expiry'[IdOf[channelOf'[s]]] = Forever
  <2> DEFINE c == channelOf[s]
  <2>1. c \in Chan
    BY <1>1, <1>4 DEF ServedInv, HoldsChannel
  <2>2. IdOf[c] # id /\ Registered(c) /\ websocket[c] = s
    BY <1>1, <1>2, <1>4, <2>1 DEF Registered
  <2> QED BY <1>1, <1>2, <1>4, <2>1, <2>2 DEF ServedInv, ServedNeverExpires
<1> QED BY <1>3, <1>4 DEF ServedNeverExpires

\* A step that touches no channel and no deadline, and by which no endpoint is
\* announced, nor a socket attached.
LEMMA QuietKeepsServed ==
  ASSUME ServedInv, TypeOK',
         UNCHANGED <<channels, mcpToken, channelOf>>,
         \A i \in Id : expiry[i] = Forever => expiry'[i] = Forever,
         \A s \in Sock :
           \/ endpoint'[s] = endpoint[s]
           \/ endpoint[s] \notin {"new", "gone"} /\ endpoint'[s] \notin {"announced", "serving"}
           \/ endpoint[s] = "announced" /\ endpoint'[s] = "serving",
         \A c \in Chan : websocket'[c] \in {websocket[c], None}
  PROVE  HoldsChannel' /\ ServedNeverExpires'
<1>1. HoldsChannel'
  BY DEF ServedInv, HoldsChannel
<1>2. ASSUME NEW s \in Sock,
             endpoint'[s] \in {"announced", "serving"},
             Registered(channelOf[s])', websocket'[channelOf'[s]] = s
      PROVE  expiry'[IdOf[channelOf'[s]]] = Forever
  <2> DEFINE c == channelOf[s]
  <2>1. endpoint[s] \in {"announced", "serving"}
    BY <1>2
  <2>2. c \in Chan /\ IdOf[c] \in Id
    BY <2>1, RegistryAssumption DEF ServedInv, HoldsChannel
  <2>3. Registered(c) /\ websocket[c] = s
    BY <1>2, <2>2, RegistryAssumption DEF Registered
  <2> QED BY <1>2, <2>1, <2>2, <2>3 DEF ServedInv, ServedNeverExpires
<1> QED BY <1>1, <1>2 DEF ServedNeverExpires

\* An endpoint that is announced has just cleared its channel's deadline.
LEMMA ConnectKeepsServed ==
  ASSUME ServedInv, NEW s \in Sock, endpoint[s] \notin {"new", "gone"},
         ProviderConnected(s),
         UNCHANGED <<channels, mcpToken, channelOf>>,
         \A c \in Chan : websocket'[c] = websocket[c] \/ (c = channelOf[s] /\ websocket'[c] = s)
  PROVE  HoldsChannel' /\ ServedNeverExpires'
<1> DEFINE id == IdOf[channelOf[s]]
<1>1. channelOf[s] \in Chan /\ id \in Id
  BY RegistryAssumption DEF ServedInv, HoldsChannel
<1>2. /\ \A r \in Sock : r # s => endpoint'[r] = endpoint[r]
      /\ channels[id] # None => expiry'[id] = Forever
      /\ \A i \in Id : i # id => expiry'[i] = expiry[i]
  BY <1>1 DEF ProviderConnected, ServedInv, IndexInv, TypeOK
<1>3. HoldsChannel'
  BY <1>2 DEF ServedInv, HoldsChannel
<1>4. ASSUME NEW r \in Sock,
             endpoint'[r] \in {"announced", "serving"},
             Registered(channelOf[r])', websocket'[channelOf'[r]] = r
      PROVE  expiry'[IdOf[channelOf'[r]]] = Forever
  <2> DEFINE c == channelOf[r]
  <2>1. c \in Chan /\ IdOf[c] \in Id /\ Registered(c) /\ c # None
    BY <1>1, <1>2, <1>4, RegistryAssumption DEF ServedInv, HoldsChannel, Registered
  <2>2. CASE IdOf[c] = id
    BY <1>2, <1>4, <2>1, <2>2 DEF Registered
  <2>3. CASE IdOf[c] # id
    <3>1. r # s /\ websocket[c] = r /\ endpoint[r] \in {"announced", "serving"}
      BY <1>2, <1>4, <2>1, <2>3
    <3> QED BY <1>2, <1>4, <2>1, <2>3, <3>1 DEF ServedInv, ServedNeverExpires
  <2> QED BY <2>2, <2>3
<1> QED BY <1>3, <1>4 DEF ServedNeverExpires

\* Whatever an endpoint does, the channel it serves has no deadline.
LEMMA EndpointKeepsServed ==
  ASSUME InjectiveIds, ServedInv, TypeOK', NEW s \in Sock, EndpointStep(s)
  PROVE  HoldsChannel' /\ ServedNeverExpires'
<1> DEFINE ch == channelOf[s]
<1> USE RegistryAssumption
<1>1. CASE Attach(s)
  <2>1. /\ endpoint[s] = "accepting" /\ ch \in Chan
        /\ websocket' = [websocket EXCEPT ![ch] = s]
        /\ UNCHANGED <<channels, mcpToken, channelOf>>
    BY <1>1 DEF Attach, indexVars, ServedInv, HoldsChannel
  <2>2. \A c \in Chan : websocket'[c] = IF c = ch THEN s ELSE websocket[c]
    BY <2>1 DEF ServedInv, IndexInv, TypeOK
  <2>3. CASE websocket[ch] = None
    <3>1. ProviderConnected(s)
      BY <1>1, <2>3 DEF Attach
    <3> QED BY <2>1, <2>2, <3>1, ConnectKeepsServed
  <2>4. CASE websocket[ch] # None
    <3>1. endpoint' = [endpoint EXCEPT ![s] = "attaching"] /\ UNCHANGED expiry
      BY <1>1, <2>4 DEF Attach
    <3>2. HoldsChannel'
      BY <2>1, <3>1 DEF ServedInv, HoldsChannel, IndexInv, TypeOK
    <3>3. ASSUME NEW r \in Sock,
                 endpoint'[r] \in {"announced", "serving"},
                 Registered(channelOf[r])', websocket'[channelOf'[r]] = r
          PROVE  expiry'[IdOf[channelOf'[r]]] = Forever
      <4>1. r # s /\ endpoint[r] \in {"announced", "serving"}
        BY <3>1, <3>3 DEF ServedInv, IndexInv, TypeOK
      <4>2. channelOf[r] \in Chan /\ channelOf[r] # ch
        BY <2>1, <2>2, <3>3, <4>1 DEF ServedInv, HoldsChannel
      <4>3. Registered(channelOf[r]) /\ websocket[channelOf[r]] = r
        BY <2>1, <2>2, <3>3, <4>2 DEF Registered
      <4> QED BY <2>1, <3>1, <4>1, <4>3 DEF ServedInv, ServedNeverExpires
    <3> QED BY <3>2, <3>3 DEF ServedNeverExpires
  <2> QED BY <2>3, <2>4
<1>2. CASE AttachSettles(s)
  BY <1>2, ConnectKeepsServed DEF AttachSettles, indexVars
<1>3. CASE TurnAway(s)
  BY <1>3, QuietKeepsServed DEF TurnAway, indexVars, ServedInv, IndexInv, TypeOK
<1>4. CASE Serve(s)
  BY <1>4, QuietKeepsServed DEF Serve, indexVars, ServedInv, IndexInv, TypeOK
<1>5. CASE ServeEnds(s)
  BY <1>5, QuietKeepsServed DEF ServeEnds, indexVars, ServedInv, IndexInv, TypeOK
<1>6. CASE ProviderDisconnected(s)
  <2>1. /\ endpoint[s] = "leaving" /\ endpoint' = [endpoint EXCEPT ![s] = "gone"]
        /\ UNCHANGED <<channels, mcpToken, channelOf, websocket>>
        /\ \A i \in Id : expiry'[i] = expiry[i] \/ (i = IdOf[ch] /\ websocket[ch] = None)
    BY <1>6 DEF ProviderDisconnected, indexVars, ServedInv, IndexInv, TypeOK
  <2>2. ch \in Chan /\ HoldsChannel'
    BY <2>1 DEF ServedInv, HoldsChannel, IndexInv, TypeOK
  <2>3. ASSUME NEW r \in Sock,
               endpoint'[r] \in {"announced", "serving"},
               Registered(channelOf[r])', websocket'[channelOf'[r]] = r
        PROVE  expiry'[IdOf[channelOf'[r]]] = Forever
    <3>1. endpoint[r] \in {"announced", "serving"}
      BY <2>1, <2>3 DEF ServedInv, IndexInv, TypeOK
    <3>2. channelOf[r] \in Chan /\ Registered(channelOf[r]) /\ websocket[channelOf[r]] = r
      BY <2>1, <2>3, <3>1 DEF ServedInv, HoldsChannel, Registered
    <3>3. r # None /\ IdOf[channelOf[r]] \in Id
      BY <3>2
    <3>4. IdOf[channelOf[r]] # IdOf[ch] \/ websocket[ch] # None
      BY <2>2, <3>2, <3>3 DEF InjectiveIds
    <3> QED BY <2>1, <3>1, <3>2, <3>3, <3>4 DEF ServedInv, ServedNeverExpires
  <2> QED BY <2>2, <2>3 DEF ServedNeverExpires
<1> QED BY <1>1, <1>2, <1>3, <1>4, <1>5, <1>6 DEF EndpointStep

\* The channel an endpoint resolves its token to is registered at that moment.
LEMMA AuthenticateKeepsServed ==
  ASSUME ServedInv, NEW s \in Sock, NEW t \in Token, Authenticate(s, t)
  PROVE  HoldsChannel' /\ ServedNeverExpires'
<1> DEFINE id == byProvider[t]
<1>1. /\ endpoint[s] = "new"
      /\ UNCHANGED <<channels, mcpToken, expiry, websocket>>
      /\ endpoint' = [endpoint EXCEPT ![s] = IF id = None THEN "gone" ELSE "accepting"]
      /\ channelOf' = IF id = None THEN channelOf
                                   ELSE [channelOf EXCEPT ![s] = channels[id]]
  BY DEF Authenticate, indexVars
<1>2. id # None => channels[id] \in Chan /\ mcpToken[channels[id]] \in Token
  BY RegistryAssumption DEF ServedInv, IndexInv, TypeOK, IndexesAgree, HasTokens
<1>3. HoldsChannel'
  BY <1>1, <1>2 DEF ServedInv, HoldsChannel, IndexInv, TypeOK
<1>4. ASSUME NEW r \in Sock, endpoint'[r] \in {"announced", "serving"}
      PROVE  r # s /\ endpoint[r] = endpoint'[r] /\ channelOf'[r] = channelOf[r]
  BY <1>1, <1>4 DEF ServedInv, IndexInv, TypeOK
<1> QED BY <1>1, <1>3, <1>4 DEF ServedInv, ServedNeverExpires, Registered

\* The registry is empty at the start, so no endpoint holds a registered channel.
THEOREM ServedInvInitially == Init => ServedInv
BY IndexInvInitially, RegistryAssumption DEF Init, ServedInv, HoldsChannel, ServedNeverExpires

\* With ids that are never shared, every step of the registry keeps ServedInv: in
\* particular provider_connected clears the deadline of the very channel it was given.
THEOREM ServedInvStep ==
  ASSUME InjectiveIds PROVE ServedInv /\ [Next]_vars => ServedInv'
<1> SUFFICES ASSUME ServedInv, [Next]_vars PROVE HoldsChannel' /\ ServedNeverExpires'
  BY IndexInvStep DEF ServedInv
<1>1. TypeOK'
  BY IndexInvStep DEF ServedInv, IndexInv
<1>2. ASSUME NEW ch \in Chan, NEW m \in Token, NEW p \in Token, NEW ttl \in InitialTtl,
             CreateChannel(ch, m, p, ttl)
      PROVE  HoldsChannel' /\ ServedNeverExpires'
  BY <1>2, CreateKeepsServed
<1>3. ASSUME NEW id \in Id, RemoveChannel(id) PROVE HoldsChannel' /\ ServedNeverExpires'
  BY <1>3, UnregisterKeepsServed DEF RemoveChannel
<1>4. ASSUME NEW id \in Id, SweepNext(id) PROVE HoldsChannel' /\ ServedNeverExpires'
  <2>1. CASE channels[id] = None \/ ~Offline(id)
    BY <1>1, <1>4, <2>1, QuietKeepsServed DEF SweepNext, indexVars, sockVars
  <2>2. CASE channels[id] # None /\ Offline(id)
    BY <1>4, <2>2, UnregisterKeepsServed DEF SweepNext
  <2> QED BY <2>1, <2>2
<1>5. CASE SweepStarts
  BY <1>1, <1>5, QuietKeepsServed DEF SweepStarts, indexVars, sockVars
<1>6. CASE Tick
  <2>1. \A i \in Id : expiry[i] = Forever => expiry'[i] = Forever
    BY <1>6, RegistryAssumption DEF Tick, Left
  <2> QED BY <1>1, <1>6, <2>1, QuietKeepsServed DEF Tick, indexVars, sockVars
<1>7. ASSUME NEW s \in Sock, EndpointStep(s) PROVE HoldsChannel' /\ ServedNeverExpires'
  BY <1>1, <1>7, EndpointKeepsServed
<1>8. ASSUME NEW s \in Sock, PeerLeaves(s) PROVE HoldsChannel' /\ ServedNeverExpires'
  BY <1>1, <1>8, QuietKeepsServed DEF PeerLeaves, indexVars
<1>9. ASSUME NEW s \in Sock, NEW t \in Token, Authenticate(s, t)
      PROVE  HoldsChannel' /\ ServedNeverExpires'
  BY <1>9, AuthenticateKeepsServed
<1>10. CASE UNCHANGED vars
  BY <1>1, <1>10, QuietKeepsServed DEF vars, indexVars, sockVars
<1> QED BY <1>2, <1>3, <1>4, <1>5, <1>6, <1>7, <1>8, <1>9, <1>10 DEF Next

\* While ids are unique, the end of an old connection never gives a deadline to a
\* channel that a newer connection serves, with any number of either.
THEOREM ServedChannelsNeverExpire ==
  ASSUME InjectiveIds PROVE Spec => []ServedNeverExpires
<1>1. ServedInv => ServedNeverExpires
  BY DEF ServedInv
<1>2. ServedInv /\ [Next]_vars => ServedInv'
  BY ServedInvStep
<1> QED BY <1>1, <1>2, ServedInvInitially, PTL DEF Spec

-----------------------------------------------------------------------------
(* No provider serves a channel that is not registered *)

\* A socket that is some channel's provider belongs to an endpoint of that channel that
\* has attached and not detached; once it is announced, the channel is registered.
AttachedOK ==
  \A ch \in Chan, s \in Sock : websocket[ch] = s =>
    /\ channelOf[s] = ch
    /\ endpoint[s] \in {"attaching", "announced", "rejected", "serving"}
    /\ endpoint[s] \in {"announced", "serving"} => Registered(ch)

\* Channels being created or left alone keep their providers in order.
LEMMA QuietKeepsAttached ==
  ASSUME TypeOK, AttachedOK, UNCHANGED <<websocket, channelOf, endpoint>>,
         \A ch \in Chan : Registered(ch) => Registered(ch)'
  PROVE  AttachedOK'
BY DEF AttachedOK

\* A step of the registry or the reaper that creates or removes no channel.
LEMMA SameChannelsKeepAttached ==
  ASSUME TypeOK, AttachedOK, UNCHANGED <<channels, websocket, channelOf, endpoint>>
  PROVE  AttachedOK'
<1>1. \A ch \in Chan : Registered(ch) => Registered(ch)'
  BY DEF Registered
<1> QED BY <1>1, QuietKeepsAttached

\* A channel that is created takes no other channel's id.
LEMMA CreateKeepsAttached ==
  ASSUME IndexInv, AttachedOK,
         NEW ch \in Chan, NEW m \in Token, NEW p \in Token, NEW ttl \in InitialTtl,
         CreateChannel(ch, m, p, ttl)
  PROVE  AttachedOK'
<1>1. /\ channels[IdOf[ch]] = None
      /\ channels' = [channels EXCEPT ![IdOf[ch]] = ch]
      /\ UNCHANGED <<websocket, endpoint, channelOf>>
  BY DEF CreateChannel, sockVars
<1>2. \A c \in Chan : Registered(c) => Registered(c)'
  BY <1>1, RegistryAssumption DEF Registered, IndexInv, TypeOK
<1> QED BY <1>1, <1>2, QuietKeepsAttached DEF IndexInv

\* A channel that is removed loses its provider in the same step.
LEMMA UnregisterKeepsAttached ==
  ASSUME IndexInv, AttachedOK, NEW id \in Id, channels[id] # None, Unregister(id)
  PROVE  AttachedOK'
<1>1. /\ channels' = [channels EXCEPT ![id] = None]
      /\ websocket' = [websocket EXCEPT ![channels[id]] = None]
      /\ UNCHANGED <<endpoint, channelOf>>
      /\ channels[id] \in Chan /\ IdOf[channels[id]] = id
  BY DEF Unregister, IndexInv, IndexesAgree, TypeOK
<1>2. ASSUME NEW c \in Chan, NEW s \in Sock, websocket'[c] = s
      PROVE  websocket[c] = s /\ (Registered(c) => Registered(c)')
  <2>1. c # channels[id]
    BY <1>1, <1>2, RegistryAssumption DEF IndexInv, TypeOK
  <2>2. websocket[c] = s
    BY <1>1, <1>2, <2>1 DEF IndexInv, TypeOK
  <2>3. Registered(c) => IdOf[c] # id
    BY <2>1 DEF Registered
  <2> QED BY <1>1, <2>2, <2>3, RegistryAssumption DEF Registered, IndexInv, TypeOK
<1> QED BY <1>1, <1>2 DEF AttachedOK

\* An endpoint whose socket is the provider no more keeps what is said of the others.
LEMMA LeavingKeepsAttached ==
  ASSUME IndexInv, AttachedOK, NEW s \in Sock, NEW place,
         endpoint' = [endpoint EXCEPT ![s] = place],
         UNCHANGED <<channels, channelOf>>,
         \A ch \in Chan : websocket'[ch] \in {websocket[ch], None} /\ websocket'[ch] # s
  PROVE  AttachedOK'
<1>1. ASSUME NEW ch \in Chan, NEW r \in Sock, websocket'[ch] = r
      PROVE  websocket[ch] = r /\ endpoint'[r] = endpoint[r]
  BY <1>1, RegistryAssumption DEF IndexInv, TypeOK
<1>2. \A ch \in Chan : Registered(ch)' <=> Registered(ch)
  BY DEF Registered
<1> QED BY <1>1, <1>2 DEF AttachedOK

\* With ids that differ, provider_connected finds the channel that it was given.
LEMMA ConnectKeepsAttached ==
  ASSUME InjectiveIds, ServedInv, AttachedOK, NEW s \in Sock,
         channelOf[s] \in Chan, ProviderConnected(s),
         channels' = channels, channelOf' = channelOf,
         \A c \in Chan : websocket'[c] = websocket[c] \/ (c = channelOf[s] /\ websocket'[c] = s)
  PROVE  AttachedOK'
<1> DEFINE id == IdOf[channelOf[s]]
<1>1. /\ \A r \in Sock : r # s => endpoint'[r] = endpoint[r]
      /\ endpoint'[s] = IF channels[id] # None THEN "announced" ELSE "rejected"
  BY DEF ProviderConnected, ServedInv, IndexInv, TypeOK
<1>2. channels[id] # None => Registered(channelOf[s])
  <2>1. id \in Id /\ (channels[id] # None => channels[id] \in Chan /\ IdOf[channels[id]] = id)
    BY RegistryAssumption DEF ServedInv, IndexInv, IndexesAgree, TypeOK
  <2> QED BY <2>1 DEF InjectiveIds, Registered
<1>3. \A ch \in Chan : Registered(ch)' <=> Registered(ch)
  BY DEF Registered
<1>4. ASSUME NEW ch \in Chan, NEW r \in Sock, websocket'[ch] = r
      PROVE  /\ channelOf'[r] = ch
             /\ endpoint'[r] \in {"attaching", "announced", "rejected", "serving"}
             /\ endpoint'[r] \in {"announced", "serving"} => Registered(ch)'
  <2>1. CASE r = s
    <3>1. ch = channelOf[s]
      BY <1>4, <2>1 DEF AttachedOK
    <3> QED BY <1>1, <1>2, <1>3, <2>1, <3>1
  <2>2. CASE r # s
    <3>1. websocket[ch] = r
      BY <1>4, <2>2
    <3> QED BY <1>1, <1>3, <2>2, <3>1 DEF AttachedOK
  <2> QED BY <2>1, <2>2
<1> QED BY <1>4 DEF AttachedOK

\* Whatever an endpoint does, no provider serves a channel that is not registered.
LEMMA EndpointKeepsAttached ==
  ASSUME InjectiveIds, ServedInv, AttachedOK, NEW s \in Sock, EndpointStep(s)
  PROVE  AttachedOK'
<1> DEFINE ch == channelOf[s]
<1>0. /\ endpoint[s] \notin {"new", "gone"} => ch \in Chan
      /\ websocket \in [Chan -> Sock \union {None}] /\ None \notin Sock
      /\ endpoint \in [Sock -> {"new", "accepting", "attaching", "announced", "rejected",
                                "serving", "leaving", "gone"}]
      /\ IndexInv
  BY RegistryAssumption DEF ServedInv, HoldsChannel, IndexInv, TypeOK
<1>1. CASE Attach(s)
  <2>1. /\ endpoint[s] = "accepting" /\ ch \in Chan
        /\ websocket' = [websocket EXCEPT ![ch] = s]
        /\ UNCHANGED <<channels, channelOf>>
    BY <1>0, <1>1 DEF Attach, indexVars
  <2>2. \A c \in Chan : websocket'[c] = IF c = ch THEN s ELSE websocket[c]
    BY <1>0, <2>1
  <2>3. CASE websocket[ch] = None
    <3>1. ProviderConnected(s)
      BY <1>1, <2>3 DEF Attach
    <3>2. /\ channels' = channels /\ channelOf' = channelOf
          /\ \A c \in Chan : websocket'[c] = websocket[c] \/ (c = channelOf[s] /\ websocket'[c] = s)
      BY <2>1, <2>2
    <3>3. channelOf[s] \in Chan
      BY <2>1
    <3> QED BY <3>1, <3>2, <3>3, ConnectKeepsAttached
  <2>4. CASE websocket[ch] # None
    <3>1. endpoint' = [endpoint EXCEPT ![s] = "attaching"]
      BY <1>1, <2>4 DEF Attach
    <3>2. \A c \in Chan : Registered(c)' <=> Registered(c)
      BY <2>1 DEF Registered
    <3>3. ASSUME NEW c \in Chan, NEW r \in Sock, websocket'[c] = r
          PROVE  /\ channelOf'[r] = c
                 /\ endpoint'[r] \in {"attaching", "announced", "rejected", "serving"}
                 /\ endpoint'[r] \in {"announced", "serving"} => Registered(c)'
      <4>1. CASE r = s
        <5>1. c = ch
          BY <2>1, <2>2, <3>3, <4>1 DEF AttachedOK
        <5> QED BY <1>0, <2>1, <3>1, <4>1, <5>1
      <4>2. CASE r # s
        <5>1. websocket[c] = r /\ endpoint'[r] = endpoint[r]
          BY <1>0, <2>2, <3>1, <3>3, <4>2
        <5> QED BY <2>1, <3>2, <5>1 DEF AttachedOK
      <4> QED BY <4>1, <4>2
    <3> QED BY <3>3 DEF AttachedOK
  <2> QED BY <2>3, <2>4
<1>2. CASE AttachSettles(s)
  <2>1. channelOf[s] \in Chan /\ ProviderConnected(s)
    BY <1>0, <1>2 DEF AttachSettles
  <2>2. channels' = channels /\ channelOf' = channelOf /\ websocket' = websocket
    BY <1>2 DEF AttachSettles, indexVars
  <2>3. \A c \in Chan : websocket'[c] = websocket[c] \/ (c = channelOf[s] /\ websocket'[c] = s)
    BY <2>2
  <2> QED BY <2>1, <2>2, <2>3, ConnectKeepsAttached
<1>3. ASSUME endpoint[s] \notin {"new", "gone"}, UNCHANGED <<channels, channelOf>>, NEW place,
             endpoint' = [endpoint EXCEPT ![s] = place],
             websocket' = [websocket EXCEPT ![ch] = IF @ = s THEN None ELSE @]
      PROVE  AttachedOK'
  <2>1. \A c \in Chan : websocket[c] = s => c = ch
    BY DEF AttachedOK
  <2>2. \A c \in Chan : websocket'[c] = IF websocket[c] = s THEN None ELSE websocket[c]
    BY <1>0, <1>3, <2>1
  <2>3. \A c \in Chan : websocket'[c] \in {websocket[c], None} /\ websocket'[c] # s
    BY <1>0, <2>2
  <2> QED BY <1>0, <1>3, <2>3, LeavingKeepsAttached
<1>4. CASE TurnAway(s)
  BY <1>3, <1>4 DEF TurnAway, indexVars
<1>5. CASE Serve(s)
  <2>1. /\ endpoint[s] = "announced" /\ endpoint' = [endpoint EXCEPT ![s] = "serving"]
        /\ UNCHANGED <<channels, websocket, channelOf>>
    BY <1>5 DEF Serve, indexVars
  <2>2. \A c \in Chan : Registered(c)' <=> Registered(c)
    BY <2>1 DEF Registered
  <2> QED BY <1>0, <2>1, <2>2 DEF AttachedOK
<1>6. CASE ServeEnds(s)
  <2>1. PICK place : /\ endpoint' = [endpoint EXCEPT ![s] = place]
                     /\ endpoint[s] = "serving" /\ UNCHANGED <<channels, channelOf>>
                     /\ websocket' = [websocket EXCEPT ![ch] = IF @ = s THEN None ELSE @]
    BY <1>6 DEF ServeEnds, indexVars
  <2> QED BY <1>3, <2>1
<1>7. CASE ProviderDisconnected(s)
  <2>1. /\ endpoint[s] = "leaving" /\ endpoint' = [endpoint EXCEPT ![s] = "gone"]
        /\ UNCHANGED <<channels, websocket, channelOf>>
    BY <1>7 DEF ProviderDisconnected, indexVars
  <2>2. \A c \in Chan : websocket'[c] \in {websocket[c], None} /\ websocket'[c] # s
    BY <2>1 DEF AttachedOK
  <2> QED BY <1>0, <2>1, <2>2, LeavingKeepsAttached
<1> QED BY <1>1, <1>2, <1>4, <1>5, <1>6, <1>7 DEF EndpointStep

\* A socket that authenticates is no channel's provider yet.
LEMMA AuthenticateKeepsAttached ==
  ASSUME IndexInv, AttachedOK, NEW s \in Sock, NEW t \in Token, Authenticate(s, t)
  PROVE  AttachedOK'
<1>1. /\ endpoint[s] = "new" /\ UNCHANGED <<channels, websocket>>
      /\ \A r \in Sock : r # s => endpoint'[r] = endpoint[r] /\ channelOf'[r] = channelOf[r]
  BY DEF Authenticate, indexVars, IndexInv, TypeOK
<1>2. \A ch \in Chan : websocket[ch] # s
  BY <1>1 DEF AttachedOK
<1>3. \A ch \in Chan : Registered(ch)' <=> Registered(ch)
  BY <1>1 DEF Registered
<1> QED BY <1>1, <1>2, <1>3 DEF AttachedOK

\* With ids that are never shared, every step of the registry keeps providers in order.
LEMMA AttachedStep ==
  ASSUME InjectiveIds, ServedInv, AttachedOK, [Next]_vars
  PROVE  AttachedOK'
<1>0. IndexInv /\ TypeOK
  BY DEF ServedInv, IndexInv
<1>1. ASSUME NEW ch \in Chan, NEW m \in Token, NEW p \in Token, NEW ttl \in InitialTtl,
             CreateChannel(ch, m, p, ttl)
      PROVE  AttachedOK'
  BY <1>0, <1>1, CreateKeepsAttached
<1>2. ASSUME NEW id \in Id, RemoveChannel(id) PROVE AttachedOK'
  BY <1>0, <1>2, UnregisterKeepsAttached DEF RemoveChannel
<1>3. ASSUME NEW id \in Id, SweepNext(id) PROVE AttachedOK'
  <2>1. CASE channels[id] = None \/ ~Offline(id)
    BY <1>0, <1>3, <2>1, SameChannelsKeepAttached DEF SweepNext, indexVars, sockVars
  <2>2. CASE channels[id] # None /\ Offline(id)
    BY <1>0, <1>3, <2>2, UnregisterKeepsAttached DEF SweepNext
  <2> QED BY <2>1, <2>2
<1>4. CASE SweepStarts \/ Tick
  BY <1>0, <1>4, SameChannelsKeepAttached DEF SweepStarts, Tick, indexVars, sockVars
<1>5. ASSUME NEW s \in Sock, EndpointStep(s) PROVE AttachedOK'
  BY <1>5, EndpointKeepsAttached
<1>6. ASSUME NEW s \in Sock, PeerLeaves(s) PROVE AttachedOK'
  BY <1>0, <1>6, SameChannelsKeepAttached DEF PeerLeaves, indexVars
<1>7. ASSUME NEW s \in Sock, NEW t \in Token, Authenticate(s, t) PROVE AttachedOK'
  BY <1>0, <1>7, AuthenticateKeepsAttached
<1>8. CASE UNCHANGED vars
  BY <1>0, <1>8, SameChannelsKeepAttached DEF vars, indexVars, sockVars
<1> QED BY <1>1, <1>2, <1>3, <1>4, <1>5, <1>6, <1>7, <1>8 DEF Next

\* While ids are unique, a reconnect that races the removal of its channel never leaves a
\* provider serving an orphan: provider_connected finds no channel and it is turned away.
THEOREM OrphansAreNeverServed ==
  ASSUME InjectiveIds PROVE Spec => []NoOrphanIsServed
<1>1. Init => ServedInv /\ AttachedOK
  BY ServedInvInitially, RegistryAssumption DEF Init, AttachedOK
<1>2. ServedInv /\ AttachedOK /\ [Next]_vars => ServedInv' /\ AttachedOK'
  BY ServedInvStep, AttachedStep
<1>3. AttachedOK => NoOrphanIsServed
  BY DEF AttachedOK, NoOrphanIsServed, Orphaned
<1> QED BY <1>1, <1>2, <1>3, PTL DEF Spec

-----------------------------------------------------------------------------
(* The registry implements one table of channels *)

\* An entry of the table, which is in it while its channel is registered.
Entry(i) == [id |-> i, channel |-> channels[i], mcp |-> mcpToken[channels[i]],
             provider |-> providerToken[channels[i]]]

\* The table has the entry of each id in use.
LEMMA TableIsEntries ==
  /\ \A e : e \in TableOf <=> \E i \in Ids : e = Entry(i)
  /\ \A i \in Ids : /\ Entry(i) \in TableOf /\ Entry(i).id = i
                    /\ Entry(i).channel = channels[i]
                    /\ Entry(i).mcp = mcpToken[channels[i]]
                    /\ Entry(i).provider = providerToken[channels[i]]
  /\ Table!IdsInUse = Ids
<1>1. \A e : e \in TableOf <=> \E i \in Ids : e = Entry(i)
  BY DEF TableOf, Entry
<1>2. \A i \in Ids : /\ Entry(i).id = i /\ Entry(i).channel = channels[i]
                     /\ Entry(i).mcp = mcpToken[channels[i]]
                     /\ Entry(i).provider = providerToken[channels[i]]
  BY DEF Entry
<1>3. \A i \in Ids : Entry(i) \in TableOf
  BY <1>1
<1>4. \A i : i \in Table!IdsInUse <=> \E e \in TableOf : e.id = i
  BY DEF Table!IdsInUse
<1>5. Table!IdsInUse = Ids
  BY <1>1, <1>2, <1>3, <1>4
<1> QED BY <1>1, <1>2, <1>3, <1>5

\* What the indexes say of a token is what the table says of it.
LEMMA IndexesAreTable ==
  ASSUME IndexInv PROVE LookupsAgree
<1>1. \A t \in Token, i \in Id :
        /\ byMcp[t] = i <=> i \in Ids /\ mcpToken[channels[i]] = t
        /\ byProvider[t] = i <=> i \in Ids /\ providerToken[channels[i]] = t
  BY DEF IndexInv, IndexesAgree, Ids
<1>2. \A t \in Token : byMcp[t] \in Id \union {None} /\ byProvider[t] \in Id \union {None}
  BY DEF IndexInv, TypeOK
<1>3. ASSUME NEW t \in Token
      PROVE  /\ byMcp[t] # None <=> \E i \in Ids : mcpToken[channels[i]] = t
             /\ byProvider[t] # None <=> \E i \in Ids : providerToken[channels[i]] = t
  BY <1>1, <1>2, RegistryAssumption DEF Ids
<1>4. ASSUME NEW t \in Token PROVE TokenTaken(t) <=> Table!Taken(t)
  <2>1. Table!Taken(t) <=> \E i \in Ids : t = mcpToken[channels[i]] \/ t = providerToken[channels[i]]
    BY TableIsEntries DEF Table!Taken
  <2> QED BY <1>3, <2>1 DEF TokenTaken
<1>5. ASSUME NEW t \in Token, NEW ch \in Chan
      PROVE  Table!ClientFinds(t, ch) <=> byMcp[t] # None /\ channels[byMcp[t]] = ch
  <2>1. Table!ClientFinds(t, ch) <=> \E i \in Ids : mcpToken[channels[i]] = t /\ channels[i] = ch
    BY TableIsEntries DEF Table!ClientFinds
  <2> QED BY <1>1, <1>2, <2>1, RegistryAssumption DEF Ids
<1>6. ASSUME NEW t \in Token, NEW ch \in Chan
      PROVE  Table!ProviderFinds(t, ch) <=> byProvider[t] # None /\ channels[byProvider[t]] = ch
  <2>1. Table!ProviderFinds(t, ch) <=> \E i \in Ids : /\ providerToken[channels[i]] = t
                                                      /\ channels[i] = ch
    BY TableIsEntries DEF Table!ProviderFinds
  <2> QED BY <1>1, <1>2, <2>1, RegistryAssumption DEF Ids
<1> QED BY <1>4, <1>5, <1>6 DEF LookupsAgree

\* A created channel is a new entry.
LEMMA CreateMaps ==
  ASSUME IndexInv,
         NEW ch \in Chan, NEW m \in Token, NEW p \in Token, NEW ttl \in InitialTtl,
         CreateChannel(ch, m, p, ttl)
  PROVE  Table!Create(IdOf[ch], ch, m, p)
<1> DEFINE id == IdOf[ch]
<1>1. /\ id \in Id /\ channels[id] = None /\ mcpToken[ch] = None
      /\ channels' = [channels EXCEPT ![id] = ch]
      /\ mcpToken' = [mcpToken EXCEPT ![ch] = m]
      /\ providerToken' = [providerToken EXCEPT ![ch] = p]
      /\ m # p /\ ~TokenTaken(m) /\ ~TokenTaken(p) /\ Cardinality(Ids) < MaxChannels
  BY RegistryAssumption DEF CreateChannel
<1>2. /\ channels \in [Id -> Chan \union {None}] /\ ch # None
      /\ mcpToken \in [Chan -> Token \union {None}]
      /\ providerToken \in [Chan -> Token \union {None}]
      /\ None \notin Token
  BY RegistryAssumption DEF IndexInv, TypeOK
<1>3. \A i \in Ids : channels[i] \in Chan /\ channels[i] # ch
  BY <1>1, <1>2 DEF IndexInv, HasTokens, Ids
<1>4. Ids' = Ids \union {id} /\ id \notin Ids
  BY <1>1, <1>2 DEF Ids
<1>5. \A i \in Ids : Entry(i)' = Entry(i)
  BY <1>1, <1>2, <1>3, <1>4 DEF Entry, Ids
<1>6. Entry(id)' = [id |-> id, channel |-> ch, mcp |-> m, provider |-> p]
  BY <1>1, <1>2 DEF Entry
<1>7. TableOf' = TableOf \union {[id |-> id, channel |-> ch, mcp |-> m, provider |-> p]}
  <2>1. TableOf' = {Entry(i)' : i \in Ids'}
    BY DEF TableOf, Entry
  <2>2. {Entry(i)' : i \in Ids'} = {Entry(i) : i \in Ids} \union {Entry(id)'}
    BY <1>4, <1>5
  <2> QED BY <1>6, <2>1, <2>2, TableIsEntries
<1>8. Table!Cardinality(Ids) = Cardinality(Ids)
  BY DEF Table!Cardinality, Cardinality
<1>9. ~Table!Taken(m) /\ ~Table!Taken(p)
  BY <1>1, IndexesAreTable DEF LookupsAgree
<1>10. Table!MayCreate(id, m, p)
  BY <1>1, <1>4, <1>8, <1>9, TableIsEntries DEF Table!MayCreate
<1>11. \A e \in TableOf : e.channel # ch
  BY <1>3, TableIsEntries DEF Entry
<1> QED BY <1>7, <1>10, <1>11 DEF Table!Create

\* A removed channel is one entry less.
LEMMA UnregisterMaps ==
  ASSUME IndexInv, NEW id \in Id, channels[id] # None, Unregister(id)
  PROVE  Table!Remove(id)
<1>1. /\ channels' = [channels EXCEPT ![id] = None] /\ UNCHANGED <<mcpToken, providerToken>>
      /\ channels \in [Id -> Chan \union {None}]
  BY DEF Unregister, IndexInv, TypeOK
<1>2. Ids' = Ids \ {id} /\ \A i \in Ids \ {id} : Entry(i)' = Entry(i)
  BY <1>1 DEF Ids, Entry
<1>3. TableOf' = {Entry(i)' : i \in Ids'}
  BY DEF TableOf, Entry
<1>4. \A i \in Ids : Entry(i).id = i
  BY DEF Entry
<1>5. TableOf' = {e \in TableOf : e.id # id}
  BY <1>2, <1>3, <1>4, TableIsEntries
<1> QED BY <1>5 DEF Table!Remove

\* Every step creates or removes an entry of the table, or leaves it as it is.
LEMMA RegistryStepMaps ==
  ASSUME IndexInv, [Next]_vars
  PROVE  [Table!Next]_TableOf
<1>1. ASSUME UNCHANGED indexVars PROVE UNCHANGED TableOf
  BY <1>1 DEF indexVars, TableOf, Ids
<1>2. ASSUME NEW ch \in Chan, NEW m \in Token, NEW p \in Token, NEW ttl \in InitialTtl,
             CreateChannel(ch, m, p, ttl)
      PROVE  Table!Next
  <2>1. IdOf[ch] \in Id
    BY RegistryAssumption
  <2> QED BY <1>2, <2>1, CreateMaps DEF Table!Next
<1>3. ASSUME NEW id \in Id, RemoveChannel(id) PROVE Table!Next
  BY <1>3, UnregisterMaps DEF RemoveChannel, Table!Next
<1>4. ASSUME NEW id \in Id, SweepNext(id) PROVE Table!Next \/ UNCHANGED indexVars
  BY <1>4, UnregisterMaps DEF SweepNext, Table!Next
<1>5. ASSUME NEW s \in Sock, EndpointStep(s) PROVE UNCHANGED indexVars
  BY <1>5 DEF EndpointStep, Attach, AttachSettles, TurnAway, Serve, ServeEnds,
              ProviderDisconnected
<1>6. ASSUME NEW s \in Sock, PeerLeaves(s) \/ \E t \in Token : Authenticate(s, t)
      PROVE  UNCHANGED indexVars
  BY <1>6 DEF PeerLeaves, Authenticate
<1>7. CASE SweepStarts \/ Tick \/ UNCHANGED vars
  BY <1>1, <1>7 DEF SweepStarts, Tick, vars
<1> QED BY <1>1, <1>2, <1>3, <1>4, <1>5, <1>6, <1>7 DEF Next

\* The dicts of channels and tokens and the tokens kept in the channel objects, with all
\* that endpoints and reaper do in between, implement one table (registry.py:95-164).
THEOREM RegistryImplementsTable == Spec => ImplementsTable
<1>1. Init => Table!Init
  BY DEF Init, Table!Init, TableOf, Ids
<1> QED BY <1>1, IndexInvInitially, IndexInvStep, RegistryStepMaps, PTL
        DEF Spec, ImplementsTable, Table!Spec

\* A token resolves to the channel whose entry it is, and to no other, and is taken for a
\* new channel exactly when an entry has it (registry.py:56-71, 203-204).
THEOREM LookupsAlwaysAgree == Spec => []LookupsAgree
<1>1. IndexInv => LookupsAgree
  BY IndexesAreTable
<1> QED BY <1>1, IndexInvInitially, IndexInvStep, PTL DEF Spec
=============================================================================
