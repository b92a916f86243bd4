------------------------------ MODULE McpAccess ------------------------------
(***************************************************************************)
(* Who may use the MCP endpoint in OAuth mode (gateway.py mcp_asgi): the   *)
(* channel grants in sqlite (oauth/sqlite_grants.py), the bindings of MCP  *)
(* sessions to identities (oauth/session_binding.py), and the requests,    *)
(* which are authorized on entry and again before each message they send.  *)
(*                                                                         *)
(* An authorization awaits the token's verifier, which reads nothing that  *)
(* is modelled here, and then the grants, and the caller goes on with what *)
(* it was told: grants, channels and bindings may change in between.  A    *)
(* channel is a number, so that two channels with one id are told apart,   *)
(* as the code's `is` does.                                                *)
(***************************************************************************)
EXTENDS Naturals, FiniteSets

CONSTANTS
  Request,      \* HTTP requests being handled at once
  Bare,         \* those on the route that names no channel
  Principal,    \* what principal_id hashes: issuer, subject and client
  Id,           \* channel ids
  Session,      \* MCP session ids
  None,         \* no value in a field
  MaxSessions,  \* MemoryMcpSessionBindingStore.maximum_sessions
  IdleTicks,    \* idle_seconds, in ticks of the model
  MaxGrants,    \* SqliteChannelGrantStore.maximum_grants
  MaxChannels   \* bound of the model: channels created in a behaviour

ASSUME McpAccessAssumption ==
  /\ Bare \subseteq Request
  /\ MaxSessions \in Nat \ {0} /\ IdleTicks \in Nat \ {0}
  /\ MaxGrants \in Nat \ {0} /\ MaxChannels \in Nat
  /\ None \notin Id \union Session \union Principal
  /\ None \notin [principal : Principal, id : Id]
  /\ None \notin [who : [principal : Principal, id : Id], left : 0..IdleTicks]

VARIABLES
  registered,  \* the registry: the channel of each id, 0 when there is none
  made,        \* channels created so far
  removing,    \* removals that left the registry and are not over
  grants,      \* the rows of oauth_grants: <<owner, channel id>>
  bound,       \* the binding of each session: identity and ticks left
  order,       \* the order of the dict of bindings: <<z, s>> when z stands before s
  req,         \* where each request stands, and what it read
  owner,       \* the session manager's sessions: for whom each was created
  late         \* history: messages of each request sent since its grant ended

store == <<bound, order>>
vars  == <<registered, made, removing, grants, store, req, owner, late>>

Identity == [principal : Principal, id : Id]

Idle == [at |-> "idle", principal |-> None, addressed |-> None,
         session |-> None, found |-> None, channel |-> 0, started |-> FALSE]

\* `found` is the channel id the last authorization resolved, `channel` and `addressed`
\* the channel the request entered with and the one its path names.
RequestState ==
  [at : {"idle", "entering", "handled", "sending"},
   principal : Principal \union {None}, addressed : Id \union {None},
   session : Session \union {None}, found : Id \union {None},
   channel : 0..MaxChannels, started : BOOLEAN]

Bound == {s \in Session : bound[s] # None}

\* The keys of a dict stand in one order.
Ordered ==
  /\ order \subseteq Bound \X Bound
  /\ \A s, z \in Bound : s # z => (<<s, z>> \in order <=> <<z, s>> \notin order)
  /\ \A s \in Bound : <<s, s>> \notin order
  /\ \A s, y, z \in Bound : <<s, y>> \in order /\ <<y, z>> \in order => <<s, z>> \in order

TypeOK ==
  /\ registered \in [Id -> 0..MaxChannels] /\ made \in 0..MaxChannels
  /\ removing \subseteq [id : Id, channel : 1..MaxChannels, step : {"closing", "revoking"}]
  /\ grants \subseteq Principal \X Id /\ Cardinality(grants) <= MaxGrants
  /\ bound \in [Session -> [who : Identity, left : 0..IdleTicks] \union {None}]
  /\ Ordered /\ Cardinality(Bound) <= MaxSessions
  /\ req \in [Request -> RequestState]
  /\ owner \in [Session -> Identity \union {None}]
  /\ late \in [Request -> Nat]

Init ==
  /\ registered = [i \in Id |-> 0] /\ made = 0 /\ removing = {} /\ grants = {}
  /\ bound = [s \in Session |-> None] /\ order = {}
  /\ req = [r \in Request |-> Idle]
  /\ owner = [s \in Session |-> None]
  /\ late = [r \in Request |-> 0]

--------------------------------------------------------------------------------
(* The bindings: a dict that keeps the order in which its keys were put.        *)

\* _purge stops at the first binding that is not idle for too long.
Purged == {s \in Bound : \A z \in Bound : z = s \/ <<z, s>> \in order => bound[z].left = 0}

\* The order of the keys that stay.
Kept(rest) == order \intersect (rest \X rest)

Unbound(gone) == /\ bound' = [s \in Session |-> IF s \in gone THEN None ELSE bound[s]]
                 /\ order' = Kept(Bound \ gone)

Fresh(who) == [who |-> who, left |-> IdleTicks]

\* Mutation: a binding too many.
Bindable_OffByOne(s, who) ==
  IF s \in Bound \ Purged THEN bound[s].who = who
  ELSE Cardinality(Bound \ Purged) <= MaxSessions

Bindable(s, who) ==
  IF s \in Bound \ Purged THEN bound[s].who = who
  ELSE Cardinality(Bound \ Purged) < MaxSessions

\* bind, after which the binding goes at once when the response ends the session.
Bind(s, who, kept) ==
  /\ bound' = [z \in Session |-> IF z = s THEN (IF kept THEN Fresh(who) ELSE None)
                                 ELSE IF z \in Purged THEN None ELSE bound[z]]
  /\ LET rest == Bound \ (Purged \union {s})
     IN order' = Kept(rest) \union (IF kept THEN rest \X {s} ELSE {})

\* Mutation: the owner of the session is not compared.
Acceptable_AnyIdentity(s, who) == s \in Bound /\ bound[s].left > 0

Acceptable(s, who) == s \in Bound /\ bound[s].left > 0 /\ bound[s].who = who

\* Mutation: the binding is renewed where it stands.
Renew_InPlace(s) ==
  /\ bound' = [bound EXCEPT ![s].left = IdleTicks]
  /\ UNCHANGED order

Renew(s) ==
  /\ bound' = [bound EXCEPT ![s].left = IdleTicks]
  /\ LET rest == Bound \ {s} IN order' = Kept(rest) \union (rest \X {s})

Tick ==
  /\ \E s \in Bound : bound[s].left > 0
  /\ bound' = [s \in Session |-> IF s \in Bound /\ bound[s].left > 0
                                 THEN [bound[s] EXCEPT !.left = @ - 1] ELSE bound[s]]
  /\ UNCHANGED <<registered, made, removing, grants, order, req, owner, late>>

--------------------------------------------------------------------------------
(* Channels and grants.                                                         *)

Create(i) ==
  /\ registered[i] = 0 /\ made < MaxChannels
  /\ made' = made + 1
  /\ registered' = [registered EXCEPT ![i] = made + 1]
  /\ UNCHANGED <<removing, grants, store, req, owner, late>>

\* remove_channel: out of the registry, then close, which awaits, then the listeners.
Remove(i) ==
  /\ registered[i] # 0
  /\ registered' = [registered EXCEPT ![i] = 0]
  /\ removing' = removing \union {[id |-> i, channel |-> registered[i], step |-> "closing"]}
  /\ UNCHANGED <<made, grants, store, req, owner, late>>

RemovalUnbinds(m) ==
  /\ m.step = "closing"
  /\ Unbound({s \in Bound : bound[s].who.id = m.id})
  /\ removing' = (removing \ {m}) \union {[m EXCEPT !.step = "revoking"]}
  /\ UNCHANGED <<registered, made, grants, req, owner, late>>

\* The listener's failure is logged: the rows then stay.
RemovalRevokes(m) ==
  /\ m.step = "revoking"
  /\ removing' = removing \ {m}
  /\ \/ grants' = {g \in grants : g[2] # m.id}
     \/ UNCHANGED grants
  /\ UNCHANGED <<registered, made, store, req, owner, late>>

\* The application grants a channel that it finds registered; a row of its own is renewed.
Grant(p, i) ==
  /\ registered[i] # 0
  /\ <<p, i>> \in grants \/ Cardinality(grants) < MaxGrants
  /\ grants' = grants \union {<<p, i>>}
  /\ late' = [r \in Request |-> IF req[r].principal = p THEN 0 ELSE late[r]]
  /\ UNCHANGED <<registered, made, removing, store, req, owner>>

\* The application revokes the grant, or its deadline passes.
Revoke(g) ==
  /\ grants' = grants \ {g}
  /\ UNCHANGED <<registered, made, removing, store, req, owner, late>>

--------------------------------------------------------------------------------
(* Requests.  One is "entering" or "sending" once its authorization has read the  *)
(* grants; before, it has read nothing that is modelled, and is not seen.        *)

Who(r) == [principal |-> req[r].principal, id |-> req[r].found]

\* The request goes on; whose it is, the path and the session id stay.
Goes(r, at, found, channel, started) ==
  req' = [req EXCEPT ![r] =
           [at |-> at, principal |-> req[r].principal, addressed |-> req[r].addressed,
            session |-> req[r].session, found |-> found, channel |-> channel,
            started |-> started]]

Forgotten(r) == req' = [req EXCEPT ![r] = Idle] /\ late' = [late EXCEPT ![r] = 0]

\* The error is raised: once handled, the request's own binding goes with those purged.
Denied(r, purged) ==
  /\ Unbound(IF req[r].at = "entering" THEN {} ELSE purged \union {req[r].session})
  /\ Forgotten(r)
  /\ UNCHANGED owner

\* DenyUnlessGranted.resolve: the channel the path names, or else the only one.
Resolves(p, addressed, i) ==
  /\ <<p, i>> \in grants
  /\ IF addressed # None THEN i = addressed ELSE \A j \in Id : <<p, j>> \in grants => j = i

\* A request without a good token or without a grant is refused, and leaves no trace.
Arrive(r, p, addressed, s, i) ==
  /\ req[r].at = "idle" /\ (r \in Bare <=> addressed = None)
  /\ Resolves(p, addressed, i)
  /\ req' = [req EXCEPT ![r] = [at |-> "entering", principal |-> p, addressed |-> addressed,
                                session |-> s, found |-> i, channel |-> 0, started |-> FALSE]]
  /\ UNCHANGED <<registered, made, removing, grants, store, owner, late>>

\* The request enters with the channel registered now, if its session is its own.
Enter(r) ==
  /\ req[r].at = "entering"
  /\ LET s == req[r].session
         entitled == registered[req[r].found] # 0
         own == s # None => Acceptable(s, Who(r))
     IN \/ /\ entitled /\ own
           /\ IF s = None THEN UNCHANGED store ELSE Renew(s)
           /\ Goes(r, "handled", req[r].found, registered[req[r].found], FALSE)
           /\ UNCHANGED <<owner, late>>
        \/ ~(entitled /\ own) /\ Denied(r, {})
  /\ UNCHANGED <<registered, made, removing, grants>>

\* Mutation: the grants are read again for the first message only.
Authorize_Once(r) ==
  /\ req[r].at = "handled"
  /\ \/ Denied(r, {})
     \/ \E i \in Id :
          /\ IF req[r].started THEN i = req[r].found
             ELSE Resolves(req[r].principal, req[r].addressed, i)
          /\ Goes(r, "sending", i, req[r].channel, req[r].started)
          /\ UNCHANGED <<store, owner, late>>
  /\ UNCHANGED <<registered, made, removing, grants>>

\* The session manager sends a message, and guarded_send authorizes the request again: its
\* token may have expired or been revoked, the verifier be out of reach, the grant be gone.
Authorize(r) ==
  /\ req[r].at = "handled"
  /\ \/ Denied(r, {})
     \/ \E i \in Id :
          /\ Resolves(req[r].principal, req[r].addressed, i)
          /\ Goes(r, "sending", i, req[r].channel, req[r].started)
          /\ UNCHANGED <<store, owner, late>>
  /\ UNCHANGED <<registered, made, removing, grants>>

\* Mutation: the channel is not looked up in the registry.
SameChannel_Unchecked(r) == TRUE

\* The channel registered now is the one the request entered with.
SameChannel(r) == registered[req[r].found] = req[r].channel

Holds(r) == <<req[r].principal, req[r].found>> \in grants

Sent(r) ==
  /\ Goes(r, "handled", req[r].found, req[r].channel, TRUE)
  /\ late' = [late EXCEPT ![r] = IF Holds(r) THEN 0 ELSE @ + 1]

\* The first message names the session, which is new if the request named none.  `kept`
\* is FALSE when the request is a DELETE that succeeded.
EmitStart(r, s, kept) ==
  /\ req[r].at = "sending" /\ ~req[r].started
  /\ SameChannel(r)
  /\ IF req[r].session = None THEN owner[s] = None ELSE s = req[r].session
  /\ req[r].session # None \/ kept
  /\ \/ /\ Bindable(s, Who(r))
        /\ Bind(s, Who(r), kept)
        /\ owner' = IF req[r].session = None THEN [owner EXCEPT ![s] = Who(r)] ELSE owner
        /\ Sent(r)
     \/ ~Bindable(s, Who(r)) /\ Denied(r, Purged)
  /\ UNCHANGED <<registered, made, removing, grants>>

\* The first message of a response to a DELETE that succeeded and names no session.
EmitDeleted(r) ==
  /\ req[r].at = "sending" /\ ~req[r].started /\ req[r].session # None
  /\ SameChannel(r)
  /\ Unbound({req[r].session})
  /\ Sent(r)
  /\ UNCHANGED <<registered, made, removing, grants, owner>>

\* A message of a response under way, or the first of one to another request that names
\* no session.
EmitBody(r) ==
  /\ req[r].at = "sending"
  /\ SameChannel(r)
  /\ Sent(r)
  /\ UNCHANGED <<registered, made, removing, grants, store, owner>>

EmitRefused(r) ==
  /\ req[r].at = "sending"
  /\ ~SameChannel(r)
  /\ Denied(r, {})
  /\ UNCHANGED <<registered, made, removing, grants>>

\* The response is complete, the client is gone, or, on entry, the request is over a budget.
Ends(r) ==
  /\ req[r].at # "idle"
  /\ Forgotten(r)
  /\ UNCHANGED <<registered, made, removing, grants, store, owner>>

\* The process restarts: only the grants are durable.
Restart ==
  /\ registered' = [i \in Id |-> 0] /\ removing' = {}
  /\ bound' = [s \in Session |-> None] /\ order' = {}
  /\ req' = [r \in Request |-> Idle]
  /\ owner' = [s \in Session |-> None]
  /\ late' = [r \in Request |-> 0]
  /\ UNCHANGED <<made, grants>>

RequestStep(r) ==
  \/ \E p \in Principal, addressed \in Id \union {None}, s \in Session \union {None}, i \in Id :
       Arrive(r, p, addressed, s, i)
  \/ Enter(r) \/ Authorize(r)
  \/ \E s \in Session, kept \in BOOLEAN : EmitStart(r, s, kept)
  \/ EmitDeleted(r) \/ EmitBody(r) \/ EmitRefused(r) \/ Ends(r)

Next ==
  \/ \E r \in Request : RequestStep(r)
  \/ \E i \in Id : Create(i) \/ Remove(i)
  \/ \E m \in removing : RemovalUnbinds(m) \/ RemovalRevokes(m)
  \/ \E p \in Principal, i \in Id : Grant(p, i)
  \/ \E g \in grants : Revoke(g)
  \/ Tick \/ Restart

Spec == Init /\ [][Next]_vars

--------------------------------------------------------------------------------
(* Properties.                                                                  *)

\* An MCP session is bound to, and used by, the identity it was created for, though its
\* binding may expire, be purged or removed and come back with a response that was
\* under way (session_binding.py:42-69).
SessionStaysWithOwner ==
  /\ \A s \in Bound : owner[s] = bound[s].who
  /\ \A r \in Request :
       req[r].at = "handled" /\ req[r].session # None => owner[req[r].session] = Who(r)

\* Every idle binding stands before those in use, so the purge finds all of them and a
\* new session is refused only when MaxSessions are in use (session_binding.py:71-80).
IdleBindingsArePurged == {s \in Bound : bound[s].left = 0} = Purged

\* After a grant ended, a response sends one more message at most, the one whose
\* authorization had already read the grant (gateway.py:688-710).
OneLateMessage == \A r \in Request : late[r] <= 1

\* A binding outlives its channel's registration only until the removal under way
\* reaches it: no response that was under way brings it back (gateway.py:692-704).
BindingsEndWithTheChannel ==
  \A s \in Bound :
    LET i == bound[s].who.id
    IN registered[i] # 0 \/ \E m \in removing : m.id = i /\ m.step = "closing"

--------------------------------------------------------------------------------
(* The bindings seen without their order and the purge: those in use.           *)

UsingOf == [s \in Session |-> IF s \in Bound /\ bound[s].left > 0 THEN bound[s] ELSE None]

Sessions == INSTANCE SessionTable WITH using <- UsingOf

\* Idle bindings that the purge has not reached are not to be seen
\* (session_binding.py:42-89).
ImplementsSessions == Sessions!Spec

\* A session is refused because of its identity or of MaxSessions others in use, and never
\* because of bindings that are idle (session_binding.py:42-56).
BindingDecisionsAgree ==
  \A s \in Session, who \in Identity : Bindable(s, who) <=> Sessions!MayUse(s, who)
=============================================================================
