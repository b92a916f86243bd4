---------------------------- MODULE ProviderPump ----------------------------
(***************************************************************************)
(* The receive loop of a provider endpoint (gateway.py) and the frames it  *)
(* handles one at a time (channel.py handle_provider_message): a provider  *)
(* publishes a registry and is sent an ack; it asks for an operation the   *)
(* MCP client serves (sampling, elicitation) and is sent a response; a     *)
(* ping or a malformed frame is answered too.                              *)
(*                                                                         *)
(* Both take several awaits, and the loop reads nothing meanwhile, while   *)
(* other connections attach.  ChannelRelay has the requests in the other   *)
(* direction; of those, only what routes a provider's call is kept here.   *)
(***************************************************************************)
EXTENDS Naturals, FiniteSets

CONSTANTS
  Sock,          \* provider connections, each attached at most once
  Session,       \* MCP client sessions
  Call,          \* requests relayed with their session: tools, resources, prompts
  None,          \* no socket, no session, no request
  SessionOf,     \* Call -> Session: the session a request came from
  MayGuess       \* oauth_mode is "off", or the channel authenticates by token

ASSUME PumpAssumption ==
  /\ None \notin Sock \union Session \union Call
  /\ SessionOf \in [Call -> Session]
  /\ MayGuess \in BOOLEAN

VARIABLES
  websocket,     \* Channel._websocket
  open,          \* sockets that are still connected
  endpoint,      \* where the endpoint task of each socket stands
  reply,         \* the frame it is sending: its kind and the snapshot of _websocket
  asked,         \* the session it is waiting for
  publisher,     \* the connection whose items the registry holds
  pending,       \* Channel._pending
  seen,          \* requests each socket was sent
  latest,        \* the most recently remembered session (_latest_session)
  answers        \* acks and responses each socket was sent, and whose frames they answer

vars == <<websocket, open, endpoint, reply, asked, publisher, pending, seen, latest,
          answers>>

\* "other" stands for hello.ack, pong and protocol.error.
Kinds == {"ack", "response", "error", "other"}

TypeOK ==
  /\ websocket \in Sock \union {None}
  /\ open \in SUBSET Sock
  /\ endpoint \in [Sock -> {"new", "attached", "reading", "notifying", "asking", "sending",
                            "gone"}]
  /\ reply \in [Sock -> [kind : Kinds, to : Sock \union {None}]]
  /\ asked \in [Sock -> Session \union {None}]
  /\ publisher \in Sock \union {None}
  /\ pending \in SUBSET Call
  /\ seen \in [Sock -> SUBSET Call]
  /\ latest \in Session \union {None}
  /\ answers \in [Sock -> SUBSET ({"ack", "response"} \X Sock)]

Init ==
  /\ websocket = None
  /\ open = Sock
  /\ endpoint = [s \in Sock |-> "new"]
  /\ reply = [s \in Sock |-> [kind |-> "ack", to |-> None]]
  /\ asked = [s \in Sock |-> None]
  /\ publisher = None
  /\ pending = {}
  /\ seen = [s \in Sock |-> {}]
  /\ latest = None
  /\ answers = [s \in Sock |-> {}]

-----------------------------------------------------------------------------
(* Attach, detach and the client's side *)

\* The new socket becomes current; what the replaced one published is cleared.
\* Closing the replaced one and notifying the clients is awaited before hello.ack.
Attach(s) ==
  /\ endpoint[s] = "new"
  /\ endpoint' = [endpoint EXCEPT ![s] = "attached"]
  /\ websocket' = s
  /\ open' = open \ {websocket}
  /\ publisher' = None
  /\ pending' = {}
  /\ UNCHANGED <<reply, asked, seen, latest, answers>>

\* The endpoint's finally: detach clears the channel of its own socket.
EndpointOver(s) ==
  /\ endpoint' = [endpoint EXCEPT ![s] = "gone"]
  /\ IF websocket = s
       THEN websocket' = None /\ publisher' = None /\ pending' = {}
       ELSE UNCHANGED <<websocket, publisher, pending>>

\* A request is sent to the provider; its session becomes the latest one.
StartRequest(c) ==
  /\ websocket # None
  /\ \A s \in Sock : c \notin seen[s]
  /\ pending' = pending \union {c}
  /\ seen' = [seen EXCEPT ![websocket] = @ \union {c}]
  /\ latest' = SessionOf[c]
  /\ UNCHANGED <<websocket, open, endpoint, reply, asked, publisher, answers>>

\* It is answered, times out or is cancelled.
EndRequest(c) ==
  /\ c \in pending
  /\ pending' = pending \ {c}
  /\ UNCHANGED <<websocket, open, endpoint, reply, asked, publisher, seen, latest, answers>>

\* Any MCP request remembers its session; dead and evicted sessions are dropped.
Remember(x) ==
  /\ latest # x
  /\ latest' = x
  /\ UNCHANGED <<websocket, open, endpoint, reply, asked, publisher, pending, seen, answers>>

PeerLeaves(s) ==
  /\ s \in open
  /\ open' = open \ {s}
  /\ UNCHANGED <<websocket, endpoint, reply, asked, publisher, pending, seen, latest, answers>>

-----------------------------------------------------------------------------
(* handle_provider_message *)

\* A frame is handled for the current socket only.
Reads(s) == endpoint[s] = "reading" /\ websocket = s

\* send_to_provider: the frame is for the websocket of this moment, which need not be s.
SendReply(s, kind) ==
  /\ websocket # None
  /\ endpoint' = [endpoint EXCEPT ![s] = "sending"]
  /\ reply' = [reply EXCEPT ![s] = [kind |-> kind, to |-> websocket]]
  /\ UNCHANGED <<websocket, publisher, pending>>

\* ChannelOfflineError ends the loop when there is no websocket to send to.
ReplyOrEnd(s, kind) ==
  \/ SendReply(s, kind)
  \/ websocket = None /\ EndpointOver(s) /\ UNCHANGED reply

\* hello.ack is sent once attach is over, and only then does the loop read.
Greet(s) ==
  /\ endpoint[s] = "attached"
  /\ ReplyOrEnd(s, "other")
  /\ UNCHANGED <<open, asked, seen, latest, answers>>

\* A ping gets a pong, a frame the channel rejects a protocol.error.
OtherFrame(s) ==
  /\ Reads(s)
  /\ ReplyOrEnd(s, "other")
  /\ UNCHANGED <<open, asked, seen, latest, answers>>

\* Mutation: the frame of a superseded socket is handled like any other.
Register_AnySocket(s) ==
  /\ endpoint[s] = "reading"
  /\ publisher' = s
  /\ endpoint' = [endpoint EXCEPT ![s] = "notifying"]
  /\ UNCHANGED <<websocket, open, reply, asked, pending, seen, latest, answers>>

\* A valid register frame replaces the registry at once, then awaits the clients.
Register(s) ==
  /\ Reads(s)
  /\ publisher' = s
  /\ endpoint' = [endpoint EXCEPT ![s] = "notifying"]
  /\ UNCHANGED <<websocket, open, reply, asked, pending, seen, latest, answers>>

\* Mutation: the loop goes on without an ack when a client could not be notified.
Notified_MaySkipAck(s) ==
  /\ endpoint[s] = "notifying"
  /\ \/ ReplyOrEnd(s, "ack")
     \/ /\ endpoint' = [endpoint EXCEPT ![s] = "reading"]
        /\ UNCHANGED <<websocket, reply, publisher, pending>>
  /\ UNCHANGED <<open, asked, seen, latest, answers>>

\* Every remembered client was notified, the dead ones dropped: the ack is sent.
Notified(s) ==
  /\ endpoint[s] = "notifying"
  /\ ReplyOrEnd(s, "ack")
  /\ UNCHANGED <<open, asked, seen, latest, answers>>

\* Mutation: the latest session is asked when the originating request is over.
CallTarget_Guesses(c) == IF c \in pending THEN SessionOf[c] ELSE latest

\* _call_target: the client whose request the call is made from, while that request
\* is in flight; otherwise a guess, unless OAuth identities make it unsafe.
CallTarget(c) ==
  IF c \in pending THEN SessionOf[c] ELSE IF MayGuess THEN latest ELSE None

\* A call frame made from request c, or out of band (None).
HandleCall(s, c) ==
  LET session == CallTarget(c) IN
  /\ Reads(s)
  /\ c \in seen[s] \union {None}
  /\ IF session = None
       THEN ReplyOrEnd(s, "error") /\ UNCHANGED asked
       ELSE /\ endpoint' = [endpoint EXCEPT ![s] = "asking"]
            /\ asked' = [asked EXCEPT ![s] = session]
            /\ UNCHANGED <<websocket, reply, publisher, pending>>
  /\ UNCHANGED <<open, seen, latest, answers>>

\* External: the client answers, refuses, or its session breaks.
ClientAnswers(s) ==
  /\ endpoint[s] = "asking"
  /\ \E kind \in {"response", "error"} : ReplyOrEnd(s, kind)
  /\ asked' = [asked EXCEPT ![s] = None]
  /\ UNCHANGED <<open, seen, latest, answers>>

\* Mutation: an error is sent as a type of frame the protocol does not have.
Answer_Verbatim(kind) == {kind} \ {"other"}

\* On the wire an error is a response like any other.
Answer(kind) ==
  CASE kind = "ack"                   -> {"ack"}
    [] kind \in {"response", "error"} -> {"response"}
    [] kind = "other"                 -> {}

Written(s) ==
  /\ endpoint[s] = "sending"
  /\ reply[s].to = websocket
  /\ endpoint' = [endpoint EXCEPT ![s] = "reading"]
  /\ answers' = [answers EXCEPT ![websocket] =
                   IF websocket \in open THEN @ \union (Answer(reply[s].kind) \X {s}) ELSE @]
  /\ UNCHANGED <<websocket, open, reply, asked, publisher, pending, seen, latest>>

\* The websocket changed while the sender waited for the lock, or the write raised.
\* A failed result is followed by an error response; any other failure ends the loop.
WriteFails(s) ==
  /\ endpoint[s] = "sending"
  /\ reply[s].to # websocket \/ reply[s].to \notin open
  /\ IF reply[s].kind = "response"
       THEN ReplyOrEnd(s, "error")
       ELSE EndpointOver(s) /\ UNCHANGED reply
  /\ UNCHANGED <<open, asked, seen, latest, answers>>


\* The next receive reports the loss, or a frame came on a superseded socket.
PumpEnds(s) ==
  /\ endpoint[s] = "reading"
  /\ s \notin open \/ websocket # s
  /\ EndpointOver(s)
  /\ UNCHANGED <<open, reply, asked, seen, latest, answers>>

-----------------------------------------------------------------------------
LoopStep(s) == Greet(s) \/ Notified(s) \/ Written(s) \/ WriteFails(s)

Next ==
  \/ \E s \in Sock : Attach(s) \/ PeerLeaves(s) \/ PumpEnds(s)
  \/ \E s \in Sock : Register(s) \/ OtherFrame(s)
  \/ \E s \in Sock : LoopStep(s) \/ ClientAnswers(s)
  \/ \E s \in Sock, c \in Call \union {None} : HandleCall(s, c)
  \/ \E c \in Call : StartRequest(c) \/ EndRequest(c)
  \/ \E x \in Session \union {None} : Remember(x)

Spec == Init /\ [][Next]_vars

\* The loop itself goes on, and a write to a closed socket raises.  A closed socket
\* yields the finitely many frames it had received, then the loss: hence SF.  Nothing
\* obliges a client to answer or to take a notification (channel.py:175-186), nor a
\* provider to read what is written to it.
LoopFairness == \A s \in Sock : WF_vars(Greet(s) \/ WriteFails(s)) /\ SF_vars(PumpEnds(s))

FairSpec == Spec /\ LoopFairness

-----------------------------------------------------------------------------
(* Properties *)

\* What clients can list and call was published by the provider that serves them.
RegistryIsCurrent == publisher \in {None, websocket}

\* Under OAuth a provider only ever reaches a client whose request it was sent.
ReachesOwnClientsOnly ==
  \A s \in Sock : endpoint[s] = "asking" /\ ~MayGuess
    => \E c \in seen[s] : asked[s] = SessionOf[c]

\* The loop of s waits for a client, or for the provider it writes to: nothing bounds
\* either wait.
HeldUp(s) ==
  \/ endpoint[s] \in {"notifying", "asking"}
  \/ endpoint[s] = "sending" /\ reply[s].to \in open

\* A lost provider is noticed, and its registry and requests cleared with it, unless
\* its loop is held up for ever.
LossIsNoticed ==
  \A s \in Sock : (websocket = s /\ s \notin open) ~> (websocket # s \/ []HeldUp(s))

\* An accepted register frame is acknowledged to the current socket, or its sender is
\* superseded or lost, or holds up its loop for ever, or a client does.
RegisterIsAcked ==
  \A s \in Sock : (endpoint[s] = "notifying")
    ~> (<<"ack", s>> \in answers[s] \/ websocket # s \/ s \notin open \/ []HeldUp(s))

\* An ack or a response answers a frame of the provider that receives it.  The code does
\* not keep this (channel.py:501): the next property is what remains of it.
AnswersGoToAsker == \A s \in Sock : \A a \in answers[s] : a[2] = s

\* An ack or a response reaches another connection than its asker's only when the asker
\* was replaced, and a connection that was replaced never serves the channel again: no
\* provider that still serves has lost an answer to another one.
StraysOnlyAfterReplacement ==
  \A r, s \in Sock : \A kind \in {"ack", "response"} :
    <<kind, s>> \in answers[r] => r = s \/ websocket # s
=============================================================================
