-------------------------- MODULE ProviderPumpProofs --------------------------
(***************************************************************************)
(* Proofs about ProviderPump for any sets of connections, sessions and     *)
(* requests.  The two invariants and the type invariant are inductive      *)
(* together: that a guess is not made under OAuth rests on the type of     *)
(* `pending`, which keeps None apart from the requests in flight.          *)
(* StrayInv, a second one, says which answers can go astray.               *)
(***************************************************************************)
EXTENDS ProviderPump, TLAPS

PumpInv == TypeOK /\ RegistryIsCurrent /\ ReachesOwnClientsOnly

Endpoints == {"new", "attached", "reading", "notifying", "asking", "sending", "gone"}
Replies == [kind : Kinds, to : Sock \union {None}]

\* What the end of an endpoint, or a reply, does to the channel.
LEMMA ReplyTyped ==
  ASSUME PumpInv, NEW s \in Sock, NEW kind \in Kinds, ReplyOrEnd(s, kind)
  PROVE  /\ websocket' \in Sock \union {None} /\ publisher' \in Sock \union {None}
         /\ endpoint' \in [Sock -> Endpoints] /\ reply' \in [Sock -> Replies]
         /\ pending' \in SUBSET Call
         /\ publisher' \in {None, websocket'}
         /\ endpoint'[s] \in {"sending", "gone"}
         /\ \A u \in Sock \ {s} : endpoint'[u] = endpoint[u]
<1>1. CASE SendReply(s, kind)
  BY <1>1 DEF SendReply, PumpInv, TypeOK, RegistryIsCurrent, Endpoints, Replies
<1>2. CASE EndpointOver(s) /\ UNCHANGED reply
  BY <1>2 DEF EndpointOver, PumpInv, TypeOK, RegistryIsCurrent, Endpoints, Replies
<1> QED BY <1>1, <1>2 DEF ReplyOrEnd

\* The end of an endpoint by itself.
LEMMA OverTyped ==
  ASSUME PumpInv, NEW s \in Sock, EndpointOver(s)
  PROVE  /\ websocket' \in Sock \union {None} /\ publisher' \in Sock \union {None}
         /\ endpoint' \in [Sock -> Endpoints] /\ pending' \in SUBSET Call
         /\ publisher' \in {None, websocket'}
         /\ endpoint'[s] \in {"sending", "gone"}
         /\ \A u \in Sock \ {s} : endpoint'[u] = endpoint[u]
BY DEF EndpointOver, PumpInv, TypeOK, RegistryIsCurrent, Endpoints

\* A step after which s asks nobody, and which leaves what is asked and seen alone.
LEMMA NotAskingKeeps ==
  ASSUME PumpInv, NEW s \in Sock,
         websocket' \in Sock \union {None}, publisher' \in {None, websocket'},
         endpoint' \in [Sock -> Endpoints], reply' \in [Sock -> Replies],
         pending' \in SUBSET Call, open' \in SUBSET Sock, latest' = latest, seen' = seen,
         answers' \in [Sock -> SUBSET ({"ack", "response"} \X Sock)],
         asked' \in [Sock -> Session \union {None}],
         endpoint'[s] # "asking",
         \A u \in Sock \ {s} : endpoint'[u] = endpoint[u] /\ asked'[u] = asked[u]
  PROVE  PumpInv'
<1>1. TypeOK'
  BY DEF PumpInv, TypeOK, Endpoints, Replies
<1>2. RegistryIsCurrent'
  BY DEF RegistryIsCurrent
<1>3. ReachesOwnClientsOnly'
  BY DEF PumpInv, ReachesOwnClientsOnly
<1> QED BY <1>1, <1>2, <1>3 DEF PumpInv

\* A step that leaves every endpoint where it is.
LEMMA EndpointsKeep ==
  ASSUME PumpInv, UNCHANGED <<websocket, endpoint, reply, asked, publisher, answers>>,
         open' \in SUBSET Sock, pending' \in SUBSET Call, latest' \in Session \union {None},
         seen' \in [Sock -> SUBSET Call], \A s \in Sock : seen[s] \subseteq seen'[s]
  PROVE  PumpInv'
<1>1. TypeOK' /\ RegistryIsCurrent'
  BY DEF PumpInv, TypeOK, RegistryIsCurrent
<1>2. ReachesOwnClientsOnly'
  BY DEF PumpInv, ReachesOwnClientsOnly
<1> QED BY <1>1, <1>2 DEF PumpInv

\* A call reaches the client of a request the provider was sent, or none.
LEMMA HandleCallKeeps ==
  ASSUME PumpInv, NEW s \in Sock, NEW c \in Call \union {None}, HandleCall(s, c)
  PROVE  PumpInv'
<1> DEFINE session == CallTarget(c)
<1>1. /\ TypeOK /\ UNCHANGED <<open, seen, latest, answers>>
      /\ websocket = s /\ c \in seen[s] \union {None}
  BY DEF HandleCall, Reads, PumpInv
<1>2. CASE session = None
  <2>1. ReplyOrEnd(s, "error") /\ UNCHANGED asked /\ "error" \in Kinds
    BY <1>2 DEF HandleCall, Kinds
  <2>2. PICK kind \in Kinds : ReplyOrEnd(s, kind)
    BY <2>1
  <2>3. /\ websocket' \in Sock \union {None} /\ publisher' \in {None, websocket'}
        /\ endpoint' \in [Sock -> Endpoints] /\ reply' \in [Sock -> Replies]
        /\ pending' \in SUBSET Call /\ endpoint'[s] \in {"sending", "gone"}
        /\ \A u \in Sock \ {s} : endpoint'[u] = endpoint[u]
    BY <2>2, ReplyTyped
  <2> QED BY <1>1, <2>1, <2>3, NotAskingKeeps DEF TypeOK
<1>3. CASE session # None
  <2>1. /\ endpoint' = [endpoint EXCEPT ![s] = "asking"]
        /\ asked' = [asked EXCEPT ![s] = session]
        /\ UNCHANGED <<websocket, reply, publisher, pending>>
    BY <1>3 DEF HandleCall
  <2>2. c \in pending => c \in Call /\ c # None /\ c \in seen[s] /\ SessionOf[c] \in Session
    BY <1>1, PumpAssumption DEF TypeOK
  <2>3. session \in Session
    BY <1>1, <1>3, <2>2 DEF CallTarget, TypeOK
  <2>4. ~MayGuess => \E d \in seen[s] : session = SessionOf[d]
    BY <1>3, <2>2 DEF CallTarget
  <2> HIDE DEF session
  <2>5. TypeOK'
    BY <1>1, <2>1, <2>3 DEF TypeOK
  <2>6. RegistryIsCurrent'
    BY <2>1 DEF PumpInv, RegistryIsCurrent
  <2>7. ReachesOwnClientsOnly'
    BY <1>1, <2>1, <2>4 DEF PumpInv, TypeOK, ReachesOwnClientsOnly
  <2> QED BY <2>5, <2>6, <2>7 DEF PumpInv
<1> QED BY <1>2, <1>3

\* The reply to a frame, whatever it is, leaves the invariant.
LEMMA RepliesKeep ==
  ASSUME PumpInv, NEW s \in Sock, NEW kind \in Kinds, ReplyOrEnd(s, kind),
         UNCHANGED <<open, seen, latest, answers>>,
         asked' = asked \/ asked' = [asked EXCEPT ![s] = None]
  PROVE  PumpInv'
<1>1. /\ websocket' \in Sock \union {None} /\ publisher' \in {None, websocket'}
      /\ endpoint' \in [Sock -> Endpoints] /\ reply' \in [Sock -> Replies]
      /\ pending' \in SUBSET Call /\ endpoint'[s] \in {"sending", "gone"}
      /\ \A u \in Sock \ {s} : endpoint'[u] = endpoint[u]
  BY ReplyTyped
<1>2. /\ asked' \in [Sock -> Session \union {None}]
      /\ \A u \in Sock \ {s} : asked'[u] = asked[u]
      /\ open' \in SUBSET Sock /\ answers' \in [Sock -> SUBSET ({"ack", "response"} \X Sock)]
  BY DEF PumpInv, TypeOK
<1> QED BY <1>1, <1>2, NotAskingKeeps

\* The endpoint is over: it asks nobody, and takes what it published with it.
LEMMA OverKeeps ==
  ASSUME PumpInv, NEW s \in Sock, EndpointOver(s),
         UNCHANGED <<open, reply, asked, seen, latest, answers>>
  PROVE  PumpInv'
<1>1. /\ websocket' \in Sock \union {None} /\ publisher' \in {None, websocket'}
      /\ endpoint' \in [Sock -> Endpoints] /\ pending' \in SUBSET Call
      /\ endpoint'[s] \in {"sending", "gone"}
      /\ \A u \in Sock \ {s} : endpoint'[u] = endpoint[u]
  BY OverTyped
<1>2. /\ reply' \in [Sock -> Replies] /\ asked' \in [Sock -> Session \union {None}]
      /\ open' \in SUBSET Sock /\ answers' \in [Sock -> SUBSET ({"ack", "response"} \X Sock)]
  BY DEF PumpInv, TypeOK, Replies
<1> QED BY <1>1, <1>2, NotAskingKeeps

\* Every step of endpoints, clients and peers keeps the invariant.
LEMMA PumpInvNext == PumpInv /\ [Next]_vars => PumpInv'
<1> SUFFICES ASSUME PumpInv, [Next]_vars PROVE PumpInv'
  OBVIOUS
<1>0. TypeOK /\ Kinds = {"ack", "response", "error", "other"}
  BY DEF PumpInv, Kinds
<1>1. ASSUME NEW s \in Sock, Attach(s) PROVE PumpInv'
  <2>1. /\ websocket' = s /\ publisher' = None /\ pending' = {} /\ open' \in SUBSET Sock
        /\ endpoint' \in [Sock -> Endpoints] /\ endpoint'[s] = "attached"
        /\ \A u \in Sock \ {s} : endpoint'[u] = endpoint[u]
        /\ reply' \in [Sock -> Replies]
    BY <1>0, <1>1 DEF Attach, TypeOK, Endpoints, Replies
  <2> QED BY <1>0, <1>1, <2>1, NotAskingKeeps DEF Attach, TypeOK
<1>2. ASSUME NEW s \in Sock, PeerLeaves(s) PROVE PumpInv'
  BY <1>0, <1>2, EndpointsKeep DEF PeerLeaves, TypeOK
<1>3. ASSUME NEW s \in Sock, PumpEnds(s) PROVE PumpInv'
  BY <1>3, OverKeeps DEF PumpEnds
<1>4. ASSUME NEW s \in Sock, Register(s) PROVE PumpInv'
  <2>1. /\ websocket' = s /\ publisher' = s
        /\ endpoint' \in [Sock -> Endpoints] /\ endpoint'[s] = "notifying"
        /\ \A u \in Sock \ {s} : endpoint'[u] = endpoint[u]
        /\ reply' \in [Sock -> Replies]
    BY <1>0, <1>4 DEF Register, Reads, TypeOK, Endpoints, Replies
  <2> QED BY <1>0, <1>4, <2>1, NotAskingKeeps DEF Register, TypeOK
<1>5. ASSUME NEW s \in Sock, OtherFrame(s) \/ Greet(s) PROVE PumpInv'
  <2>1. PICK kind \in Kinds : ReplyOrEnd(s, kind)
    BY <1>0, <1>5 DEF OtherFrame, Greet
  <2> QED BY <1>5, <2>1, RepliesKeep DEF OtherFrame, Greet
<1>6. ASSUME NEW s \in Sock, Notified(s) PROVE PumpInv'
  <2>1. PICK kind \in Kinds : ReplyOrEnd(s, kind)
    BY <1>0, <1>6 DEF Notified
  <2> QED BY <1>6, <2>1, RepliesKeep DEF Notified
<1>7. ASSUME NEW s \in Sock, ClientAnswers(s) PROVE PumpInv'
  <2>1. PICK kind \in Kinds : ReplyOrEnd(s, kind)
    BY <1>0, <1>7 DEF ClientAnswers
  <2> QED BY <1>7, <2>1, RepliesKeep DEF ClientAnswers
<1>8. ASSUME NEW s \in Sock, Written(s) PROVE PumpInv'
  <2>1. /\ endpoint' \in [Sock -> Endpoints] /\ endpoint'[s] = "reading"
        /\ \A u \in Sock \ {s} : endpoint'[u] = endpoint[u]
        /\ UNCHANGED <<websocket, open, reply, asked, publisher, pending, seen, latest>>
    BY <1>0, <1>8 DEF Written, TypeOK, Endpoints
  <2>2. answers' \in [Sock -> SUBSET ({"ack", "response"} \X Sock)]
    <3>1. Answer(reply[s].kind) \subseteq {"ack", "response"}
      BY <1>0 DEF Answer, TypeOK
    <3>2. Answer(reply[s].kind) \X {s} \in SUBSET ({"ack", "response"} \X Sock)
      BY <3>1
    <3> QED BY <1>0, <1>8, <3>2 DEF Written, TypeOK
  <2>3. publisher' \in {None, websocket'} /\ reply' \in [Sock -> Replies]
    BY <1>0, <2>1 DEF PumpInv, RegistryIsCurrent, TypeOK, Replies
  <2> QED BY <1>0, <2>1, <2>2, <2>3, NotAskingKeeps DEF TypeOK
<1>9. ASSUME NEW s \in Sock, WriteFails(s) PROVE PumpInv'
  <2>1. UNCHANGED <<open, asked, seen, latest, answers>>
    BY <1>9 DEF WriteFails
  <2>2. CASE ReplyOrEnd(s, "error")
    <3>1. PICK kind \in Kinds : ReplyOrEnd(s, kind)
      BY <1>0, <2>2
    <3> QED BY <2>1, <3>1, RepliesKeep
  <2>3. CASE EndpointOver(s) /\ UNCHANGED reply
    BY <2>1, <2>3, OverKeeps
  <2> QED BY <1>9, <2>2, <2>3 DEF WriteFails
<1>10. ASSUME NEW c \in Call, StartRequest(c) PROVE PumpInv'
  <2>1. websocket \in Sock /\ SessionOf[c] \in Session
    BY <1>0, <1>10, PumpAssumption DEF StartRequest, TypeOK
  <2> QED BY <1>0, <1>10, <2>1, EndpointsKeep DEF StartRequest, TypeOK
<1>11. ASSUME NEW c \in Call, EndRequest(c) PROVE PumpInv'
  BY <1>0, <1>11, EndpointsKeep DEF EndRequest, TypeOK
<1>12. ASSUME NEW x \in Session \union {None}, Remember(x) PROVE PumpInv'
  BY <1>0, <1>12, EndpointsKeep DEF Remember, TypeOK
<1>13. CASE UNCHANGED vars
  BY <1>0, <1>13, EndpointsKeep DEF vars, TypeOK
<1> QED
  BY <1>1, <1>2, <1>3, <1>4, <1>5, <1>6, <1>7, <1>8, <1>9, <1>10, <1>11, <1>12, <1>13,
     HandleCallKeeps DEF Next, LoopStep

\* The invariant holds in every state.
LEMMA PumpInvHolds == Spec => []PumpInv
<1>1. Init => PumpInv
  BY DEF Init, PumpInv, TypeOK, Kinds, RegistryIsCurrent, ReachesOwnClientsOnly
<1> QED BY <1>1, PumpInvNext, PTL DEF Spec

\* The channel's fields, and where each endpoint stands, keep their types.
THEOREM TypeCorrect == Spec => []TypeOK
<1>1. PumpInv => TypeOK
  BY DEF PumpInv
<1> QED BY <1>1, PumpInvHolds, PTL

\* What clients can list was published by the connection that serves them, through any
\* attachments, losses and frames of superseded connections (channel.py:509-560).
THEOREM RegistryAlwaysCurrent == Spec => []RegistryIsCurrent
<1>1. PumpInv => RegistryIsCurrent
  BY DEF PumpInv
<1> QED BY <1>1, PumpInvHolds, PTL

\* Under OAuth no provider ever asks a client whose request it was not sent
\* (_call_target, channel.py:567).
THEOREM OnlyOwnClients == Spec => []ReachesOwnClientsOnly
<1>1. PumpInv => ReachesOwnClientsOnly
  BY DEF PumpInv
<1> QED BY <1>1, PumpInvHolds, PTL

-----------------------------------------------------------------------------
(* Answers that reach another connection than the one that asked *)

\* A connection that lost an answer has attached and does not serve the channel.
Stray(r, s) == r # s /\ \E kind \in {"ack", "response"} : <<kind, s>> \in answers[r]

StrayInv ==
  TypeOK /\ \A r, s \in Sock : Stray(r, s) => websocket # s /\ endpoint[s] # "new"

\* The channel passes to a connection only as it attaches, which it does once.
ServesOnce ==
  \A s \in Sock :
    /\ websocket' = s => websocket = s \/ endpoint[s] = "new"
    /\ endpoint'[s] = "new" => endpoint[s] = "new"

\* A reply, or the end of an endpoint, passes the channel to nobody.
LEMMA ReplyServesOnce ==
  ASSUME TypeOK, NEW s \in Sock, NEW kind \in Kinds,
         ReplyOrEnd(s, kind) \/ EndpointOver(s)
  PROVE  ServesOnce
<1>1. CASE SendReply(s, kind)
  BY <1>1 DEF SendReply, TypeOK, ServesOnce
<1>2. CASE EndpointOver(s)
  BY <1>2, PumpAssumption DEF EndpointOver, TypeOK, ServesOnce
<1> QED BY <1>1, <1>2 DEF ReplyOrEnd

\* Every step but Written leaves the answers alone, and every step passes the channel to a
\* connection only when that attaches.
LEMMA StepServesOnce ==
  ASSUME TypeOK, [Next]_vars
  PROVE  ServesOnce /\ (answers' = answers \/ \E s \in Sock : Written(s))
<1>0. Kinds = {"ack", "response", "error", "other"}
  BY DEF Kinds
<1>1. ASSUME NEW s \in Sock, Attach(s) PROVE ServesOnce /\ answers' = answers
  BY <1>1 DEF Attach, TypeOK, ServesOnce
<1>2. ASSUME NEW s \in Sock, PeerLeaves(s) PROVE ServesOnce /\ answers' = answers
  BY <1>2 DEF PeerLeaves, ServesOnce
<1>3. ASSUME NEW s \in Sock, PumpEnds(s) PROVE ServesOnce /\ answers' = answers
  BY <1>0, <1>3, ReplyServesOnce DEF PumpEnds
<1>4. ASSUME NEW s \in Sock, Register(s) PROVE ServesOnce /\ answers' = answers
  BY <1>4 DEF Register, TypeOK, ServesOnce
<1>5. ASSUME NEW s \in Sock, OtherFrame(s) \/ Greet(s) \/ Notified(s) \/ ClientAnswers(s)
      PROVE  ServesOnce /\ answers' = answers
  <2>1. \E kind \in Kinds : ReplyOrEnd(s, kind)
    BY <1>0, <1>5 DEF OtherFrame, Greet, Notified, ClientAnswers
  <2> QED BY <1>5, <2>1, ReplyServesOnce DEF OtherFrame, Greet, Notified, ClientAnswers
<1>6. ASSUME NEW s \in Sock, WriteFails(s) PROVE ServesOnce /\ answers' = answers
  BY <1>0, <1>6, ReplyServesOnce DEF WriteFails
<1>7. ASSUME NEW s \in Sock, Written(s) PROVE ServesOnce
  BY <1>7 DEF Written, TypeOK, ServesOnce
<1>8. ASSUME NEW s \in Sock, NEW c \in Call \union {None}, HandleCall(s, c)
      PROVE  ServesOnce /\ answers' = answers
  <2>1. CASE ReplyOrEnd(s, "error")
    BY <1>0, <1>8, <2>1, ReplyServesOnce DEF HandleCall
  <2>2. CASE websocket' = websocket /\ endpoint' = [endpoint EXCEPT ![s] = "asking"]
    BY <1>8, <2>2 DEF HandleCall, TypeOK, ServesOnce
  <2> QED BY <1>8, <2>1, <2>2 DEF HandleCall
<1>9. ASSUME NEW c \in Call, StartRequest(c) \/ EndRequest(c)
      PROVE  ServesOnce /\ answers' = answers
  BY <1>9 DEF StartRequest, EndRequest, ServesOnce
<1>10. ASSUME NEW x \in Session \union {None}, Remember(x)
       PROVE  ServesOnce /\ answers' = answers
  BY <1>10 DEF Remember, ServesOnce
<1>11. CASE UNCHANGED vars
  BY <1>11 DEF vars, ServesOnce
<1> QED
  BY <1>1, <1>2, <1>3, <1>4, <1>5, <1>6, <1>7, <1>8, <1>9, <1>10, <1>11 DEF Next, LoopStep

\* An answer is written while the asker's connection does not serve, or to the asker.
LEMMA StrayInvNext == StrayInv /\ TypeOK' /\ [Next]_vars => StrayInv'
<1> SUFFICES ASSUME StrayInv, TypeOK', [Next]_vars,
                    NEW r \in Sock, NEW s \in Sock, Stray(r, s)'
             PROVE  websocket' # s /\ endpoint'[s] # "new"
  BY DEF StrayInv
<1>1. TypeOK /\ ServesOnce
  BY StepServesOnce DEF StrayInv
<1>2. CASE Stray(r, s)
  BY <1>1, <1>2 DEF StrayInv, ServesOnce
<1>3. CASE ~Stray(r, s)
  <2>1. PICK t \in Sock : Written(t)
    BY <1>1, <1>3, StepServesOnce DEF Stray
  <2>2. PICK kind \in {"ack", "response"} : <<kind, s>> \in answers'[r] \ answers[r]
    BY <1>3 DEF Stray
  <2>3. websocket = r /\ s = t
    BY <1>1, <2>1, <2>2 DEF Written, TypeOK
  <2> QED BY <1>1, <2>1, <2>3 DEF Written, TypeOK, Stray
<1> QED BY <1>2, <1>3

\* An ack or a response misses its asker only when the asker was replaced for good
\* (send_to_provider, channel.py:466-479): the misdirected answers of the code cost no
\* provider that serves the channel an answer of its own.
THEOREM StraysAreOfTheReplaced == Spec => []StraysOnlyAfterReplacement
<1>1. Init => StrayInv
  BY DEF Init, StrayInv, Stray, TypeOK, Kinds
<1>2. StrayInv => StraysOnlyAfterReplacement
  BY DEF StrayInv, Stray, StraysOnlyAfterReplacement
<1> QED BY <1>1, <1>2, StrayInvNext, TypeCorrect, PTL DEF Spec
===============================================================================
