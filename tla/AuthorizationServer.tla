------------------------- MODULE AuthorizationServer -------------------------
(***************************************************************************)
(* The embedded authorization server (oauth/authorization_server.py) over  *)
(* its durable store (oauth/state_store.py).  Every store operation is one *)
(* sqlite transaction; the handlers await between them, so several         *)
(* handlers, expiry, revocations and failures interleave there.            *)
(*                                                                         *)
(* A secret is the position at which its record was put: secrets are never *)
(* guessed and never issued twice.  A record's content does not change, so *)
(* the table is the set of secrets still in it, and `used` the one flag    *)
(* that changes.  Whoever holds a secret may present it: a request brings  *)
(* any secret issued so far.  A request refused without a state change (a  *)
(* bad form, a wrong password, an unknown secret) is a stuttering step.    *)
(***************************************************************************)
EXTENDS Naturals, Sequences, FiniteSets

CONSTANTS
  Task,        \* HTTP requests being handled at once
  Subject,     \* users of the identity strategy
  Client,      \* OAuth clients
  Dynamic,     \* those known only by a registration, which expires
  Browser,     \* those registered as browser clients
  Renewing,    \* those whose grant types include refresh_token
  Target,      \* what ConsentPolicy.binding may answer
  None,        \* no value in a field
  MaxRecords,  \* SqliteOAuthStateStore.maximum_records
  MaxIssued,   \* bound of the model: secrets issued in a behaviour
  MaxOfKind    \* bound of the model: those of one kind

ASSUME AuthorizationServerAssumption ==
  /\ MaxRecords \in Nat \ {0} /\ MaxIssued \in Nat /\ MaxOfKind \in Nat
  /\ Dynamic \subseteq Client /\ Browser \subseteq Client /\ Renewing \subseteq Client
  /\ None \notin Subject \union Client \union Target

VARIABLES
  records,     \* every record ever put; its secret is its position
  live,        \* secrets whose record is in the table
  used,        \* refresh tokens marked as used
  task,        \* where each request stands, and what it read
  target,      \* what ConsentPolicy.binding answers for each subject now
  presented,   \* history: refresh tokens presented by their client
  replayed,    \* history: those presented again
  revoked      \* history: codes already issued to a subject when it was revoked

history == <<presented, replayed, revoked>>
vars    == <<records, live, used, task, target, history>>

Kinds == {"client", "transaction", "login", "code", "family", "refresh"}
OfSubject == {"login", "code", "family"}

\* `from` is the secret a record was made from: the transaction of a code, the code of
\* a family, the family of a refresh token.
Record == [kind : Kinds, subject : Subject \union {None}, client : Client \union {None},
           binding : Target \union {None}, from : Nat]

Places == {"idle", "authenticated", "replacing", "consenting", "approving", "coding",
           "granting", "storing", "checking", "validating", "ending"}

Idle == [at |-> "idle", subject |-> None, client |-> None, binding |-> None, from |-> 0]

Issued == 1..Len(records)
Held(kind) == {s \in live : records[s].kind = kind}
\* Mutation: the limit is compared the wrong way.
HasRoom_OffByOne == Cardinality(live) <= MaxRecords

HasRoom == Cardinality(live) < MaxRecords

TypeOK ==
  /\ records \in Seq(Record)
  /\ live \subseteq Issued /\ Cardinality(live) <= MaxRecords
  /\ used \subseteq Issued
  /\ task \in [Task -> [at : Places, subject : Subject \union {None},
                        client : Client \union {None}, binding : Target \union {None},
                        from : Nat]]
  /\ target \in [Subject -> Target]
  /\ presented \subseteq Issued /\ replayed \subseteq presented /\ revoked \subseteq Issued

Init ==
  /\ records = <<>> /\ live = {} /\ used = {}
  /\ task = [t \in Task |-> Idle]
  /\ target \in [Subject -> Target]
  /\ presented = {} /\ replayed = {} /\ revoked = {}

--------------------------------------------------------------------------------
(* The store.  An operation first deletes what has expired (Expire), then reads *)
(* and writes, all in one transaction.                                          *)

Fresh == Len(records) + 1

\* put with a new secret; it raises when the table is full.
Put(kind, subject, client, binding, from) ==
  /\ HasRoom
  /\ Len(records) < MaxIssued
  /\ Cardinality({s \in Issued : records[s].kind = kind}) < MaxOfKind
  /\ records' = Append(records, [kind |-> kind, subject |-> subject, client |-> client,
                                 binding |-> binding, from |-> from])
  /\ live' = live \union {Fresh}

\* remove and consume: the record goes if it is of that kind.
Delete(kind, s) == live' = live \ {k \in Held(kind) : k = s}

\* Time passes a record's deadline.  A refresh token is put after its family with the
\* same lifetime, and a successor keeps the deadline, so a family goes first.
Expire(s) ==
  /\ records[s].kind = "refresh" => records[s].from \notin live
  /\ live' = live \ {s}
  /\ UNCHANGED <<records, used, task, target, history>>

Goes(t, place) == task' = [task EXCEPT ![t].at = place]
Ends(t) == task' = [task EXCEPT ![t] = Idle]

\* The store is full: the handler answers an error and is over.
Full(t) == ~HasRoom /\ Ends(t) /\ UNCHANGED <<records, live>>

--------------------------------------------------------------------------------
(* Clients, authorization requests and sign-in.                                 *)

Known(c) == c \in Dynamic => \E s \in Held("client") : records[s].client = c

Register(c) ==
  /\ c \in Dynamic /\ ~ \E s \in Issued : records[s].kind = "client" /\ records[s].client = c
  /\ Put("client", None, c, None, 0)
  /\ UNCHANGED <<used, task, target, history>>

Authorize(c) ==
  /\ Known(c)
  /\ Put("transaction", None, c, None, 0)
  /\ UNCHANGED <<used, task, target, history>>

Login(t, x) ==
  /\ task[t].at = "idle" /\ Held("transaction") # {}
  /\ task' = [task EXCEPT ![t].at = "authenticated", ![t].subject = x]
  /\ UNCHANGED <<records, live, used, target, history>>

LoginStores(t) ==
  /\ task[t].at = "authenticated"
  /\ \/ Full(t)
     \/ Put("login", task[t].subject, None, None, 0) /\ Goes(t, "replacing")
  /\ UNCHANGED <<used, target, history>>

\* `old` is the cookie's login session, 0 when the browser had none.
LoginReplaces(t, old) ==
  /\ task[t].at = "replacing"
  /\ Delete("login", old)
  /\ Ends(t)
  /\ UNCHANGED <<records, used, target, history>>

--------------------------------------------------------------------------------
(* Consent.                                                                     *)

Consent(t, k, l) ==
  /\ task[t].at = "idle" /\ k \in Held("transaction") /\ l \in Held("login")
  /\ Known(records[k].client)
  /\ task' = [task EXCEPT ![t] = [at |-> "consenting", subject |-> records[l].subject,
                                  client |-> records[k].client, binding |-> None, from |-> k]]
  /\ UNCHANGED <<records, live, used, target, history>>

\* The transaction is consumed whatever the user, and then approve, decides.
ConsentConsumes(t) ==
  /\ task[t].at = "consenting"
  /\ Delete("transaction", task[t].from)
  /\ \/ Ends(t)
     \/ task[t].from \in live /\ Goes(t, "approving")
  /\ UNCHANGED <<records, used, target, history>>

\* approve agrees, or the client is a browser, whose codes carry no target.
ConsentApproved(t) ==
  /\ task[t].at = "approving"
  /\ task' = [task EXCEPT ![t] =
       [at |-> "coding", subject |-> task[t].subject, client |-> task[t].client,
        binding |-> IF task[t].client \in Browser THEN None ELSE target[task[t].subject],
        from |-> task[t].from]]
  /\ UNCHANGED <<records, live, used, target, history>>

ConsentStores(t) ==
  /\ task[t].at = "coding"
  /\ \/ Full(t)
     \/ /\ Put("code", task[t].subject, task[t].client, task[t].binding, task[t].from)
        /\ Ends(t)
  /\ UNCHANGED <<used, target, history>>

--------------------------------------------------------------------------------
(* Code exchange and refresh.                                                   *)

\* The client of a token or revocation request is known, and its secret right.
Authenticated(t, c) == task[t].at = "idle" /\ Known(c)

\* Mutation: the code is read and left in the table.
ConsumeCode_Kept(t, c, k) ==
  /\ Authenticated(t, c) /\ k \in Held("code") /\ records[k].client = c
  /\ task' = [task EXCEPT ![t] = [at |-> "granting", subject |-> records[k].subject,
                                  client |-> c, binding |-> records[k].binding, from |-> k]]
  /\ UNCHANGED <<records, live, used, target, history>>

\* Mutation: the code's client is not compared with the one that presents it.
ConsumeCode_AnyClient(t, c, k) ==
  /\ Authenticated(t, c) /\ k \in Held("code")
  /\ Delete("code", k)
  /\ task' = [task EXCEPT ![t] = [at |-> "granting", subject |-> records[k].subject,
                                  client |-> c, binding |-> records[k].binding, from |-> k]]
  /\ UNCHANGED <<records, used, target, history>>

\* The code is consumed before anything is compared with it: a request of another
\* client, or with a wrong verifier, redirect or scope, burns it.
ConsumeCode(t, c, k) ==
  /\ Authenticated(t, c) /\ k \in Held("code")
  /\ Delete("code", k)
  /\ \/ UNCHANGED task
     \/ /\ records[k].client = c
        /\ task' = [task EXCEPT ![t] = [at |-> "granting", subject |-> records[k].subject,
                                        client |-> c, binding |-> records[k].binding,
                                        from |-> k]]
  /\ UNCHANGED <<records, used, target, history>>

\* A browser client is answered at once, any other after the consent policy.
Answer(c) == IF c \in Browser THEN "idle" ELSE "checking"

Proceeds(t, place, family) ==
  task' = [task EXCEPT ![t] = IF place = "idle" THEN Idle
                              ELSE [@ EXCEPT !.at = place, !.from = family]]

PutFamily(t) ==
  /\ task[t].at = "granting"
  /\ \/ Full(t)
     \/ /\ Put("family", task[t].subject, task[t].client, None, task[t].from)
        /\ Proceeds(t, IF task[t].client \in Renewing THEN "storing" ELSE Answer(task[t].client),
                    Fresh)
  /\ UNCHANGED <<used, target, history>>

PutRefresh(t) ==
  /\ task[t].at = "storing"
  /\ \/ Full(t)
     \/ /\ Put("refresh", task[t].subject, task[t].client, task[t].binding, task[t].from)
        /\ Proceeds(t, Answer(task[t].client), task[t].from)
  /\ UNCHANGED <<used, target, history>>

\* A refresh that reaches rotate with a token of the client's own.
Refreshes(t, c, k) ==
  /\ Authenticated(t, c) /\ c \in Renewing
  /\ k \in Held("refresh") /\ records[k].client = c

Presents(k) ==
  /\ replayed' = replayed \union {s \in presented : s = k}
  /\ presented' = presented \union {k}
  /\ UNCHANGED revoked

\* Mutation: the reuse is refused and the family left.
RotateReused_KeepsFamily(t, c, k) ==
  /\ Refreshes(t, c, k) /\ k \in used
  /\ Presents(k)
  /\ UNCHANGED <<records, live, used, task, target>>

\* rotate finds the token used: it deletes the family, and the request is refused.
RotateReused(t, c, k) ==
  /\ Refreshes(t, c, k) /\ k \in used
  /\ Delete("family", records[k].from)
  /\ Presents(k)
  /\ UNCHANGED <<records, used, task, target>>

\* Mutation: the rotated token is not marked.
Rotate_Unmarked(t, c, k) ==
  /\ Refreshes(t, c, k) /\ k \notin used
  /\ records[k].from \in live
  /\ Put("refresh", records[k].subject, c, records[k].binding, records[k].from)
  /\ Presents(k)
  /\ UNCHANGED <<task, used, target>>

Rotate(t, c, k) ==
  /\ Refreshes(t, c, k) /\ k \notin used
  /\ records[k].from \in live
  /\ Put("refresh", records[k].subject, c, records[k].binding, records[k].from)
  /\ used' = used \union {k}
  /\ Presents(k)
  /\ task' = [task EXCEPT ![t] = IF c \in Browser THEN Idle
                                 ELSE [at |-> "checking", subject |-> records[k].subject,
                                       client |-> c, binding |-> records[k].binding,
                                       from |-> records[k].from]]
  /\ UNCHANGED target

\* The frozen target is compared with the current one, then the approval validated.
CheckBinding(t) ==
  /\ task[t].at = "checking"
  /\ Goes(t, IF task[t].binding = target[task[t].subject] THEN "validating" ELSE "ending")
  /\ UNCHANGED <<records, live, used, target, history>>

Validate(t) ==
  /\ task[t].at = "validating"
  /\ Ends(t) \/ Goes(t, "ending")
  /\ UNCHANGED <<records, live, used, target, history>>

EndFamily(t) ==
  /\ task[t].at = "ending"
  /\ Delete("family", task[t].from)
  /\ Ends(t)
  /\ UNCHANGED <<records, used, target, history>>

--------------------------------------------------------------------------------
(* Revocation, verification, failures.                                          *)

\* The token names family f: a refresh token's record, or the claims of an access token.
Revoke(t, c, f) ==
  /\ Authenticated(t, c)
  /\ f \in Issued /\ records[f].kind = "family" /\ records[f].client = c
  /\ task' = [task EXCEPT ![t] = [at |-> "ending", subject |-> None, client |-> None,
                                  binding |-> None, from |-> f]]
  /\ UNCHANGED <<records, live, used, target, history>>

RevokeSubject(x) ==
  LET ofSubject == {s \in Issued : records[s].subject = x /\ records[s].kind \in OfSubject}
  IN /\ ofSubject # {}
     /\ live' = live \ ofSubject
     /\ revoked' = revoked \union {s \in ofSubject : records[s].kind = "code"}
     /\ UNCHANGED <<records, used, task, target, presented, replayed>>

\* verify: the access tokens issued for family f are good while this holds.  Their claims
\* name the subject and the client the family was put with.
Verifies(f) == f \in Held("family")

\* The store raises, or the process dies: what was committed stays.
Fails(t) ==
  /\ task[t].at # "idle"
  /\ Ends(t)
  /\ UNCHANGED <<records, live, used, target, history>>

\* The application decides to authorize the subject for something else.
Retarget(x) ==
  /\ \E b \in Target \ {target[x]} : target' = [target EXCEPT ![x] = b]
  /\ UNCHANGED <<records, live, used, task, history>>

HandlerStep(t) ==
  \/ LoginStores(t) \/ \E old \in 0..Len(records) : LoginReplaces(t, old)
  \/ ConsentConsumes(t) \/ ConsentApproved(t) \/ ConsentStores(t)
  \/ PutFamily(t) \/ PutRefresh(t) \/ CheckBinding(t) \/ Validate(t) \/ EndFamily(t)
  \/ Fails(t)

Arrival(t) ==
  \/ \E x \in Subject : Login(t, x)
  \/ \E k, l \in live : Consent(t, k, l)
  \/ \E c \in Client, k \in live :
       ConsumeCode(t, c, k) \/ RotateReused(t, c, k) \/ Rotate(t, c, k)
  \/ \E c \in Client, f \in Issued : Revoke(t, c, f)

Next ==
  \/ \E t \in Task : HandlerStep(t) \/ Arrival(t)
  \/ \E c \in Client : Register(c) \/ Authorize(c)
  \/ \E s \in live : Expire(s)
  \/ \E x \in Subject : RevokeSubject(x) \/ Retarget(x)

Spec == Init /\ [][Next]_vars

--------------------------------------------------------------------------------
(* Properties.                                                                  *)

\* An approved authorization request yields one code and a code one family, however
\* many requests present them at once (consume, state_store.py:85).
SingleUse ==
  \A s, u \in Issued :
    /\ records[s].kind \in {"code", "family"} /\ records[u].kind = records[s].kind
    /\ records[u].from = records[s].from
    => u = s

\* What a user consented to reaches no other client, subject or target: not through a
\* code presented by another client, nor through rotations (authorization_server.py:609-674).
ConsentIsKept ==
  \A s \in Issued :
    LET r == records[s]
        source == records[r.from]
    IN /\ r.kind = "code" => source.kind = "transaction" /\ source.client = r.client
       /\ r.kind = "family" =>
            source.kind = "code" /\ source.client = r.client /\ source.subject = r.subject
       /\ r.kind = "refresh" =>
            /\ source.kind = "family" /\ source.client = r.client
            /\ source.subject = r.subject /\ r.binding = records[source.from].binding

\* A family has at most one refresh token that can still be exchanged, so two holders
\* of a copied token cannot both go on (rotate, state_store.py:99-144).
OneLiveRefresh ==
  \A s, u \in Held("refresh") \ used :
    /\ records[s].from = records[u].from /\ records[s].from \in live
    => s = u

\* Once a refresh token was presented twice, neither presenter has access: its family
\* is gone, with what the first presentation was given (state_store.py:117-121).
ReplayEndsFamily == \A s \in replayed : ~Verifies(records[s].from)

\* docs/oauth.md: "Subject revocation removes login sessions, pending codes and
\* access/refresh families": no family goes back to a code issued before a revocation.
RevocationIsFinal ==
  \A f \in Issued : records[f].kind = "family" /\ records[f].from \in revoked => ~Verifies(f)

\* Nothing in the store signs subject x in, or gives a client access on its behalf.
NothingHeld(x) ==
  \A s \in live : records[s].kind \in OfSubject => records[s].subject # x

\* The requests that have read what they need to store a record of subject x: a sign-in
\* past its password, a consent that read its login (authorization_server.py:411), an
\* exchange that consumed its code (:609).
Carriers(x) ==
  {t \in Task : /\ task[t].at \in {"authenticated", "consenting", "approving", "coding",
                                   "granting"}
                /\ task[t].subject = x}

\* A revocation empties the store of the subject and misses exactly the carriers: until
\* one of them stores what it holds, nothing of the subject comes back and no request
\* joins them, except by a new sign-in.  So once they are over too, only a new sign-in
\* gives access on the subject's behalf (revoke_subject, state_store.py:173).
RevocationMissesOnlyCarriers ==
  [][\A x \in Subject :
       /\ RevokeSubject(x) => NothingHeld(x)' /\ Carriers(x)' = Carriers(x)
       /\ NothingHeld(x) =>
            /\ NothingHeld(x)' \/ \E t \in Carriers(x) : HandlerStep(t)
            /\ \A t \in Carriers(x)' \ Carriers(x) : Login(t, x)]_vars

--------------------------------------------------------------------------------
(* The families seen without the store and the requests.                        *)

\* Refresh tokens that rotate would exchange.
Usable == {s \in Held("refresh") \ used : records[s].from \in live}

TokenOf == {<<records[s].from, s>> : s \in Usable}
SeenOf  == {s \in Issued : records[s].kind \in {"family", "refresh"}}

Families == INSTANCE TokenFamilies
  WITH Secret <- 1..MaxIssued, alive <- Held("family"), token <- TokenOf, seen <- SeenOf

\* What a client can go on with is one family with one token at a time, however requests,
\* expiry, revocations and failures interleave with the transactions
\* (authorization_server.py:599-714).
ImplementsFamilies == Families!Spec
=============================================================================
