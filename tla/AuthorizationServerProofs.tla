---------------------- MODULE AuthorizationServerProofs ----------------------
(***************************************************************************)
(* Proofs about AuthorizationServer for any sets of requests, users and    *)
(* clients and any limits.                                                 *)
(*                                                                         *)
(* None of the properties is inductive by itself: between two transactions *)
(* a request holds what it has consumed, and another may hold the same.    *)
(* FlowInv says what a request holds (Fits), that it has not been spent    *)
(* (Unspent) and that no other request holds it (Apart), and what a record *)
(* says of the one it was made from (Descends).  It is what the refinement *)
(* of TokenFamilies rests on too, which maps each transaction on its own.  *)
(***************************************************************************)
EXTENDS AuthorizationServer, FiniteSetTheorems, TLAPS

\* A record was made from one that is issued, of the right kind and content; the source
\* of a code or of a family has left the table.
Descends(s) ==
  LET r == records[s]
      source == records[r.from]
  IN /\ r.kind = "login" => r.subject \in Subject
     /\ r.kind = "code" =>
          /\ r.from \in Issued \ live
          /\ source.kind = "transaction" /\ source.client = r.client
     /\ r.kind = "family" =>
          /\ r.from \in Issued \ live
          /\ source.kind = "code" /\ source.client = r.client /\ source.subject = r.subject
     /\ r.kind = "refresh" =>
          /\ r.from \in Issued
          /\ source.kind = "family" /\ source.client = r.client
          /\ source.subject = r.subject /\ r.binding = records[source.from].binding

\* What a request holds is what it read.
Fits(t) ==
  LET k == task[t]
      source == records[k.from]
  IN /\ k.at \in {"authenticated", "consenting", "approving"} => k.subject \in Subject
     /\ k.at \in {"consenting", "approving", "coding"} =>
          k.from \in Issued /\ source.kind = "transaction" /\ source.client = k.client
     /\ k.at \in {"approving", "coding"} => k.from \notin live
     /\ k.at = "granting" =>
          /\ k.from \in Issued \ live
          /\ source.kind = "code" /\ source.client = k.client
          /\ source.subject = k.subject /\ source.binding = k.binding
     /\ k.at = "storing" =>
          /\ k.from \in Issued
          /\ source.kind = "family" /\ source.client = k.client
          /\ source.subject = k.subject /\ records[source.from].binding = k.binding

\* Nothing was made yet from what a request is about to spend.
Unspent(t) ==
  \A s \in Issued : records[s].from = task[t].from =>
    /\ task[t].at \in {"approving", "coding"} => records[s].kind # "code"
    /\ task[t].at = "granting" => records[s].kind # "family"
    /\ task[t].at = "storing" => records[s].kind # "refresh"

\* Two requests are not about to spend the same thing.
Apart(t, u) ==
  /\ task[t].at \in {"approving", "coding"} /\ task[u].at \in {"approving", "coding"}
       => task[t].from # task[u].from
  /\ task[t].at = "granting" /\ task[u].at = "granting" => task[t].from # task[u].from
  /\ task[t].at = "storing" /\ task[u].at = "storing" => task[t].from # task[u].from

Tasks ==
  /\ \A t \in Task : Fits(t) /\ Unspent(t)
  /\ \A t, u \in Task : t # u => Apart(t, u)

\* A token that was presented is used, and once presented again its family is over.
Presented ==
  /\ presented \subseteq used
  /\ \A s \in presented : records[s].kind = "refresh"
  /\ \A s \in replayed : records[s].from \notin live

FlowInv ==
  /\ TypeOK /\ (\A s \in Issued : Descends(s)) /\ Tasks
  /\ SingleUse /\ OneLiveRefresh /\ Presented

--------------------------------------------------------------------------------
(* What a transaction of the store does to records and table.                   *)

\* Records stay as they are, and none comes back to the table.
Grows ==
  /\ Issued \subseteq Issued'
  /\ \A s \in Issued : records'[s] = records[s]
  /\ live' \intersect Issued \subseteq live

RecordsOK == /\ records \in Seq(Record) /\ live \subseteq Issued /\ Cardinality(live) <= MaxRecords

\* The table is finite, so that its size means something.
LEMMA FiniteTable == TypeOK => IsFiniteSet(live)
<1> SUFFICES ASSUME TypeOK PROVE IsFiniteSet(live)
  OBVIOUS
<1>1. Len(records) \in Int /\ live \in SUBSET (1..Len(records))
  BY DEF TypeOK, Issued
<1>2. IsFiniteSet(1..Len(records))
  BY <1>1, FS_Interval
<1> QED BY <1>1, <1>2, FS_Subset

\* A record's fields.
LEMMA RecordTyped ==
  ASSUME TypeOK, NEW s \in Issued
  PROVE  /\ s \in Nat /\ records[s].kind \in Kinds
         /\ records[s].subject \in Subject \union {None}
         /\ records[s].client \in Client \union {None}
         /\ records[s].binding \in Target \union {None} /\ records[s].from \in Nat
<1>1. records[s] \in Record /\ s \in Nat
  BY DEF TypeOK, Issued
<1> QED BY <1>1 DEF Record

\* A put appends one record and adds one secret to the table, within the limit.
LEMMA PutGrows ==
  ASSUME TypeOK, NEW kind \in Kinds, NEW x \in Subject \union {None},
         NEW c \in Client \union {None}, NEW b \in Target \union {None}, NEW f \in Nat,
         Put(kind, x, c, b, f)
  PROVE  /\ RecordsOK' /\ Grows
         /\ Fresh \in Nat /\ Fresh \notin Issued
         /\ Issued' = Issued \union {Fresh} /\ live' = live \union {Fresh}
         /\ records'[Fresh] = [kind |-> kind, subject |-> x, client |-> c, binding |-> b,
                               from |-> f]
<1> DEFINE r == [kind |-> kind, subject |-> x, client |-> c, binding |-> b, from |-> f]
<1>1. r \in Record
  BY DEF Record
<1>2. records \in Seq(Record) /\ records' = Append(records, r) /\ live' = live \union {Fresh}
      /\ live \subseteq Issued /\ HasRoom
  BY DEF Put, TypeOK
<1> HIDE DEF r
<1>3. /\ records' \in Seq(Record) /\ Len(records') = Len(records) + 1
      /\ \A s \in 1..Len(records) : records'[s] = records[s]
      /\ records'[Len(records) + 1] = r /\ Len(records) \in Nat
  BY <1>1, <1>2
<1>4. /\ Fresh \in Nat /\ Fresh \notin Issued /\ Issued' = Issued \union {Fresh}
      /\ \A s \in Issued : records'[s] = records[s]
      /\ records'[Fresh] = r
  BY <1>3 DEF Fresh, Issued
<1>5. Cardinality(live') <= MaxRecords
  <2>1. IsFiniteSet(live)
    BY FiniteTable
  <2>2. Cardinality(live') = Cardinality(live) + 1 /\ Cardinality(live) \in Nat
    BY <1>2, <1>4, <2>1, FS_AddElement, FS_CardinalityType
  <2> QED BY <1>2, <2>2, AuthorizationServerAssumption DEF HasRoom
<1> QED BY <1>2, <1>3, <1>4, <1>5 DEF RecordsOK, Grows, r

\* A step that puts nothing only takes secrets out of the table.
LEMMA NoPutGrows ==
  ASSUME TypeOK, records' = records, live' \subseteq live
  PROVE  RecordsOK' /\ Grows /\ Issued' = Issued
<1>1. Issued' = Issued
  BY DEF Issued
<1>2. IsFiniteSet(live)
  BY FiniteTable
<1>3. Cardinality(live') <= Cardinality(live) /\ Cardinality(live) \in Nat
      /\ Cardinality(live') \in Nat
  BY <1>2, FS_Subset, FS_CardinalityType
<1>4. Cardinality(live') <= MaxRecords
  BY <1>3, AuthorizationServerAssumption DEF TypeOK
<1> QED BY <1>1, <1>4 DEF RecordsOK, Grows, TypeOK

\* Delete takes out one secret at most.
LEMMA DeleteShrinks ==
  ASSUME NEW kind, NEW s, Delete(kind, s)
  PROVE  /\ live' \subseteq live
         /\ s \in live /\ records[s].kind = kind => s \notin live'
BY DEF Delete, Held

--------------------------------------------------------------------------------
(* What every step keeps.                                                       *)

\* What the older records say of each other does not change.
LEMMA DescentIsKept ==
  ASSUME FlowInv, Grows, NEW s \in Issued
  PROVE  Descends(s)'
<1>1. /\ records'[s] = records[s] /\ Descends(s)
      /\ records[s].from \in Issued =>
           records'[records[s].from] = records[records[s].from] /\ Descends(records[s].from)
  BY DEF FlowInv, Grows
<1>2. records[s].from \in Issued \ live => records[s].from \in Issued' \ live'
  BY DEF Grows
<1>3. records[s].kind = "refresh" =>
        records'[records[records[s].from].from] = records[records[records[s].from].from]
  BY <1>1 DEF Descends, Grows
<1> QED BY <1>1, <1>2, <1>3 DEF Descends, Grows

\* A request that the step leaves alone still fits what it read.
LEMMA FitIsKept ==
  ASSUME FlowInv, Grows, NEW t \in Task, task'[t] = task[t]
  PROVE  Fits(t)'
<1> DEFINE k == task[t]
<1>1. /\ Fits(t)
      /\ k.from \in Issued =>
           /\ records'[k.from] = records[k.from] /\ Descends(k.from) /\ k.from \in Issued'
           /\ k.from \notin live => k.from \notin live'
  BY DEF FlowInv, Tasks, Grows
<1>2. k.at = "storing" => records'[records[k.from].from] = records[records[k.from].from]
  BY <1>1 DEF Fits, Descends, Grows
<1> QED BY <1>1, <1>2 DEF Fits

\* Requests stay fit, unspent and apart if those that moved are, and the others unspent.
LEMMA TasksAreKept ==
  ASSUME FlowInv, Grows, NEW T \in SUBSET Task,
         \A u \in Task \ T : task'[u] = task[u] /\ Unspent(u)',
         \A t \in T : /\ Fits(t)' /\ Unspent(t)'
                      /\ \A u \in Task \ {t} : Apart(t, u)'
  PROVE  Tasks'
<1>1. \A t \in Task : Fits(t)' /\ Unspent(t)'
  BY FitIsKept
<1>2. \A t, u \in Task : t # u => Apart(t, u)'
  <2> SUFFICES ASSUME NEW t \in Task, NEW u \in Task, t # u PROVE Apart(t, u)'
    OBVIOUS
  <2>1. CASE t \in T
    BY <2>1
  <2>2. CASE u \in T
    <3>1. Apart(u, t)'
      BY <2>2
    <3> QED BY <3>1 DEF Apart
  <2>3. CASE t \notin T /\ u \notin T
    <3>1. Apart(t, u) /\ task'[t] = task[t] /\ task'[u] = task[u]
      BY <2>3 DEF FlowInv, Tasks
    <3> QED BY <3>1 DEF Apart
  <2> QED BY <2>1, <2>2, <2>3
<1> QED BY <1>1, <1>2 DEF Tasks

\* A step that moves no request keeps them in order if all stay unspent.
LEMMA TasksStay ==
  ASSUME FlowInv, Grows, task' = task, \A u \in Task : Unspent(u)'
  PROVE  Tasks'
<1>1. {} \in SUBSET Task
  OBVIOUS
<1> QED BY <1>1, TasksAreKept, Zenon

\* A step that moves one request keeps all in order if that one is, and the others unspent.
LEMMA OneTaskMoves ==
  ASSUME FlowInv, Grows, NEW t \in Task,
         \A u \in Task \ {t} : task'[u] = task[u] /\ Unspent(u)' /\ Apart(t, u)',
         Fits(t)', Unspent(t)'
  PROVE  Tasks'
<1>1. {t} \in SUBSET Task
  OBVIOUS
<1>2. \A r \in {t} : Fits(r)' /\ Unspent(r)' /\ \A u \in Task \ {r} : Apart(r, u)'
  OBVIOUS
<1> QED BY <1>1, <1>2, TasksAreKept, Zenon

\* A request that holds nothing to spend.
LEMMA RestingTask ==
  ASSUME NEW t \in Task,
         task'[t].at \in {"idle", "replacing", "checking", "validating", "ending"}
  PROVE  Fits(t)' /\ Unspent(t)' /\ \A u \in Task \ {t} : Apart(t, u)'
BY DEF Fits, Unspent, Apart

\* Without a put, what is issued, alive and unspent stays so.
LEMMA NoPutKeeps ==
  ASSUME FlowInv, records' = records, live' \subseteq live, used \subseteq used'
  PROVE  /\ \A s \in Issued' : Descends(s)'
         /\ SingleUse' /\ OneLiveRefresh' /\ Grows
         /\ \A u \in Task : task'[u] = task[u] => Unspent(u)'
<1>1. Grows /\ Issued' = Issued
  BY NoPutGrows DEF FlowInv
<1>2. \A s \in Issued' : Descends(s)'
  BY <1>1, DescentIsKept
<1>3. SingleUse'
  BY <1>1 DEF FlowInv, SingleUse
<1>4. OneLiveRefresh'
  BY DEF FlowInv, OneLiveRefresh, Held
<1>5. \A u \in Task : task'[u] = task[u] => Unspent(u)'
  BY <1>1 DEF FlowInv, Tasks, Unspent
<1> QED BY <1>1, <1>2, <1>3, <1>4, <1>5

\* A step without a put keeps the invariant if the request that moved is in order.
LEMMA NoPutStep ==
  ASSUME FlowInv, TypeOK', records' = records, live' \subseteq live,
         UNCHANGED <<used, presented, replayed>>, NEW t \in Task,
         \A u \in Task \ {t} : task'[u] = task[u],
         Fits(t)', Unspent(t)', \A u \in Task \ {t} : Apart(t, u)'
  PROVE  FlowInv'
<1>1. Presented'
  BY DEF FlowInv, Presented, TypeOK
<1>2. /\ \A s \in Issued' : Descends(s)'
      /\ SingleUse' /\ OneLiveRefresh' /\ Grows
      /\ \A u \in Task : task'[u] = task[u] => Unspent(u)'
  BY NoPutKeeps
<1>3. Tasks'
  BY <1>2, OneTaskMoves
<1> QED BY <1>1, <1>2, <1>3 DEF FlowInv

\* A step that puts a record keeps what is issued in order if the record descends from
\* its source and nothing of its kind did before.
LEMMA PutKeeps ==
  ASSUME FlowInv, NEW kind \in Kinds, NEW x \in Subject \union {None},
         NEW c \in Client \union {None}, NEW b \in Target \union {None}, NEW f \in Nat,
         Put(kind, x, c, b, f), used \subseteq used',
         \A s \in Issued' \ Issued : Descends(s)',
         kind \in {"code", "family"} =>
           \A s \in Issued : records[s].kind = kind => records[s].from # f,
         kind = "refresh" =>
           \A s \in Issued \ used' : records[s].kind = kind /\ s \in live => records[s].from # f
  PROVE  /\ \A s \in Issued' : Descends(s)'
         /\ SingleUse' /\ OneLiveRefresh' /\ Grows
         /\ \A u \in Task :
              /\ task'[u] = task[u]
              /\ kind = "code" /\ task[u].at \in {"approving", "coding"} => task[u].from # f
              /\ kind = "family" /\ task[u].at = "granting" => task[u].from # f
              /\ kind = "refresh" /\ task[u].at = "storing" => task[u].from # f
              => Unspent(u)'
<1>1. /\ Grows /\ Fresh \notin Issued
      /\ Issued' = Issued \union {Fresh} /\ live' = live \union {Fresh}
      /\ records'[Fresh] = [kind |-> kind, subject |-> x, client |-> c, binding |-> b,
                            from |-> f]
      /\ \A s \in Issued : records'[s] = records[s]
  BY PutGrows DEF FlowInv, Grows
<1>2. \A s \in Issued' : Descends(s)'
  <2> SUFFICES ASSUME NEW s \in Issued' PROVE Descends(s)'
    OBVIOUS
  <2>1. CASE s \in Issued
    BY <1>1, <2>1, DescentIsKept
  <2>2. CASE s \notin Issued
    BY <2>2
  <2> QED BY <2>1, <2>2
<1>3. SingleUse'
  BY <1>1 DEF FlowInv, SingleUse
<1>4. OneLiveRefresh'
  <2>1. \A s \in Issued : Descends(s)
    BY DEF FlowInv
  <2>2. \A s \in Issued : records[s].kind = "refresh" =>
          (records[s].from \in live' <=> records[s].from \in live)
    BY <1>1, <2>1 DEF Descends
  <2>3. live \subseteq Issued
    BY DEF FlowInv, TypeOK
  <2> QED BY <1>1, <2>2, <2>3 DEF FlowInv, OneLiveRefresh, Held
<1>5. ASSUME NEW u \in Task, task'[u] = task[u],
             kind = "code" /\ task[u].at \in {"approving", "coding"} => task[u].from # f,
             kind = "family" /\ task[u].at = "granting" => task[u].from # f,
             kind = "refresh" /\ task[u].at = "storing" => task[u].from # f
      PROVE  Unspent(u)'
  BY <1>1, <1>5 DEF FlowInv, Tasks, Unspent
<1> QED BY <1>1, <1>2, <1>3, <1>4, <1>5

--------------------------------------------------------------------------------
(* Steps that put nothing.                                                      *)

\* The state a request may be in.
TaskState == [at : Places, subject : Subject \union {None}, client : Client \union {None},
              binding : Target \union {None}, from : Nat]

\* The types after a step without a put.
LEMMA NoPutTypes ==
  ASSUME TypeOK, records' = records, live' \subseteq live, used' = used,
         task' \in [Task -> TaskState], target' \in [Subject -> Target],
         presented' \subseteq Issued, replayed' \subseteq presented', revoked' \subseteq Issued
  PROVE  TypeOK'
<1>1. RecordsOK' /\ Issued' = Issued
  BY NoPutGrows
<1> QED BY <1>1 DEF TypeOK, RecordsOK, TaskState

\* A request that is over, or whose next step spends nothing, leaves the rest in order.
LEMMA RestStep ==
  ASSUME FlowInv, NEW t \in Task, NEW r \in TaskState,
         task' = [task EXCEPT ![t] = r],
         r.at \in {"idle", "replacing", "checking", "validating", "ending"},
         records' = records, live' \subseteq live,
         UNCHANGED <<used, target, history>>
  PROVE  FlowInv'
<1>1. TypeOK
  BY DEF FlowInv
<1>2. task' \in [Task -> TaskState] /\ task'[t] = r /\ \A u \in Task \ {t} : task'[u] = task[u]
  BY <1>1 DEF TypeOK, TaskState
<1>3. TypeOK'
  BY <1>1, <1>2, NoPutTypes DEF TypeOK, history
<1>4. Fits(t)' /\ Unspent(t)' /\ \A u \in Task \ {t} : Apart(t, u)'
  BY <1>2, RestingTask
<1> QED BY <1>2, <1>3, <1>4, NoPutStep DEF history

\* The state of a request that is over.
LEMMA IdleTyped == Idle \in TaskState /\ Idle.at = "idle"
BY DEF Idle, TaskState, Places

\* A request that is over leaves the rest in order.
LEMMA EndsStep ==
  ASSUME FlowInv, NEW t \in Task, Ends(t), records' = records, live' \subseteq live,
         UNCHANGED <<used, target, history>>
  PROVE  FlowInv'
BY IdleTyped, RestStep DEF Ends

\* A request that goes on with what it holds, without a put.
LEMMA GoesToRest ==
  ASSUME FlowInv, NEW t \in Task, NEW place \in {"checking", "validating", "ending"},
         Goes(t, place), records' = records, live' \subseteq live,
         UNCHANGED <<used, target, history>>
  PROVE  FlowInv'
<1>1. task' = [task EXCEPT ![t] = [task[t] EXCEPT !.at = place]]
      /\ [task[t] EXCEPT !.at = place] \in TaskState
  BY DEF Goes, FlowInv, TypeOK, TaskState, Places
<1>2. [task[t] EXCEPT !.at = place].at = place
  BY DEF FlowInv, TypeOK
<1> QED BY <1>1, <1>2, RestStep

\* Steps of no request: expiry, the revocation of a subject, a new target.
LEMMA QuietStep ==
  ASSUME FlowInv, UNCHANGED <<records, used, task, presented, replayed>>,
         live' \subseteq live, target' \in [Subject -> Target], revoked' \subseteq Issued
  PROVE  FlowInv'
<1>1. TypeOK'
  BY NoPutTypes DEF FlowInv, TypeOK, TaskState
<1>2. Presented'
  BY DEF FlowInv, Presented, TypeOK
<1>3. /\ \A s \in Issued' : Descends(s)'
      /\ SingleUse' /\ OneLiveRefresh' /\ Grows /\ \A u \in Task : Unspent(u)'
  BY NoPutKeeps
<1>4. Tasks'
  BY <1>3, TasksStay
<1> QED BY <1>1, <1>2, <1>3, <1>4 DEF FlowInv

\* A sign-in reads nothing of the store.
LEMMA LoginStep ==
  ASSUME FlowInv, NEW t \in Task, NEW x \in Subject, Login(t, x)
  PROVE  FlowInv'
<1>1. /\ task' \in [Task -> TaskState] /\ task'[t].at = "authenticated"
      /\ task'[t].subject = x /\ \A u \in Task \ {t} : task'[u] = task[u]
  BY DEF Login, FlowInv, TypeOK, TaskState, Places
<1>2. TypeOK'
  BY <1>1, NoPutTypes DEF Login, FlowInv, TypeOK, history
<1>3. Fits(t)' /\ Unspent(t)' /\ \A u \in Task \ {t} : Apart(t, u)'
  BY <1>1 DEF Fits, Unspent, Apart
<1> QED BY <1>1, <1>2, <1>3, NoPutStep DEF Login, history

\* A consent reads a transaction and a login session.
LEMMA ConsentStep ==
  ASSUME FlowInv, NEW t \in Task, NEW k \in live, NEW l \in live, Consent(t, k, l)
  PROVE  FlowInv'
<1>1. /\ k \in Issued /\ l \in Issued /\ records[k].kind = "transaction"
      /\ records[k].client \in Client \union {None} /\ records[l].kind = "login"
      /\ k \in Nat /\ records' = records
  <2>1. k \in Issued /\ l \in Issued
    BY DEF FlowInv, TypeOK
  <2> QED BY <2>1, RecordTyped DEF Consent, Held, FlowInv
<1>2. records[l].subject \in Subject
  BY <1>1 DEF FlowInv, Descends
<1>3. /\ task'[t] = [at |-> "consenting", subject |-> records[l].subject,
                     client |-> records[k].client, binding |-> None, from |-> k]
      /\ \A u \in Task \ {t} : task'[u] = task[u]
      /\ task' \in [Task -> TaskState]
  BY <1>1, <1>2 DEF Consent, FlowInv, TypeOK, TaskState, Places
<1>4. TypeOK'
  BY <1>3, NoPutTypes DEF Consent, FlowInv, TypeOK, history
<1>5. Fits(t)' /\ Unspent(t)' /\ \A u \in Task \ {t} : Apart(t, u)'
  BY <1>1, <1>2, <1>3 DEF Fits, Unspent, Apart, Issued
<1> QED BY <1>3, <1>4, <1>5, NoPutStep DEF Consent, history

\* Only one of the requests that hold a transaction finds it, and no code was made of it.
LEMMA ConsentConsumesStep ==
  ASSUME FlowInv, NEW t \in Task, ConsentConsumes(t)
  PROVE  FlowInv'
<1> DEFINE k == task[t].from
<1>1. live' \subseteq live /\ UNCHANGED <<records, used, target, history>>
  BY DeleteShrinks DEF ConsentConsumes
<1>2. CASE Ends(t)
  BY <1>1, <1>2, EndsStep
<1>3. CASE k \in live /\ Goes(t, "approving")
  <2>1. /\ task'[t].at = "approving" /\ task'[t].from = k
        /\ task'[t].subject = task[t].subject /\ task'[t].client = task[t].client
        /\ \A u \in Task \ {t} : task'[u] = task[u]
        /\ task' \in [Task -> TaskState]
    BY <1>3 DEF Goes, FlowInv, TypeOK, TaskState, Places
  <2>2. /\ task[t].subject \in Subject /\ k \in Issued
        /\ records[k].kind = "transaction" /\ records[k].client = task[t].client
    BY DEF ConsentConsumes, FlowInv, Tasks, Fits
  <2>3. k \notin live'
    BY <1>3, <2>2, DeleteShrinks DEF ConsentConsumes
  <2>4. TypeOK'
    BY <1>1, <2>1, NoPutTypes DEF FlowInv, TypeOK, history
  <2>5. Fits(t)'
    BY <1>1, <2>1, <2>2, <2>3 DEF Fits, Issued
  <2>6. Unspent(t)'
    BY <1>1, <1>3, <2>1 DEF FlowInv, Descends, Unspent, Issued
  <2>7. \A u \in Task \ {t} : Apart(t, u)'
    BY <1>3, <2>1 DEF FlowInv, Tasks, Fits, Apart
  <2> QED BY <1>1, <2>1, <2>4, <2>5, <2>6, <2>7, NoPutStep DEF history
<1> QED BY <1>2, <1>3 DEF ConsentConsumes

\* The approval freezes what the policy answers; the transaction stays the one consumed.
LEMMA ConsentApprovedStep ==
  ASSUME FlowInv, NEW t \in Task, ConsentApproved(t)
  PROVE  FlowInv'
<1>1. task[t].subject \in Subject /\ task[t].at = "approving" /\ Fits(t) /\ Unspent(t)
      /\ \A u \in Task \ {t} : Apart(t, u)
  BY DEF ConsentApproved, FlowInv, Tasks, Fits
<1>2. PICK b \in Target \union {None} :
        task' = [task EXCEPT ![t] = [at |-> "coding", subject |-> task[t].subject,
                                     client |-> task[t].client, binding |-> b,
                                     from |-> task[t].from]]
  <2>1. target[task[t].subject] \in Target
    BY <1>1 DEF FlowInv, TypeOK
  <2> QED BY <2>1 DEF ConsentApproved
<1>3. /\ task'[t].at = "coding" /\ task'[t].from = task[t].from
      /\ task'[t].subject = task[t].subject /\ task'[t].client = task[t].client
      /\ \A u \in Task \ {t} : task'[u] = task[u]
      /\ task' \in [Task -> TaskState]
  <2>1. task \in [Task -> TaskState] /\ task[t] \in TaskState
    BY DEF FlowInv, TypeOK, TaskState
  <2> DEFINE v == [at |-> "coding", subject |-> task[t].subject, client |-> task[t].client,
                   binding |-> b, from |-> task[t].from]
  <2>2. /\ v \in TaskState /\ v.at = "coding" /\ v.from = task[t].from
        /\ v.subject = task[t].subject /\ v.client = task[t].client
    BY <2>1 DEF TaskState, Places
  <2>3. task' = [task EXCEPT ![t] = v]
    BY <1>2
  <2> HIDE DEF v
  <2> QED BY <2>1, <2>2, <2>3
<1>4. TypeOK'
  BY <1>3, NoPutTypes DEF ConsentApproved, FlowInv, TypeOK, history
<1>5. Fits(t)' /\ Unspent(t)' /\ \A u \in Task \ {t} : Apart(t, u)'
  BY <1>1, <1>3 DEF ConsentApproved, Fits, Unspent, Apart, Issued
<1> QED BY <1>3, <1>4, <1>5, NoPutStep DEF ConsentApproved, history

\* A code leaves the table with the request that will be granted its family.
LEMMA ConsumeCodeStep ==
  ASSUME FlowInv, NEW t \in Task, NEW c \in Client, NEW k \in live, ConsumeCode(t, c, k)
  PROVE  FlowInv'
<1>1. /\ live' \subseteq live /\ k \notin live' /\ k \in Issued /\ k \in Nat
      /\ records[k].kind = "code" /\ records[k].subject \in Subject \union {None}
      /\ records[k].binding \in Target \union {None}
      /\ UNCHANGED <<records, used, target, history>>
  <2>1. k \in Issued
    BY DEF FlowInv, TypeOK
  <2> QED BY <2>1, RecordTyped DEF ConsumeCode, Delete, Held, FlowInv
<1>2. CASE UNCHANGED task
  BY <1>1, <1>2, QuietStep DEF FlowInv, TypeOK, history
<1>3. CASE records[k].client = c /\ ~UNCHANGED task
  <2>1. /\ task'[t] = [at |-> "granting", subject |-> records[k].subject, client |-> c,
                       binding |-> records[k].binding, from |-> k]
        /\ \A u \in Task \ {t} : task'[u] = task[u]
        /\ task' \in [Task -> TaskState]
    BY <1>1, <1>3 DEF ConsumeCode, FlowInv, TypeOK, TaskState, Places
  <2>2. TypeOK'
    BY <1>1, <2>1, NoPutTypes DEF FlowInv, TypeOK, history
  <2>3. Fits(t)'
    BY <1>1, <1>3, <2>1 DEF Fits, Issued
  <2>4. Unspent(t)'
    BY <1>1, <2>1 DEF FlowInv, Descends, Unspent, Issued
  <2>5. \A u \in Task \ {t} : Apart(t, u)'
    BY <1>1, <2>1 DEF FlowInv, Tasks, Fits, Apart
  <2> QED BY <1>1, <2>1, <2>2, <2>3, <2>4, <2>5, NoPutStep DEF history
<1> QED BY <1>2, <1>3 DEF ConsumeCode

\* The family of a token presented again leaves the table.
LEMMA RotateReusedStep ==
  ASSUME FlowInv, NEW t \in Task, NEW c \in Client, NEW k \in live, RotateReused(t, c, k)
  PROVE  FlowInv'
<1>1. /\ live' \subseteq live /\ k \in Issued /\ records[k].kind = "refresh" /\ k \in used
      /\ UNCHANGED <<records, used, task, target, revoked>>
      /\ presented' = presented \union {k} /\ replayed' \subseteq replayed \union {k}
      /\ replayed' \subseteq presented'
  BY DeleteShrinks DEF RotateReused, Refreshes, Presents, Held, FlowInv, TypeOK
<1>2. records[k].from \notin live'
  <2>1. records[k].from \in Issued /\ records[records[k].from].kind = "family"
    BY <1>1 DEF FlowInv, Descends
  <2> QED BY <2>1, DeleteShrinks DEF RotateReused
<1>3. TypeOK'
  BY <1>1, NoPutTypes DEF FlowInv, TypeOK, TaskState
<1>4. Presented'
  BY <1>1, <1>2 DEF FlowInv, Presented
<1>5. /\ \A s \in Issued' : Descends(s)'
      /\ SingleUse' /\ OneLiveRefresh' /\ Grows
      /\ \A u \in Task : Unspent(u)'
  BY <1>1, NoPutKeeps
<1>6. Tasks'
  BY <1>1, <1>5, TasksStay
<1> QED BY <1>3, <1>4, <1>5, <1>6 DEF FlowInv

--------------------------------------------------------------------------------
(* Steps that put a record.                                                     *)

\* The types after a put.
LEMMA PutTypes ==
  ASSUME TypeOK, NEW kind \in Kinds, NEW x \in Subject \union {None},
         NEW c \in Client \union {None}, NEW b \in Target \union {None}, NEW f \in Nat,
         Put(kind, x, c, b, f), used' \subseteq Issued,
         task' \in [Task -> TaskState], target' = target,
         presented' \subseteq Issued, replayed' \subseteq presented', revoked' = revoked
  PROVE  TypeOK'
<1>1. RecordsOK' /\ Issued \subseteq Issued'
  BY PutGrows DEF Grows
<1> QED BY <1>1 DEF TypeOK, RecordsOK, TaskState

\* What was presented stays so, and families that are over do not come back.
LEMMA PresentedStays ==
  ASSUME FlowInv, Grows, UNCHANGED <<used, presented, replayed>>
  PROVE  Presented'
<1>1. \A s \in presented : s \in Issued /\ records'[s] = records[s]
                           /\ records[s].from \in Issued
  BY DEF FlowInv, TypeOK, Grows, Presented, Descends
<1> QED BY <1>1 DEF FlowInv, Presented, Grows, TypeOK

\* Clients, transactions and logins descend from nothing.
LEMMA PlainPut ==
  ASSUME FlowInv, NEW kind \in {"client", "transaction", "login"},
         NEW x \in Subject \union {None}, NEW c \in Client \union {None},
         kind = "login" => x \in Subject,
         Put(kind, x, c, None, 0), UNCHANGED <<used, target, history>>,
         task' \in [Task -> TaskState]
  PROVE  /\ TypeOK' /\ Presented' /\ SingleUse' /\ OneLiveRefresh' /\ Grows
         /\ \A s \in Issued' : Descends(s)'
         /\ \A u \in Task : task'[u] = task[u] => Unspent(u)'
<1>1. kind \in Kinds /\ kind \notin {"code", "family", "refresh"} /\ 0 \in Nat
      /\ None \in Target \union {None}
  BY DEF Kinds
<1>2. TypeOK'
  BY <1>1, PutTypes DEF FlowInv, TypeOK, history
<1>3. /\ Grows /\ Issued' = Issued \union {Fresh}
      /\ records'[Fresh] = [kind |-> kind, subject |-> x, client |-> c, binding |-> None,
                            from |-> 0]
  BY <1>1, PutGrows DEF FlowInv
<1>4. \A s \in Issued' \ Issued : Descends(s)'
  BY <1>1, <1>3 DEF Descends
<1>5. Presented'
  BY <1>3, PresentedStays DEF history
<1>6. /\ \A s \in Issued' : Descends(s)'
      /\ SingleUse' /\ OneLiveRefresh'
      /\ \A u \in Task : task'[u] = task[u] => Unspent(u)'
  <2> DEFINE zero == 0
             none == None
  <2>1. Put(kind, x, c, none, zero) /\ zero \in Nat /\ none \in Target \union {None}
        /\ used \subseteq used'
    BY <1>1
  <2> HIDE DEF zero, none
  <2> QED BY <1>1, <1>4, <2>1, PutKeeps
<1> QED BY <1>2, <1>3, <1>5, <1>6

\* A registration and an authorization request descend from nothing.
LEMMA RegisterStep ==
  ASSUME FlowInv, NEW c \in Client, Register(c) \/ Authorize(c)
  PROVE  FlowInv'
<1>1. PICK kind \in {"client", "transaction"} : Put(kind, None, c, None, 0)
  BY DEF Register, Authorize
<1>2. UNCHANGED <<used, target, history>> /\ task' = task
  BY DEF Register, Authorize
<1>3. task' \in [Task -> TaskState]
  BY <1>2 DEF FlowInv, TypeOK, TaskState
<1>4. /\ TypeOK' /\ Presented' /\ SingleUse' /\ OneLiveRefresh' /\ Grows
      /\ \A s \in Issued' : Descends(s)'
      /\ \A u \in Task : Unspent(u)'
  BY <1>1, <1>2, <1>3, PlainPut
<1>5. Tasks'
  BY <1>2, <1>4, TasksStay
<1> QED BY <1>4, <1>5 DEF FlowInv

\* A request that meets a full store is over.
LEMMA FullStep ==
  ASSUME FlowInv, NEW t \in Task, Full(t), UNCHANGED <<used, target, history>>
  PROVE  FlowInv'
BY EndsStep DEF Full

\* A login session descends from nothing, and the request rests.
LEMMA LoginStoresStep ==
  ASSUME FlowInv, NEW t \in Task, LoginStores(t)
  PROVE  FlowInv'
<1>1. UNCHANGED <<used, target, history>>
  BY DEF LoginStores
<1>2. CASE Full(t)
  BY <1>1, <1>2, FullStep
<1>3. CASE Put("login", task[t].subject, None, None, 0) /\ Goes(t, "replacing")
  <2>1. task[t].subject \in Subject
    BY DEF LoginStores, FlowInv, Tasks, Fits
  <2>2. /\ task' \in [Task -> TaskState] /\ task'[t].at = "replacing"
        /\ \A u \in Task \ {t} : task'[u] = task[u]
    BY <1>3 DEF Goes, FlowInv, TypeOK, TaskState, Places
  <2>3. /\ TypeOK' /\ Presented' /\ SingleUse' /\ OneLiveRefresh' /\ Grows
        /\ \A s \in Issued' : Descends(s)'
        /\ \A u \in Task \ {t} : Unspent(u)'
    BY <1>1, <1>3, <2>1, <2>2, PlainPut
  <2>4. Fits(t)' /\ Unspent(t)' /\ \A u \in Task \ {t} : Apart(t, u)'
    BY <2>2, RestingTask
  <2>5. Tasks'
    BY <2>2, <2>3, <2>4, OneTaskMoves
  <2> QED BY <2>3, <2>5 DEF FlowInv
<1> QED BY <1>2, <1>3 DEF LoginStores

\* The code of a transaction: no other request holds it, and none was made before.
LEMMA ConsentStoresStep ==
  ASSUME FlowInv, NEW t \in Task, ConsentStores(t)
  PROVE  FlowInv'
<1> DEFINE k == task[t]
<1>1. /\ UNCHANGED <<used, target, history>> /\ k.at = "coding"
      /\ Fits(t) /\ Unspent(t) /\ \A u \in Task \ {t} : Apart(t, u)
  BY DEF ConsentStores, FlowInv, Tasks
<1>2. CASE Full(t)
  BY <1>1, <1>2, FullStep
<1>3. CASE Put("code", k.subject, k.client, k.binding, k.from) /\ Ends(t)
  <2>1. /\ "code" \in Kinds /\ k.subject \in Subject \union {None} /\ k.from \in Nat
        /\ k.client \in Client \union {None} /\ k.binding \in Target \union {None}
    BY DEF FlowInv, TypeOK, Kinds
  <2>2. /\ task' \in [Task -> TaskState] /\ task'[t].at = "idle"
        /\ \A u \in Task \ {t} : task'[u] = task[u]
    BY <1>3, IdleTyped DEF Ends, FlowInv, TypeOK, TaskState
  <2>3. TypeOK'
    BY <1>1, <1>3, <2>1, <2>2, PutTypes DEF FlowInv, TypeOK, history
  <2> DEFINE kind == "code"
             x == k.subject
             c == k.client
             b == k.binding
             f == k.from
  <2>put. /\ kind \in Kinds /\ x \in Subject \union {None} /\ c \in Client \union {None}
          /\ b \in Target \union {None} /\ f \in Nat /\ Put(kind, x, c, b, f)
          /\ used \subseteq used'
    BY <1>1, <1>3, <2>1
  <2>first. \A s \in Issued : records[s].kind = kind => records[s].from # f
    BY <1>1 DEF Unspent
  <2>4. /\ Grows /\ Fresh \notin Issued
        /\ Issued' = Issued \union {Fresh} /\ live' = live \union {Fresh}
        /\ records'[Fresh] = [kind |-> "code", subject |-> k.subject, client |-> k.client,
                              binding |-> k.binding, from |-> k.from]
    <3> HIDE DEF kind, x, c, b, f
    <3>1. /\ Grows /\ Fresh \notin Issued
          /\ Issued' = Issued \union {Fresh} /\ live' = live \union {Fresh}
          /\ records'[Fresh] = [kind |-> kind, subject |-> x, client |-> c, binding |-> b,
                                from |-> f]
      BY <2>put, PutGrows DEF FlowInv
    <3> QED BY <3>1 DEF kind, x, c, b, f
  <2>5. \A s \in Issued' \ Issued : Descends(s)'
    BY <1>1, <2>4 DEF Descends, Fits, Grows
  <2>6. /\ \A s \in Issued' : Descends(s)'
        /\ SingleUse' /\ OneLiveRefresh'
        /\ \A u \in Task : /\ task'[u] = task[u]
                           /\ task[u].at \in {"approving", "coding"} => task[u].from # k.from
                           => Unspent(u)'
    <3>1. kind \notin {"family", "refresh"}
      OBVIOUS
    <3> HIDE DEF kind, x, c, b, f
    <3>2. /\ \A s \in Issued' : Descends(s)'
          /\ SingleUse' /\ OneLiveRefresh'
          /\ \A u \in Task : /\ task'[u] = task[u]
                             /\ task[u].at \in {"approving", "coding"} => task[u].from # f
                             => Unspent(u)'
      BY <3>1, <2>put, <2>first, <2>5, PutKeeps
    <3> QED BY <3>2 DEF f
  <2>7. \A u \in Task \ {t} : Unspent(u)'
    BY <1>1, <2>2, <2>6 DEF Apart
  <2>8. Tasks'
    BY <2>2, <2>4, <2>7, RestingTask, OneTaskMoves
  <2>9. Presented'
    BY <1>1, <2>4, PresentedStays DEF history
  <2> QED BY <2>3, <2>6, <2>8, <2>9 DEF FlowInv
<1> QED BY <1>2, <1>3 DEF ConsentStores

\* A request that may have been granted a family and goes on with it, or is over.
LEMMA ProceedsTyped ==
  ASSUME TypeOK, NEW t \in Task, NEW place \in Places, NEW family \in Nat,
         Proceeds(t, place, family)
  PROVE  /\ task' \in [Task -> TaskState]
         /\ \A u \in Task \ {t} : task'[u] = task[u]
         /\ task'[t].at = place
         /\ place # "idle" => /\ task'[t].from = family
                              /\ task'[t].subject = task[t].subject
                              /\ task'[t].client = task[t].client
                              /\ task'[t].binding = task[t].binding
<1>1. CASE place = "idle"
  <2>1. task' = [task EXCEPT ![t] = Idle]
    BY <1>1 DEF Proceeds
  <2> QED BY <1>1, <2>1, IdleTyped DEF TypeOK, TaskState
<1>2. CASE place # "idle"
  <2>1. task' = [task EXCEPT ![t] = [task[t] EXCEPT !.at = place, !.from = family]]
    BY <1>2 DEF Proceeds
  <2> QED BY <1>2, <2>1 DEF TypeOK, TaskState
<1> QED BY <1>1, <1>2

\* Where a request goes once its tokens are made.
LEMMA AnswerTyped ==
  ASSUME NEW c PROVE Answer(c) \in {"idle", "checking"} /\ {"idle", "checking"} \subseteq Places
BY DEF Answer, Places

\* The family of a code: no other request holds it, none was made before, and no refresh
\* token can have been made from a family that was not issued yet.
LEMMA PutFamilyStep ==
  ASSUME FlowInv, NEW t \in Task, PutFamily(t)
  PROVE  FlowInv'
<1> DEFINE k == task[t]
           place == IF k.client \in Renewing THEN "storing" ELSE Answer(k.client)
<1>1. /\ UNCHANGED <<used, target, history>> /\ k.at = "granting"
      /\ Fits(t) /\ Unspent(t) /\ \A u \in Task \ {t} : Apart(t, u)
  BY DEF PutFamily, FlowInv, Tasks
<1>2. CASE Full(t)
  BY <1>1, <1>2, FullStep
<1>3. CASE Put("family", k.subject, k.client, None, k.from) /\ Proceeds(t, place, Fresh)
  <2>1. /\ "family" \in Kinds /\ k.subject \in Subject \union {None} /\ k.from \in Nat
        /\ k.client \in Client \union {None} /\ None \in Target \union {None}
    BY DEF FlowInv, TypeOK, Kinds
  <2> DEFINE kind == "family"
             x == k.subject
             c == k.client
             b == None
             f == k.from
  <2>put. /\ kind \in Kinds /\ x \in Subject \union {None} /\ c \in Client \union {None}
          /\ b \in Target \union {None} /\ f \in Nat /\ Put(kind, x, c, b, f)
          /\ used \subseteq used'
    BY <1>1, <1>3, <2>1
  <2>first. \A s \in Issued : records[s].kind = kind => records[s].from # f
    BY <1>1 DEF Unspent
  <2>2. /\ Grows /\ Fresh \notin Issued /\ Fresh \in Nat
        /\ Issued' = Issued \union {Fresh} /\ live' = live \union {Fresh}
        /\ records'[Fresh] = [kind |-> "family", subject |-> k.subject, client |-> k.client,
                              binding |-> None, from |-> k.from]
    <3> HIDE DEF kind, x, c, b, f
    <3>1. /\ Grows /\ Fresh \notin Issued /\ Fresh \in Nat
          /\ Issued' = Issued \union {Fresh} /\ live' = live \union {Fresh}
          /\ records'[Fresh] = [kind |-> kind, subject |-> x, client |-> c, binding |-> b,
                                from |-> f]
      BY <2>put, PutGrows DEF FlowInv
    <3> QED BY <3>1 DEF kind, x, c, b, f
  <2>3. place \in {"storing", "idle", "checking"} /\ place \in Places
    BY AnswerTyped DEF Places
  <2> HIDE DEF place
  <2>4. /\ task' \in [Task -> TaskState]
        /\ \A u \in Task \ {t} : task'[u] = task[u]
        /\ task'[t].at = place
        /\ place # "idle" => /\ task'[t].from = Fresh /\ task'[t].subject = k.subject
                             /\ task'[t].client = k.client /\ task'[t].binding = k.binding
    BY <1>3, <2>2, <2>3, ProceedsTyped DEF FlowInv
  <2>5. TypeOK'
    BY <1>1, <1>3, <2>1, <2>4, PutTypes DEF FlowInv, TypeOK, history
  <2>6. \A s \in Issued' \ Issued : Descends(s)'
    BY <1>1, <2>2 DEF Descends, Fits, Grows
  <2>7. /\ \A s \in Issued' : Descends(s)'
        /\ SingleUse' /\ OneLiveRefresh'
        /\ \A u \in Task : /\ task'[u] = task[u]
                           /\ task[u].at = "granting" => task[u].from # k.from
                           => Unspent(u)'
    <3>1. kind \notin {"code", "refresh"}
      OBVIOUS
    <3> HIDE DEF kind, x, c, b, f
    <3>2. /\ \A s \in Issued' : Descends(s)'
          /\ SingleUse' /\ OneLiveRefresh'
          /\ \A u \in Task : /\ task'[u] = task[u]
                             /\ task[u].at = "granting" => task[u].from # f
                             => Unspent(u)'
      BY <3>1, <2>put, <2>first, <2>6, PutKeeps
    <3> QED BY <3>2 DEF f
  <2>8. \A u \in Task \ {t} : Unspent(u)'
    BY <1>1, <2>4, <2>7 DEF Apart
  <2>9. Fits(t)' /\ Unspent(t)' /\ \A u \in Task \ {t} : Apart(t, u)'
    <3>1. CASE place = "storing"
      <4>1. Fits(t)'
        BY <1>1, <2>2, <2>4, <3>1 DEF Fits, Grows
      <4>2. \A s \in Issued : records'[s] = records[s]
                              /\ (records[s].kind = "refresh" => records[s].from # Fresh)
        BY <2>2 DEF FlowInv, Descends, Grows
      <4>3. Unspent(t)'
        BY <2>2, <2>4, <3>1, <4>2 DEF Unspent
      <4>4. \A u \in Task \ {t} : Apart(t, u)'
        BY <2>2, <2>4, <3>1 DEF FlowInv, Tasks, Fits, Apart
      <4> QED BY <4>1, <4>3, <4>4
    <3>2. CASE place # "storing"
      BY <2>3, <2>4, <3>2, RestingTask
    <3> QED BY <3>1, <3>2
  <2>10. Tasks'
    BY <2>2, <2>4, <2>8, <2>9, OneTaskMoves
  <2>11. Presented'
    BY <1>1, <2>2, PresentedStays DEF history
  <2> QED BY <2>5, <2>7, <2>10, <2>11 DEF FlowInv
<1> QED BY <1>2, <1>3 DEF PutFamily

\* The first refresh token of a family.
LEMMA PutRefreshStep ==
  ASSUME FlowInv, NEW t \in Task, PutRefresh(t)
  PROVE  FlowInv'
<1> DEFINE k == task[t]
           place == Answer(k.client)
<1>1. /\ UNCHANGED <<used, target, history>> /\ k.at = "storing"
      /\ Fits(t) /\ Unspent(t) /\ \A u \in Task \ {t} : Apart(t, u)
  BY DEF PutRefresh, FlowInv, Tasks
<1>2. CASE Full(t)
  BY <1>1, <1>2, FullStep
<1>3. CASE Put("refresh", k.subject, k.client, k.binding, k.from) /\ Proceeds(t, place, k.from)
  <2>1. /\ "refresh" \in Kinds /\ k.subject \in Subject \union {None} /\ k.from \in Nat
        /\ k.client \in Client \union {None} /\ k.binding \in Target \union {None}
    BY DEF FlowInv, TypeOK, Kinds
  <2>2. /\ Grows /\ Fresh \notin Issued
        /\ Issued' = Issued \union {Fresh} /\ live' = live \union {Fresh}
        /\ records'[Fresh] = [kind |-> "refresh", subject |-> k.subject, client |-> k.client,
                              binding |-> k.binding, from |-> k.from]
    BY <1>3, <2>1, PutGrows DEF FlowInv
  <2>3. place \in {"idle", "checking"} /\ place \in Places
    BY AnswerTyped
  <2> HIDE DEF place
  <2>4. /\ task' \in [Task -> TaskState] /\ task'[t].at = place
        /\ \A u \in Task \ {t} : task'[u] = task[u]
    BY <1>3, <2>1, <2>3, ProceedsTyped DEF FlowInv
  <2>5. TypeOK'
    BY <1>1, <1>3, <2>1, <2>4, PutTypes DEF FlowInv, TypeOK, history
  <2>6. \A s \in Issued' \ Issued : Descends(s)'
    <3>1. k.from \in Issued /\ records[k.from].kind = "family" /\ Descends(k.from)
      BY <1>1 DEF Fits, FlowInv
    <3>2. records[k.from].from \in Issued
      BY <3>1 DEF Descends
    <3> QED BY <1>1, <2>2, <3>1, <3>2 DEF Descends, Fits, Grows
  <2>7. /\ \A s \in Issued' : Descends(s)'
        /\ SingleUse' /\ OneLiveRefresh'
        /\ \A u \in Task : /\ task'[u] = task[u]
                           /\ task[u].at = "storing" => task[u].from # k.from
                           => Unspent(u)'
    <3> DEFINE kind == "refresh"
               x == k.subject
               c == k.client
               b == k.binding
               f == k.from
    <3>1. /\ kind \in Kinds /\ x \in Subject \union {None} /\ f \in Nat
          /\ c \in Client \union {None} /\ b \in Target \union {None}
          /\ Put(kind, x, c, b, f) /\ used \subseteq used' /\ kind \notin {"code", "family"}
      BY <1>1, <1>3, <2>1
    <3>2. \A s \in Issued : records[s].from = f => records[s].kind # "refresh"
      BY <1>1 DEF Unspent
    <3>3. \A s \in Issued \ used' : records[s].kind = kind /\ s \in live => records[s].from # f
      BY <3>2
    <3>4. kind # "code" /\ kind # "family"
      OBVIOUS
    <3> HIDE DEF kind, x, c, b, f
    <3>5. /\ \A s \in Issued' : Descends(s)'
          /\ SingleUse' /\ OneLiveRefresh'
          /\ \A u \in Task : /\ task'[u] = task[u]
                             /\ task[u].at = "storing" => task[u].from # f
                             => Unspent(u)'
      BY <3>1, <3>3, <3>4, <2>6, PutKeeps
    <3> QED BY <3>5 DEF f
  <2>8. \A u \in Task \ {t} : Unspent(u)'
    BY <1>1, <2>4, <2>7 DEF Apart
  <2>9. Tasks'
    BY <2>2, <2>3, <2>4, <2>8, RestingTask, OneTaskMoves
  <2>10. Presented'
    BY <1>1, <2>2, PresentedStays DEF history
  <2> QED BY <2>5, <2>7, <2>9, <2>10 DEF FlowInv
<1> QED BY <1>2, <1>3 DEF PutRefresh

\* The successor of a refresh token, which was the only one left of a live family.
LEMMA RotateStep ==
  ASSUME FlowInv, NEW t \in Task, NEW c \in Client, NEW k \in live, Rotate(t, c, k)
  PROVE  FlowInv'
<1> DEFINE old == records[k]
           f == old.from
<1>1. /\ k \in Issued /\ old.kind = "refresh" /\ old.client = c /\ k \notin used
      /\ f \in live /\ task[t].at = "idle"
      /\ Put("refresh", old.subject, c, old.binding, f)
      /\ used' = used \union {k} /\ target' = target
      /\ presented' = presented \union {k}
      /\ replayed' = replayed /\ revoked' = revoked
  BY DEF Rotate, Refreshes, Authenticated, Presents, Held, FlowInv, TypeOK, Presented
<1>2. /\ "refresh" \in Kinds /\ old.subject \in Subject \union {None} /\ f \in Nat
      /\ c \in Client \union {None} /\ old.binding \in Target \union {None}
  BY <1>1, RecordTyped DEF FlowInv, Kinds
<1>3. /\ Grows /\ Fresh \notin Issued
      /\ Issued' = Issued \union {Fresh} /\ live' = live \union {Fresh}
      /\ records'[Fresh] = [kind |-> "refresh", subject |-> old.subject, client |-> c,
                            binding |-> old.binding, from |-> f]
  BY <1>1, <1>2, PutGrows DEF FlowInv
<1>4. /\ task' \in [Task -> TaskState] /\ task'[t].at \in {"idle", "checking"}
      /\ \A u \in Task \ {t} : task'[u] = task[u]
  <2>1. CASE c \in Browser
    <3>1. task' = [task EXCEPT ![t] = Idle]
      BY <2>1 DEF Rotate
    <3> QED BY <3>1, IdleTyped DEF FlowInv, TypeOK, TaskState
  <2>2. CASE c \notin Browser
    <3>1. task' = [task EXCEPT ![t] = [at |-> "checking", subject |-> old.subject, client |-> c,
                                       binding |-> old.binding, from |-> f]]
      BY <2>2 DEF Rotate
    <3> QED BY <1>2, <3>1 DEF FlowInv, TypeOK, TaskState, Places
  <2> QED BY <2>1, <2>2
<1>5. TypeOK'
  BY <1>1, <1>2, <1>4, PutTypes DEF FlowInv, TypeOK
<1>6. \A s \in Issued' \ Issued : Descends(s)'
  <2>1. Descends(k) /\ f \in Issued /\ records[f].kind = "family" /\ Descends(f)
    BY <1>1 DEF FlowInv, Descends
  <2>2. records[f].from \in Issued
    BY <2>1 DEF Descends
  <2> QED BY <1>1, <1>3, <2>1, <2>2 DEF Descends, Grows
<1>7. \A s \in Issued \ used' : records[s].kind = "refresh" /\ s \in live => records[s].from # f
  BY <1>1 DEF FlowInv, OneLiveRefresh, Held
<1>8. \A u \in Task : task[u].at = "storing" => task[u].from # f
  BY <1>1 DEF FlowInv, Tasks, Unspent
<1>9. /\ \A s \in Issued' : Descends(s)'
      /\ SingleUse' /\ OneLiveRefresh'
      /\ \A u \in Task : task'[u] = task[u] => Unspent(u)'
  <2> DEFINE kind == "refresh"
             x == old.subject
             b == old.binding
  <2>1. /\ kind \in Kinds /\ x \in Subject \union {None} /\ c \in Client \union {None}
        /\ b \in Target \union {None} /\ f \in Nat /\ Put(kind, x, c, b, f)
        /\ used \subseteq used' /\ kind \notin {"code", "family"}
        /\ \A s \in Issued \ used' : records[s].kind = kind /\ s \in live => records[s].from # f
    BY <1>1, <1>2, <1>7
  <2> HIDE DEF kind, x, b, f
  <2> QED BY <1>6, <1>8, <2>1, PutKeeps
<1>10. Tasks'
  BY <1>3, <1>4, <1>9, RestingTask, OneTaskMoves
<1>11. Presented'
  <2>1. \A s \in presented : s \in Issued /\ records'[s] = records[s]
                             /\ records[s].from \in Issued
    BY <1>3 DEF FlowInv, TypeOK, Presented, Descends, Grows
  <2>2. records'[k] = old
    BY <1>1, <1>3 DEF Grows
  <2> QED BY <1>1, <1>3, <2>1, <2>2 DEF FlowInv, Presented, Grows, TypeOK
<1> QED BY <1>5, <1>9, <1>10, <1>11 DEF FlowInv

--------------------------------------------------------------------------------
(* The invariant holds, and with it the properties.                             *)

\* The empty store satisfies the invariant.
LEMMA FlowInvInit == Init => FlowInv
<1> SUFFICES ASSUME Init PROVE FlowInv
  OBVIOUS
<1>1. /\ records = <<>> /\ live = {} /\ used = {} /\ target \in [Subject -> Target]
      /\ presented = {} /\ replayed = {} /\ revoked = {}
      /\ task \in [Task -> TaskState] /\ \A t \in Task : task[t].at = "idle"
  BY IdleTyped DEF Init
<1>2. records \in Seq(Record) /\ Issued = {}
  BY <1>1 DEF Issued
<1>3. Cardinality(live) <= MaxRecords
  BY <1>1, FS_EmptySet, AuthorizationServerAssumption
<1>4. TypeOK
  BY <1>1, <1>2, <1>3 DEF TypeOK, TaskState
<1>5. Tasks
  BY <1>1, <1>2 DEF Tasks, Fits, Unspent, Apart
<1>6. (\A s \in Issued : Descends(s)) /\ SingleUse /\ OneLiveRefresh /\ Presented
  BY <1>1, <1>2 DEF SingleUse, OneLiveRefresh, Presented, Held
<1> QED BY <1>4, <1>5, <1>6 DEF FlowInv

\* A step of a request being handled keeps the invariant.
LEMMA HandlerKeeps ==
  ASSUME FlowInv, NEW t \in Task, HandlerStep(t)
  PROVE  FlowInv'
<1>1. CASE LoginStores(t)
  BY <1>1, LoginStoresStep
<1>2. ASSUME NEW old \in 0..Len(records), LoginReplaces(t, old)
      PROVE  FlowInv'
  BY <1>2, DeleteShrinks, EndsStep DEF LoginReplaces
<1>3. CASE ConsentConsumes(t)
  BY <1>3, ConsentConsumesStep
<1>4. CASE ConsentApproved(t)
  BY <1>4, ConsentApprovedStep
<1>5. CASE ConsentStores(t)
  BY <1>5, ConsentStoresStep
<1>6. CASE PutFamily(t)
  BY <1>6, PutFamilyStep
<1>7. CASE PutRefresh(t)
  BY <1>7, PutRefreshStep
<1>8. CASE CheckBinding(t)
  <2>1. PICK place \in {"checking", "validating", "ending"} : Goes(t, place)
    BY <1>8 DEF CheckBinding
  <2> QED BY <1>8, <2>1, GoesToRest DEF CheckBinding
<1>9. CASE Validate(t)
  <2>1. CASE Ends(t)
    BY <1>9, <2>1, EndsStep DEF Validate
  <2>2. CASE Goes(t, "ending")
    <3>1. PICK place \in {"checking", "validating", "ending"} : Goes(t, place)
      BY <2>2
    <3> QED BY <1>9, <3>1, GoesToRest DEF Validate
  <2> QED BY <1>9, <2>1, <2>2 DEF Validate
<1>10. CASE EndFamily(t)
  BY <1>10, DeleteShrinks, EndsStep DEF EndFamily
<1>11. CASE Fails(t)
  BY <1>11, EndsStep DEF Fails
<1> QED
  BY <1>1, <1>2, <1>3, <1>4, <1>5, <1>6, <1>7, <1>8, <1>9, <1>10, <1>11 DEF HandlerStep

\* The arrival of a request keeps the invariant.
LEMMA ArrivalKeeps ==
  ASSUME FlowInv, NEW t \in Task, Arrival(t)
  PROVE  FlowInv'
<1>1. ASSUME NEW x \in Subject, Login(t, x) PROVE FlowInv'
  BY <1>1, LoginStep
<1>2. ASSUME NEW k \in live, NEW l \in live, Consent(t, k, l) PROVE FlowInv'
  BY <1>2, ConsentStep
<1>3. ASSUME NEW c \in Client, NEW k \in live, ConsumeCode(t, c, k) PROVE FlowInv'
  BY <1>3, ConsumeCodeStep
<1>4. ASSUME NEW c \in Client, NEW k \in live, RotateReused(t, c, k) PROVE FlowInv'
  BY <1>4, RotateReusedStep
<1>5. ASSUME NEW c \in Client, NEW k \in live, Rotate(t, c, k) PROVE FlowInv'
  BY <1>5, RotateStep
<1>6. ASSUME NEW c \in Client, NEW f \in Issued, Revoke(t, c, f) PROVE FlowInv'
  <2> DEFINE r == [at |-> "ending", subject |-> None, client |-> None, binding |-> None,
                   from |-> f]
  <2>1. r \in TaskState /\ r.at = "ending"
    BY DEF TaskState, Places, Issued
  <2>2. live' \subseteq live /\ records' = records /\ UNCHANGED <<used, target, history>>
        /\ task' = [task EXCEPT ![t] = r]
    BY <1>6 DEF Revoke
  <2> HIDE DEF r
  <2> QED BY <2>1, <2>2, RestStep
<1> QED BY <1>1, <1>2, <1>3, <1>4, <1>5, <1>6 DEF Arrival

\* Every step of the server keeps the invariant.
LEMMA FlowInvNext == FlowInv /\ [Next]_vars => FlowInv'
<1> SUFFICES ASSUME FlowInv, [Next]_vars PROVE FlowInv'
  OBVIOUS
<1>0. target \in [Subject -> Target] /\ revoked \subseteq Issued
  BY DEF FlowInv, TypeOK
<1>1. ASSUME NEW t \in Task, HandlerStep(t) \/ Arrival(t) PROVE FlowInv'
  BY <1>1, HandlerKeeps, ArrivalKeeps
<1>2. ASSUME NEW c \in Client, Register(c) \/ Authorize(c) PROVE FlowInv'
  BY <1>2, RegisterStep
<1>3. ASSUME NEW s \in live, Expire(s) PROVE FlowInv'
  BY <1>0, <1>3, QuietStep DEF Expire, history
<1>4. ASSUME NEW x \in Subject, RevokeSubject(x) PROVE FlowInv'
  <2>1. /\ UNCHANGED <<records, used, task, presented, replayed>> /\ target' = target
        /\ live' \subseteq live /\ revoked' \subseteq Issued
    BY <1>0, <1>4 DEF RevokeSubject
  <2> QED BY <1>0, <2>1, QuietStep
<1>5. ASSUME NEW x \in Subject, Retarget(x) PROVE FlowInv'
  BY <1>0, <1>5, QuietStep DEF Retarget, history
<1>6. CASE UNCHANGED vars
  BY <1>0, <1>6, QuietStep DEF vars, history
<1> QED BY <1>1, <1>2, <1>3, <1>4, <1>5, <1>6 DEF Next

\* The invariant holds in every state the server reaches.
THEOREM FlowInvHolds == Spec => []FlowInv
BY FlowInvInit, FlowInvNext, PTL DEF Spec

\* What the records say of their sources is what was consented to.
LEMMA DescentKeepsConsent == FlowInv => ConsentIsKept
BY DEF FlowInv, Descends, ConsentIsKept

\* The family of a token presented again left the table, and stays out of it.
LEMMA PresentedEnds == FlowInv => ReplayEndsFamily
BY DEF FlowInv, Presented, ReplayEndsFamily, Verifies, Held

\* The store, the requests and the history stay well formed, and the table within its
\* limit (SqliteOAuthStateStore.put, state_store.py:46).
THEOREM TypeCorrect == Spec => []TypeOK
<1>1. FlowInv => TypeOK
  BY DEF FlowInv
<1> QED BY <1>1, FlowInvHolds, PTL

\* One code per approved transaction and one family per code, for any number of requests
\* that present them at once (consume, state_store.py:85).
THEOREM CodesUsedOnce == Spec => []SingleUse
<1>1. FlowInv => SingleUse
  BY DEF FlowInv
<1> QED BY <1>1, FlowInvHolds, PTL

\* A consent reaches no other client, subject or target, through any number of codes and
\* rotations (authorization_server.py:609-674).
THEOREM ConsentAlwaysKept == Spec => []ConsentIsKept
BY DescentKeepsConsent, FlowInvHolds, PTL

\* Of a family that is alive, one refresh token at most can be exchanged (rotate,
\* state_store.py:99).
THEOREM OneRefreshAlive == Spec => []OneLiveRefresh
<1>1. FlowInv => OneLiveRefresh
  BY DEF FlowInv
<1> QED BY <1>1, FlowInvHolds, PTL

\* A refresh token presented twice leaves no family alive, whoever presents it and
\* whatever happened in between (rotate, state_store.py:117).
THEOREM ReplayAlwaysEnds == Spec => []ReplayEndsFamily
BY PresentedEnds, FlowInvHolds, PTL

--------------------------------------------------------------------------------
(* What a revocation misses.                                                    *)

\* A step that puts nothing leaves a subject without records as it is.
LEMMA NothingPut ==
  ASSUME NEW x \in Subject, NothingHeld(x), records' = records, live' \subseteq live
  PROVE  NothingHeld(x)'
BY DEF NothingHeld

\* So does a put of a record of another kind, or of another subject.
LEMMA OtherPut ==
  ASSUME TypeOK, NEW x \in Subject, NothingHeld(x),
         NEW kind \in Kinds, NEW y \in Subject \union {None},
         NEW c \in Client \union {None}, NEW b \in Target \union {None}, NEW f \in Nat,
         Put(kind, y, c, b, f), kind \in OfSubject => y # x
  PROVE  NothingHeld(x)'
<1>1. /\ live' = live \union {Fresh} /\ Fresh \notin Issued /\ live \subseteq Issued
      /\ \A s \in Issued : records'[s] = records[s]
      /\ records'[Fresh] = [kind |-> kind, subject |-> y, client |-> c, binding |-> b,
                            from |-> f]
  <2>1. Grows /\ Fresh \notin Issued /\ live' = live \union {Fresh}
        /\ records'[Fresh] = [kind |-> kind, subject |-> y, client |-> c, binding |-> b,
                              from |-> f]
    BY PutGrows
  <2>2. \A s \in Issued : records'[s] = records[s]
    BY <2>1 DEF Grows
  <2>3. live \subseteq Issued
    BY DEF TypeOK
  <2> QED BY <2>1, <2>2, <2>3
<1>2. records'[Fresh].kind = kind /\ records'[Fresh].subject = y
  BY <1>1
<1>3. ASSUME NEW s \in live', records'[s].kind \in OfSubject PROVE records'[s].subject # x
  <2>1. CASE s = Fresh
    BY <1>2, <1>3, <2>1
  <2>2. CASE s \in live
    BY <1>1, <1>3, <2>2 DEF NothingHeld
  <2> QED BY <1>1, <1>3, <2>1, <2>2
<1> QED BY <1>3 DEF NothingHeld

\* Only a request that carries a record of the subject puts one.
LEMMA HandlerHolds ==
  ASSUME TypeOK, NEW x \in Subject, NothingHeld(x), NEW t \in Task, HandlerStep(t)
  PROVE  NothingHeld(x)' \/ t \in Carriers(x)
<1>1. /\ task[t].subject \in Subject \union {None} /\ task[t].client \in Client \union {None}
      /\ task[t].binding \in Target \union {None} /\ task[t].from \in Nat
  BY DEF TypeOK
<1>2. None \in Subject \union {None} /\ None \in Client \union {None}
      /\ None \in Target \union {None} /\ 0 \in Nat
  OBVIOUS
<1>3. /\ {"login", "code", "family", "refresh"} \subseteq Kinds /\ "refresh" \notin OfSubject
  BY DEF Kinds, OfSubject
<1>4. CASE records' = records /\ live' \subseteq live
  BY <1>4, NothingPut
<1>5. CASE task[t].subject = x
           /\ task[t].at \in {"authenticated", "coding", "granting"}
  BY <1>5 DEF Carriers
<1>6. ASSUME task[t].subject # x, LoginStores(t), ~ Full(t) PROVE NothingHeld(x)'
  <2>1. Put("login", task[t].subject, None, None, 0)
    BY <1>6 DEF LoginStores
  <2> QED BY <1>1, <1>2, <1>3, <1>6, <2>1, OtherPut
<1>7. ASSUME task[t].subject # x, ConsentStores(t), ~ Full(t) PROVE NothingHeld(x)'
  <2>1. Put("code", task[t].subject, task[t].client, task[t].binding, task[t].from)
    BY <1>7 DEF ConsentStores
  <2>2. PICK y \in Subject \union {None}, c \in Client \union {None},
             b \in Target \union {None}, f \in Nat :
               y = task[t].subject /\ c = task[t].client /\ b = task[t].binding /\ f = task[t].from
    BY <1>1
  <2>3. Put("code", y, c, b, f)
    BY <2>1, <2>2
  <2>4. "code" \in Kinds /\ task[t].subject # x
    BY <1>3, <1>7
  <2> QED BY <2>2, <2>3, <2>4, OtherPut
<1>8. ASSUME task[t].subject # x, PutFamily(t), ~ Full(t) PROVE NothingHeld(x)'
  <2>1. Put("family", task[t].subject, task[t].client, None, task[t].from)
    BY <1>8 DEF PutFamily
  <2>2. PICK y \in Subject \union {None}, c \in Client \union {None},
             b \in Target \union {None}, f \in Nat :
               y = task[t].subject /\ c = task[t].client /\ b = None /\ f = task[t].from
    BY <1>1, <1>2
  <2>3. Put("family", y, c, b, f)
    BY <2>1, <2>2
  <2>4. "family" \in Kinds /\ task[t].subject # x
    BY <1>3, <1>8
  <2> QED BY <2>2, <2>3, <2>4, OtherPut
<1>9. ASSUME PutRefresh(t), ~ Full(t) PROVE NothingHeld(x)'
  <2>1. Put("refresh", task[t].subject, task[t].client, task[t].binding, task[t].from)
    BY <1>9 DEF PutRefresh
  <2>2. PICK y \in Subject \union {None}, c \in Client \union {None},
             b \in Target \union {None}, f \in Nat :
               y = task[t].subject /\ c = task[t].client /\ b = task[t].binding /\ f = task[t].from
    BY <1>1
  <2>3. Put("refresh", y, c, b, f)
    BY <2>1, <2>2
  <2>4. "refresh" \in Kinds /\ "refresh" \notin OfSubject
    BY <1>3
  <2> QED BY <2>2, <2>3, <2>4, OtherPut
<1>10. CASE Full(t)
  BY <1>4, <1>10 DEF Full
<1>11. CASE \/ \E old \in 0..Len(records) : LoginReplaces(t, old)
            \/ ConsentConsumes(t) \/ ConsentApproved(t)
            \/ CheckBinding(t) \/ Validate(t) \/ EndFamily(t) \/ Fails(t)
  BY <1>4, <1>11 DEF LoginReplaces, ConsentConsumes, ConsentApproved, CheckBinding, Validate,
                     EndFamily, Fails, Delete
<1>12. CASE LoginStores(t)
  BY <1>5, <1>6, <1>10, <1>12 DEF LoginStores
<1>13. CASE ConsentStores(t)
  BY <1>5, <1>7, <1>10, <1>13 DEF ConsentStores
<1>14. CASE PutFamily(t)
  BY <1>5, <1>8, <1>10, <1>14 DEF PutFamily
<1>15. CASE PutRefresh(t)
  BY <1>9, <1>10, <1>15
<1> QED BY <1>11, <1>12, <1>13, <1>14, <1>15 DEF HandlerStep

\* What a request brings in with its first step is no record of the subject.
LEMMA ArrivalHolds ==
  ASSUME TypeOK, NEW x \in Subject, NothingHeld(x), NEW t \in Task, Arrival(t)
  PROVE  NothingHeld(x)'
<1>1. CASE \/ \E y \in Subject : Login(t, y)
           \/ \E k, l \in live : Consent(t, k, l)
           \/ \E c \in Client, f \in Issued : Revoke(t, c, f)
  BY <1>1, NothingPut DEF Login, Consent, Revoke
<1>2. ASSUME NEW c \in Client, NEW k \in live, ConsumeCode(t, c, k) \/ RotateReused(t, c, k)
      PROVE  NothingHeld(x)'
  BY <1>2, NothingPut DEF ConsumeCode, RotateReused, Delete
<1>3. ASSUME NEW c \in Client, NEW k \in live, Rotate(t, c, k) PROVE NothingHeld(x)'
  <2>1. k \in Issued
    BY DEF TypeOK
  <2>2. /\ records[k].subject \in Subject \union {None}
        /\ records[k].binding \in Target \union {None} /\ records[k].from \in Nat
    BY <2>1, RecordTyped
  <2>3. /\ "refresh" \in Kinds /\ "refresh" \notin OfSubject /\ c \in Client \union {None}
    BY DEF Kinds, OfSubject
  <2>4. Put("refresh", records[k].subject, c, records[k].binding, records[k].from)
    BY <1>3 DEF Rotate
  <2> QED BY <2>2, <2>3, <2>4, OtherPut
<1> QED BY <1>1, <1>2, <1>3 DEF Arrival

\* While nothing of a subject is in the store, only a carrier puts something there.
LEMMA OnlyCarriersStore ==
  ASSUME TypeOK, NEW x \in Subject, NothingHeld(x), [Next]_vars
  PROVE  NothingHeld(x)' \/ \E t \in Carriers(x) : HandlerStep(t)
<1>1. ASSUME NEW c \in Client, Register(c) \/ Authorize(c) PROVE NothingHeld(x)'
  <2>1. /\ {"client", "transaction"} \subseteq Kinds
        /\ "client" \notin OfSubject /\ "transaction" \notin OfSubject
        /\ None \in Subject \union {None} /\ None \in Target \union {None} /\ 0 \in Nat
        /\ c \in Client \union {None}
    BY DEF Kinds, OfSubject
  <2>2. CASE Register(c)
    BY <2>1, <2>2, OtherPut DEF Register
  <2>3. CASE Authorize(c)
    BY <2>1, <2>3, OtherPut DEF Authorize
  <2> QED BY <1>1, <2>2, <2>3
<1>2. ASSUME NEW s \in live, Expire(s) PROVE NothingHeld(x)'
  BY <1>2, NothingPut DEF Expire
<1>3. ASSUME NEW y \in Subject, RevokeSubject(y) \/ Retarget(y) PROVE NothingHeld(x)'
  BY <1>3, NothingPut DEF RevokeSubject, Retarget
<1>4. CASE UNCHANGED vars
  BY <1>4, NothingPut DEF vars
<1>5. ASSUME NEW t \in Task, HandlerStep(t)
      PROVE  NothingHeld(x)' \/ \E u \in Carriers(x) : HandlerStep(u)
  BY <1>5, HandlerHolds
<1>6. ASSUME NEW t \in Task, Arrival(t) PROVE NothingHeld(x)'
  BY <1>6, ArrivalHolds
<1> QED BY <1>1, <1>2, <1>3, <1>4, <1>5, <1>6 DEF Next

\* A request under way keeps its subject, and carries on only what it carried.
LEMMA HandlerCarries ==
  ASSUME TypeOK, NEW x \in Subject, NEW t \in Task, t \in Carriers(x)',
         NEW u \in Task, HandlerStep(u)
  PROVE  t \in Carriers(x)
<1>1. task \in [Task -> TaskState] /\ Idle.at = "idle"
  BY IdleTyped DEF TypeOK, TaskState
<1>2. /\ task'[t].at \in {"authenticated", "consenting", "approving", "coding", "granting"}
      /\ task'[t].subject = x
  BY DEF Carriers
<1>3. CASE task'[t] = task[t]
  BY <1>2, <1>3 DEF Carriers
<1>4. ASSUME Ends(u) PROVE task'[t] = task[t]
  BY <1>1, <1>2, <1>4 DEF Ends
<1>5. ASSUME NEW place \in {"replacing", "validating", "ending"}, Goes(u, place)
      PROVE  task'[t] = task[t]
  BY <1>1, <1>2, <1>5 DEF Goes, TaskState
<1>6. ASSUME NEW place \in {"idle", "storing", "checking"}, NEW f, Proceeds(u, place, f)
      PROVE  task'[t] = task[t]
  BY <1>1, <1>2, <1>6 DEF Proceeds, TaskState
<1>7. \A c : Answer(c) \in {"idle", "storing", "checking"}
  BY DEF Answer
<1>8. CASE LoginStores(u) \/ \E old \in 0..Len(records) : LoginReplaces(u, old)
  BY <1>3, <1>4, <1>5, <1>8 DEF LoginStores, LoginReplaces, Full
<1>9. CASE ConsentConsumes(u)
  <2>1. CASE Ends(u)
    BY <1>3, <1>4, <2>1
  <2>2. CASE Goes(u, "approving") /\ task[u].at = "consenting"
    BY <1>1, <1>2, <2>2 DEF Goes, TaskState, Carriers
  <2> QED BY <1>9, <2>1, <2>2 DEF ConsentConsumes
<1>10. CASE ConsentApproved(u)
  <2>1. task[u].at = "approving"
    BY <1>10 DEF ConsentApproved
  <2>2. t # u => task'[t] = task[t]
    BY <1>1, <1>10 DEF ConsentApproved
  <2>3. t = u => task'[t].subject = task[t].subject
    BY <1>1, <1>10 DEF ConsentApproved
  <2> QED BY <1>2, <1>3, <2>1, <2>2, <2>3 DEF Carriers
<1>11. CASE ConsentStores(u)
  BY <1>3, <1>4, <1>11 DEF ConsentStores, Full
<1>12. CASE PutFamily(u)
  BY <1>3, <1>4, <1>6, <1>7, <1>12 DEF PutFamily, Full
<1>13. CASE PutRefresh(u)
  BY <1>3, <1>4, <1>6, <1>7, <1>13 DEF PutRefresh, Full
<1>14. CASE CheckBinding(u) \/ Validate(u) \/ EndFamily(u) \/ Fails(u)
  BY <1>3, <1>4, <1>5, <1>14 DEF CheckBinding, Validate, EndFamily, Fails
<1> QED BY <1>8, <1>9, <1>10, <1>11, <1>12, <1>13, <1>14 DEF HandlerStep

\* While nothing of a subject is in the store, a new request can only carry a sign-in.
LEMMA ArrivalCarries ==
  ASSUME TypeOK, NEW x \in Subject, NothingHeld(x), NEW t \in Task, t \in Carriers(x)',
         NEW u \in Task, Arrival(u)
  PROVE  t \in Carriers(x) \/ Login(t, x)
<1>1. task \in [Task -> TaskState]
  BY DEF TypeOK, TaskState
<1>2. /\ task'[t].at \in {"authenticated", "consenting", "approving", "coding", "granting"}
      /\ task'[t].subject = x
  BY DEF Carriers
<1>3. CASE task'[t] = task[t]
  BY <1>2, <1>3 DEF Carriers
<1>4. ASSUME NEW y \in Subject, Login(u, y) PROVE task'[t] = task[t] \/ Login(t, x)
  <2>1. t # u => task'[t] = task[t]
    BY <1>1, <1>4 DEF Login, TaskState
  <2>2. t = u => task'[t].subject = y
    BY <1>1, <1>4 DEF Login, TaskState
  <2> QED BY <1>2, <1>4, <2>1, <2>2
<1>5. ASSUME NEW k \in live, NEW l \in live, Consent(u, k, l) PROVE task'[t] = task[t]
  <2>1. records[l].subject # x
    BY <1>5 DEF Consent, Held, NothingHeld, OfSubject
  <2>2. t # u => task'[t] = task[t]
    BY <1>1, <1>5 DEF Consent
  <2>3. t = u => task'[t].subject = records[l].subject
    BY <1>1, <1>5 DEF Consent
  <2> QED BY <1>2, <2>1, <2>2, <2>3
<1>6. ASSUME NEW c \in Client, NEW k \in live, ConsumeCode(u, c, k) PROVE task'[t] = task[t]
  <2>1. records[k].subject # x
    BY <1>6 DEF ConsumeCode, Held, NothingHeld, OfSubject
  <2>2. t # u => task'[t] = task[t]
    BY <1>1, <1>6 DEF ConsumeCode
  <2>3. t = u => task'[t] = task[t] \/ task'[t].subject = records[k].subject
    BY <1>1, <1>6 DEF ConsumeCode
  <2> QED BY <1>2, <2>1, <2>2, <2>3
<1>7. ASSUME NEW c \in Client, NEW k \in live, RotateReused(u, c, k) \/ Rotate(u, c, k)
      PROVE  task'[t] = task[t]
  BY <1>1, <1>2, <1>7, IdleTyped DEF RotateReused, Rotate
<1>8. ASSUME NEW c \in Client, NEW f \in Issued, Revoke(u, c, f) PROVE task'[t] = task[t]
  BY <1>1, <1>2, <1>8 DEF Revoke
<1> QED BY <1>3, <1>4, <1>5, <1>6, <1>7, <1>8 DEF Arrival

\* While nothing of a subject is in the store, only a sign-in makes a new carrier.
LEMMA OnlySignInCarries ==
  ASSUME TypeOK, NEW x \in Subject, NothingHeld(x), [Next]_vars,
         NEW t \in Task, t \in Carriers(x)'
  PROVE  t \in Carriers(x) \/ Login(t, x)
<1>1. ASSUME task' = task PROVE t \in Carriers(x)
  BY <1>1 DEF Carriers
<1>2. CASE \E c \in Client : Register(c) \/ Authorize(c)
  BY <1>1, <1>2 DEF Register, Authorize
<1>3. CASE \E s \in live : Expire(s)
  BY <1>1, <1>3 DEF Expire
<1>4. CASE \E y \in Subject : RevokeSubject(y) \/ Retarget(y)
  BY <1>1, <1>4 DEF RevokeSubject, Retarget
<1>5. CASE UNCHANGED vars
  BY <1>1, <1>5 DEF vars
<1>6. CASE \E u \in Task : HandlerStep(u)
  BY <1>6, HandlerCarries
<1>7. CASE \E u \in Task : Arrival(u)
  BY <1>7, ArrivalCarries
<1> QED BY <1>2, <1>3, <1>4, <1>5, <1>6, <1>7 DEF Next

\* A revocation empties the store of its subject and leaves the requests alone.
LEMMA RevocationEmpties ==
  ASSUME TypeOK, NEW x \in Subject, RevokeSubject(x)
  PROVE  NothingHeld(x)' /\ Carriers(x)' = Carriers(x)
<1>1. /\ records' = records /\ task' = task /\ live \subseteq Issued
      /\ live' = live \ {s \in Issued : records[s].subject = x /\ records[s].kind \in OfSubject}
  BY DEF RevokeSubject, TypeOK
<1>2. Carriers(x)' = Carriers(x)
  BY <1>1 DEF Carriers
<1>3. NothingHeld(x)'
  BY <1>1 DEF NothingHeld
<1> QED BY <1>2, <1>3

\* What a revocation misses is what the requests under way carry, and nothing else: no
\* other request comes by it later, and once they are over only a new sign-in gives access
\* on the subject's behalf (revoke_subject, state_store.py:173;
\* authorization_server.py:411, :609).
THEOREM RevocationMissesCarriersOnly == Spec => RevocationMissesOnlyCarriers
<1>1. ASSUME TypeOK, [Next]_vars, NEW x \in Subject
      PROVE  /\ RevokeSubject(x) => NothingHeld(x)' /\ Carriers(x)' = Carriers(x)
             /\ NothingHeld(x) =>
                  /\ NothingHeld(x)' \/ \E t \in Carriers(x) : HandlerStep(t)
                  /\ \A t \in Carriers(x)' \ Carriers(x) : Login(t, x)
  <2>1. RevokeSubject(x) => NothingHeld(x)' /\ Carriers(x)' = Carriers(x)
    BY <1>1, RevocationEmpties
  <2>2. NothingHeld(x) => NothingHeld(x)' \/ \E t \in Carriers(x) : HandlerStep(t)
    BY <1>1, OnlyCarriersStore
  <2>3. ASSUME NothingHeld(x), NEW t \in Carriers(x)' \ Carriers(x) PROVE Login(t, x)
    <3>1. t \in Task
      BY <2>3 DEF Carriers
    <3> QED BY <1>1, <2>3, <3>1, OnlySignInCarries
  <2> QED BY <2>1, <2>2, <2>3
<1>2. TypeOK /\ [Next]_vars =>
        \A x \in Subject :
          /\ RevokeSubject(x) => NothingHeld(x)' /\ Carriers(x)' = Carriers(x)
          /\ NothingHeld(x) =>
               /\ NothingHeld(x)' \/ \E t \in Carriers(x) : HandlerStep(t)
               /\ \A t \in Carriers(x)' \ Carriers(x) : Login(t, x)
  BY <1>1
<1> QED BY <1>2, TypeCorrect, PTL DEF Spec, RevocationMissesOnlyCarriers

--------------------------------------------------------------------------------
(* The server implements families with one token at a time.                     *)

\* A family's token is a refresh token that can be exchanged.
LEMMA TokensAreUsable ==
  /\ \A p : p \in TokenOf <=> \E s \in Usable : p = <<records[s].from, s>>
  /\ \A s : <<records[s].from, s>> \in TokenOf <=> s \in Usable
BY DEF TokenOf

\* What a token and its family are.
LEMMA UsableIs ==
  ASSUME FlowInv
  PROVE  /\ live \subseteq Issued /\ used \subseteq Issued
         /\ \A s : s \in Usable <=> /\ s \in live /\ records[s].kind = "refresh"
                                    /\ s \notin used /\ records[s].from \in live
         /\ \A s \in Issued : records[s].kind = "refresh" =>
              records[s].from \in Issued /\ records[records[s].from].kind = "family"
         /\ \A f : f \in Held("family") <=> f \in live /\ records[f].kind = "family"
         /\ \A s : s \in SeenOf <=> s \in Issued /\ records[s].kind \in {"family", "refresh"}
<1>1. live \subseteq Issued /\ used \subseteq Issued /\ \A s \in Issued : Descends(s)
  BY DEF FlowInv, TypeOK
<1>2. \A s \in Issued : records[s].kind = "refresh" =>
        records[s].from \in Issued /\ records[records[s].from].kind = "family"
  BY <1>1 DEF Descends
<1> QED BY <1>1, <1>2 DEF Usable, Held, SeenOf

\* The same after a put.
LEMMA PutSeen ==
  ASSUME FlowInv, FlowInv', NEW kind, NEW x, NEW c, NEW b, NEW f, Put(kind, x, c, b, f)
  PROVE  /\ Fresh \in 1..MaxIssued /\ Fresh \notin Issued
         /\ Issued' = Issued \union {Fresh} /\ live' = live \union {Fresh}
         /\ \A s \in Issued : records'[s] = records[s]
         /\ records'[Fresh].kind = kind /\ records'[Fresh].from = f
<1> DEFINE r == [kind |-> kind, subject |-> x, client |-> c, binding |-> b, from |-> f]
<1>1. /\ records \in Seq(Record) /\ Len(records) < MaxIssued /\ live' = live \union {Fresh}
      /\ records' \in Seq(Record) /\ records' = Append(records, r)
  BY DEF Put, FlowInv, TypeOK
<1>2. r.kind = kind /\ r.from = f
  OBVIOUS
<1> HIDE DEF r
<1>3. PICK S : S = Record \union {r}
  OBVIOUS
<1>4. records \in Seq(S) /\ r \in S
  BY <1>1, <1>3
<1>5. /\ Len(records) \in Nat /\ Len(records') = Len(records) + 1
      /\ \A s \in 1..Len(records) : records'[s] = records[s]
      /\ records'[Len(records) + 1] = r
  BY <1>1, <1>4
<1>6. Fresh \in 1..MaxIssued
  BY <1>1, <1>5, AuthorizationServerAssumption DEF Fresh
<1>7. /\ Fresh \notin Issued /\ Issued' = Issued \union {Fresh}
      /\ \A s \in Issued : records'[s] = records[s]
      /\ records'[Fresh] = r
  BY <1>5 DEF Fresh, Issued
<1> QED BY <1>1, <1>2, <1>6, <1>7

\* A put marks no token as used and adds at most its own record to what can be exchanged.
LEMMA PutUsable ==
  ASSUME FlowInv, FlowInv', NEW kind, NEW x, NEW c, NEW b, NEW f, Put(kind, x, c, b, f),
         used \subseteq used', used' \subseteq Issued
  PROVE  /\ \A s : s \in Usable' <=>
              \/ s \in Usable \ used'
              \/ s = Fresh /\ kind = "refresh" /\ f \in live
         /\ \A s \in Issued : records'[s] = records[s]
         /\ \A g : g \in Held("family")' <=>
              g \in Held("family") \/ (g = Fresh /\ kind = "family")
         /\ \A s : s \in SeenOf' <=>
              s \in SeenOf \/ (s = Fresh /\ kind \in {"family", "refresh"})
         /\ records'[Fresh].from = f /\ Fresh \in 1..MaxIssued /\ Fresh \notin Issued
<1>1. /\ Fresh \in 1..MaxIssued /\ Fresh \notin Issued
      /\ Issued' = Issued \union {Fresh} /\ live' = live \union {Fresh}
      /\ \A s \in Issued : records'[s] = records[s]
      /\ records'[Fresh].kind = kind /\ records'[Fresh].from = f
  BY PutSeen
<1>2. /\ live \subseteq Issued /\ used \subseteq Issued
      /\ \A s : s \in Usable <=> /\ s \in live /\ records[s].kind = "refresh"
                                 /\ s \notin used /\ records[s].from \in live
      /\ \A s \in Issued : records[s].kind = "refresh" => records[s].from \in Issued
      /\ \A g : g \in Held("family") <=> g \in live /\ records[g].kind = "family"
      /\ \A s : s \in SeenOf <=> s \in Issued /\ records[s].kind \in {"family", "refresh"}
  BY UsableIs
<1>3. /\ \A s : s \in Usable' <=> /\ s \in live' /\ records'[s].kind = "refresh"
                                  /\ s \notin used' /\ records'[s].from \in live'
      /\ \A s \in Issued' : records'[s].kind = "refresh" =>
           records'[records'[s].from].kind = "family"
  <2>1. (\A s \in Issued : Descends(s))'
    BY DEF FlowInv
  <2> QED BY <2>1 DEF Usable, Held, Descends
<1>4. \A g : g \in Held("family")' <=> g \in live' /\ records'[g].kind = "family"
  BY DEF Held
<1>5. \A s : s \in SeenOf' <=> s \in Issued' /\ records'[s].kind \in {"family", "refresh"}
  BY DEF SeenOf
<1>6. kind = "refresh" => f # Fresh
  BY <1>1, <1>3
<1>7. ASSUME NEW s
      PROVE  s \in Usable' <=> \/ s \in Usable \ used'
                               \/ s = Fresh /\ kind = "refresh" /\ f \in live
  <2>1. CASE s \in Issued
    <3>1. s # Fresh /\ records'[s] = records[s] /\ (s \in live' <=> s \in live)
      BY <1>1, <2>1
    <3>2. records[s].kind = "refresh" => (records[s].from \in live' <=> records[s].from \in live)
      BY <1>1, <1>2, <2>1
    <3> QED BY <1>2, <1>3, <3>1, <3>2
  <2>2. CASE s = Fresh
    <3>1. s \notin Usable /\ s \in live' /\ s \notin used'
      BY <1>1, <1>2, <2>2
    <3> QED BY <1>1, <1>3, <1>6, <2>2, <3>1
  <2>3. CASE s \notin Issued /\ s # Fresh
    BY <1>1, <1>2, <1>3, <2>3
  <2> QED BY <2>1, <2>2, <2>3
<1>8. \A g : g \in Held("family")' <=> g \in Held("family") \/ (g = Fresh /\ kind = "family")
  BY <1>1, <1>2, <1>4
<1>9. \A s : s \in SeenOf' <=> s \in SeenOf \/ (s = Fresh /\ kind \in {"family", "refresh"})
  BY <1>1, <1>2, <1>5
<1> QED BY <1>1, <1>7, <1>8, <1>9

\* What can be exchanged after a step, as pairs.
LEMMA TokensNext ==
  \A p : p \in TokenOf' <=> \E s \in Usable' : p = <<records'[s].from, s>>
BY DEF TokenOf

\* A put of another kind is not to be seen.
LEMMA OtherPutMaps ==
  ASSUME FlowInv, FlowInv', NEW kind, NEW x, NEW c, NEW b, NEW f, Put(kind, x, c, b, f),
         kind \notin {"family", "refresh"}, used' = used
  PROVE  UNCHANGED Families!families
<1>1. used \subseteq used' /\ used' \subseteq Issued
  BY UsableIs
<1>2. /\ \A s : s \in Usable' <=> s \in Usable \ used'
      /\ \A s \in Issued : records'[s] = records[s]
      /\ \A g : g \in Held("family")' <=> g \in Held("family")
      /\ \A s : s \in SeenOf' <=> s \in SeenOf
  BY <1>1, PutUsable
<1>3. \A s : s \in Usable' <=> s \in Usable
  BY <1>2 DEF Usable
<1>4. \A s \in Usable : records'[s] = records[s]
  BY <1>2, UsableIs
<1>5. \A p : p \in TokenOf' <=> p \in TokenOf
  BY <1>3, <1>4, TokensNext, TokensAreUsable
<1>6. TokenOf' = TokenOf /\ Held("family")' = Held("family") /\ SeenOf' = SeenOf
  BY <1>2, <1>5
<1> QED BY <1>6 DEF Families!families

\* A family that is put begins.
LEMMA FamilyPutMaps ==
  ASSUME FlowInv, FlowInv', NEW x, NEW c, NEW b, NEW f, Put("family", x, c, b, f), used' = used
  PROVE  Families!Next
<1>1. used \subseteq used' /\ used' \subseteq Issued
  BY UsableIs
<1>2. /\ \A s : s \in Usable' <=> s \in Usable \ used'
      /\ \A s \in Issued : records'[s] = records[s]
      /\ \A g : g \in Held("family")' <=> g \in Held("family") \/ g = Fresh
      /\ \A s : s \in SeenOf' <=> s \in SeenOf \/ s = Fresh
      /\ Fresh \in 1..MaxIssued /\ Fresh \notin Issued
  BY <1>1, PutUsable
<1>3. \A s : s \in Usable' <=> s \in Usable
  BY <1>2 DEF Usable
<1>4. \A s \in Usable : records'[s] = records[s]
  BY <1>2, UsableIs
<1>5. \A p : p \in TokenOf' <=> p \in TokenOf
  BY <1>3, <1>4, TokensNext, TokensAreUsable
<1>6. TokenOf' = TokenOf /\ Held("family")' = Held("family") \union {Fresh}
      /\ SeenOf' = SeenOf \union {Fresh} /\ Fresh \notin SeenOf
  BY <1>2, <1>5 DEF SeenOf
<1> QED BY <1>2, <1>6 DEF Families!Begin, Families!Next

\* A refresh token that is put is the first of a family that is alive, or of no use.
LEMMA RefreshPutMaps ==
  ASSUME FlowInv, FlowInv', NEW x, NEW c, NEW b, NEW f, Put("refresh", x, c, b, f),
         used' = used, \A s \in Issued : records[s].from = f => records[s].kind # "refresh",
         f \in Issued, records[f].kind = "family"
  PROVE  Families!Next
<1>1. used \subseteq used' /\ used' \subseteq Issued
  BY UsableIs
<1>2. /\ \A s : s \in Usable' <=> s \in Usable \ used' \/ (s = Fresh /\ f \in live)
      /\ \A s \in Issued : records'[s] = records[s]
      /\ \A g : g \in Held("family")' <=> g \in Held("family")
      /\ \A s : s \in SeenOf' <=> s \in SeenOf \/ s = Fresh
      /\ Fresh \in 1..MaxIssued /\ Fresh \notin Issued /\ records'[Fresh].from = f
  BY <1>1, PutUsable
<1>3. \A s \in Usable : records'[s] = records[s] /\ s \in Issued /\ s \notin used'
                        /\ records[s].kind = "refresh"
  BY <1>2, UsableIs
<1>4. /\ Held("family")' = Held("family") /\ SeenOf' = SeenOf \union {Fresh}
      /\ Fresh \notin SeenOf
  BY <1>2 DEF SeenOf
<1>5. CASE f \in live
  <2>1. \A s : s \in Usable' <=> s \in Usable \/ s = Fresh
    BY <1>2, <1>3, <1>5
  <2>2. \A p : p \in TokenOf' <=> p \in TokenOf \/ p = <<f, Fresh>>
    BY <1>2, <1>3, <2>1, TokensNext, TokensAreUsable
  <2>3. TokenOf' = TokenOf \union {<<f, Fresh>>}
    BY <2>2
  <2>4. f \in Held("family")
    BY <1>5, UsableIs
  <2>5. \A p \in TokenOf : p[1] # f
    BY <1>3, TokensAreUsable
  <2> QED BY <1>2, <1>4, <2>3, <2>4, <2>5 DEF Families!Issue, Families!Next
<1>6. CASE f \notin live
  <2>1. \A s : s \in Usable' <=> s \in Usable
    BY <1>2, <1>3, <1>6
  <2>2. \A p : p \in TokenOf' <=> p \in TokenOf
    BY <1>3, <2>1, TokensNext, TokensAreUsable
  <2>3. TokenOf' = TokenOf
    BY <2>2
  <2> QED BY <1>2, <1>4, <2>3 DEF Families!Waste, Families!Next
<1> QED BY <1>5, <1>6

\* A rotation exchanges the family's token for the next.
LEMMA RotateMaps ==
  ASSUME FlowInv, FlowInv', NEW t \in Task, NEW c \in Client, NEW k \in live, Rotate(t, c, k)
  PROVE  Families!Next
<1> DEFINE f == records[k].from
<1>1. /\ records[k].kind = "refresh" /\ k \notin used /\ f \in live
      /\ Put("refresh", records[k].subject, c, records[k].binding, f)
      /\ used' = used \union {k}
  BY DEF Rotate, Refreshes, Held
<1>2. k \in Usable /\ k \in Issued /\ used \subseteq used' /\ used' \subseteq Issued
  BY <1>1, UsableIs
<1>3. /\ \A s : s \in Usable' <=> s \in Usable \ used' \/ (s = Fresh /\ f \in live)
      /\ \A s \in Issued : records'[s] = records[s]
      /\ \A g : g \in Held("family")' <=> g \in Held("family")
      /\ \A s : s \in SeenOf' <=> s \in SeenOf \/ s = Fresh
      /\ Fresh \in 1..MaxIssued /\ Fresh \notin Issued /\ records'[Fresh].from = f
  <2> HIDE DEF f
  <2> QED BY <1>1, <1>2, PutUsable
<1>4. /\ Held("family")' = Held("family") /\ SeenOf' = SeenOf \union {Fresh}
      /\ Fresh \notin SeenOf
  BY <1>3 DEF SeenOf
<1>5. f \in Held("family") /\ k \in SeenOf /\ <<f, k>> \in TokenOf
  BY <1>1, <1>2, UsableIs, TokensAreUsable
<1>6. \A s \in Usable : records'[s] = records[s] /\ s \in Issued /\ s \notin used
  BY <1>3, UsableIs
<1>7. \A s : s \in Usable' <=> (s \in Usable /\ s # k) \/ s = Fresh
  BY <1>1, <1>3, <1>6
<1>8. \A p : p \in TokenOf' <=> (p \in TokenOf /\ p # <<f, k>>) \/ p = <<f, Fresh>>
  <2>1. \A s \in Usable : <<records[s].from, s>> = <<f, k>> <=> s = k
    OBVIOUS
  <2>2. ASSUME NEW p \in TokenOf' PROVE (p \in TokenOf /\ p # <<f, k>>) \/ p = <<f, Fresh>>
    <3>1. PICK s \in Usable' : p = <<records'[s].from, s>>
      BY <2>2, TokensNext
    <3>2. CASE s = Fresh
      BY <1>3, <3>1, <3>2
    <3>3. CASE s # Fresh
      <4>1. s \in Usable /\ s # k /\ records'[s] = records[s]
        BY <1>6, <1>7, <3>1, <3>3
      <4> QED BY <3>1, <4>1, TokensAreUsable
    <3> QED BY <3>2, <3>3
  <2>3. ASSUME NEW p \in TokenOf, p # <<f, k>> PROVE p \in TokenOf'
    <3>1. PICK s \in Usable : p = <<records[s].from, s>>
      BY TokensAreUsable
    <3>2. s # k
      BY <2>3, <3>1
    <3>3. s \in Usable' /\ records'[s] = records[s]
      BY <1>6, <1>7, <3>2
    <3> QED BY <3>1, <3>3, TokensNext
  <2>4. <<f, Fresh>> \in TokenOf'
    <3>1. Fresh \in Usable' /\ records'[Fresh].from = f
      BY <1>3, <1>7
    <3> QED BY <3>1, TokensNext
  <2> QED BY <2>2, <2>3, <2>4
<1>9. TokenOf' = (TokenOf \ {<<f, k>>}) \union {<<f, Fresh>>}
  BY <1>8
<1> HIDE DEF f
<1> QED BY <1>3, <1>4, <1>5, <1>9 DEF Families!Exchange, Families!Next

\* A step without a put ends the families it takes out of the table, if no token goes
\* before its family does.
LEMMA NoPutMaps ==
  ASSUME FlowInv, records' = records, live' \subseteq live, used' = used,
         \A s \in live \ live' : records[s].kind = "refresh" => records[s].from \notin live
  PROVE  Families!Next
<1> DEFINE over == Held("family") \ live'
<1>1. /\ \A s : s \in Usable <=> /\ s \in live /\ records[s].kind = "refresh"
                                 /\ s \notin used /\ records[s].from \in live
      /\ \A s \in Issued : records[s].kind = "refresh" => records[records[s].from].kind = "family"
      /\ \A f : f \in Held("family") <=> f \in live /\ records[f].kind = "family"
      /\ live \subseteq Issued
  BY UsableIs
<1>2. \A s : s \in Usable' <=> /\ s \in live' /\ records[s].kind = "refresh"
                               /\ s \notin used /\ records[s].from \in live'
  BY DEF Usable, Held
<1>3. \A s : s \in Usable' <=> s \in Usable /\ records[s].from \notin over
  BY <1>1, <1>2
<1>4. Held("family")' = Held("family") \ over
  BY DEF Held
<1>5. SeenOf' = SeenOf
  BY DEF SeenOf, Issued
<1>6. over \in SUBSET Held("family")
  OBVIOUS
<1> HIDE DEF over
<1>7. \A p : p \in TokenOf' <=> p \in TokenOf /\ p[1] \notin over
  <2>1. ASSUME NEW p \in TokenOf' PROVE p \in TokenOf /\ p[1] \notin over
    <3>1. PICK s \in Usable' : p = <<records[s].from, s>>
      BY <2>1, TokensNext
    <3>2. s \in Usable /\ p[1] = records[s].from /\ records[s].from \notin over
      BY <1>3, <3>1
    <3> QED BY <3>1, <3>2, TokensAreUsable
  <2>2. ASSUME NEW p \in TokenOf, p[1] \notin over PROVE p \in TokenOf'
    <3>1. PICK s \in Usable : p = <<records[s].from, s>>
      BY TokensAreUsable
    <3>2. p[1] = records[s].from
      BY <3>1
    <3>3. s \in Usable'
      BY <1>3, <2>2, <3>1, <3>2
    <3> QED BY <3>1, <3>3, TokensNext
  <2> QED BY <2>1, <2>2
<1>8. TokenOf' = {p \in TokenOf : p[1] \notin over}
  BY <1>7
<1>9. Families!End(over)
  BY <1>4, <1>5, <1>8 DEF Families!End
<1> QED BY <1>6, <1>9 DEF Families!Next

\* Neither records nor the table nor a mark of use changes.
LEMMA NothingMaps ==
  ASSUME UNCHANGED <<records, live, used>>
  PROVE  UNCHANGED Families!families
BY DEF Families!families, Held, Usable, TokenOf, SeenOf, Issued

\* What a delete of one kind takes out of the table is of that kind.
LEMMA DeleteMaps ==
  ASSUME FlowInv, NEW kind, NEW s, Delete(kind, s), kind # "refresh", UNCHANGED <<records, used>>
  PROVE  Families!Next
<1>1. live' \subseteq live /\ \A k \in live \ live' : records[k].kind = kind
  BY DEF Delete, Held
<1>2. records' = records /\ used' = used
  OBVIOUS
<1>3. \A k \in live \ live' : records[k].kind = "refresh" => records[k].from \notin live
  BY <1>1
<1> QED BY <1>1, <1>2, <1>3, NoPutMaps

\* A step of a request being handled is one of the families', or is not to be seen.
LEMMA HandlerMaps ==
  ASSUME FlowInv, FlowInv', NEW t \in Task, HandlerStep(t)
  PROVE  Families!Next \/ UNCHANGED Families!families
<1>0. ASSUME Full(t), used' = used PROVE UNCHANGED Families!families
  BY <1>0, NothingMaps DEF Full
<1>1. CASE LoginStores(t)
  <2>1. CASE Put("login", task[t].subject, None, None, 0) /\ used' = used
    BY <2>1, OtherPutMaps
  <2> QED BY <1>0, <1>1, <2>1 DEF LoginStores
<1>2. ASSUME NEW old \in 0..Len(records), LoginReplaces(t, old)
      PROVE  Families!Next
  BY <1>2, DeleteMaps DEF LoginReplaces
<1>3. CASE ConsentConsumes(t)
  BY <1>3, DeleteMaps DEF ConsentConsumes
<1>4. CASE ConsentApproved(t) \/ CheckBinding(t) \/ Validate(t) \/ Fails(t)
  BY <1>4, NothingMaps DEF ConsentApproved, CheckBinding, Validate, Fails
<1>5. CASE ConsentStores(t)
  <2>1. CASE /\ Put("code", task[t].subject, task[t].client, task[t].binding, task[t].from)
             /\ used' = used
    BY <2>1, OtherPutMaps
  <2> QED BY <1>0, <1>5, <2>1 DEF ConsentStores
<1>6. CASE PutFamily(t)
  <2>1. CASE Put("family", task[t].subject, task[t].client, None, task[t].from) /\ used' = used
    BY <2>1, FamilyPutMaps
  <2> QED BY <1>0, <1>6, <2>1 DEF PutFamily
<1>7. CASE PutRefresh(t)
  <2>1. CASE /\ Put("refresh", task[t].subject, task[t].client, task[t].binding, task[t].from)
             /\ used' = used
    <3>1. task[t].at = "storing" /\ Fits(t) /\ Unspent(t)
      BY <1>7 DEF PutRefresh, FlowInv, Tasks
    <3>2. /\ task[t].from \in Issued /\ records[task[t].from].kind = "family"
          /\ \A s \in Issued : records[s].from = task[t].from => records[s].kind # "refresh"
      BY <3>1 DEF Fits, Unspent
    <3>3. PICK f : f = task[t].from
      OBVIOUS
    <3> QED BY <2>1, <3>2, <3>3, RefreshPutMaps
  <2> QED BY <1>0, <1>7, <2>1 DEF PutRefresh
<1>8. CASE EndFamily(t)
  BY <1>8, DeleteMaps DEF EndFamily
<1> QED BY <1>1, <1>2, <1>3, <1>4, <1>5, <1>6, <1>7, <1>8 DEF HandlerStep

\* The arrival of a request is a step of the families, or is not to be seen.
LEMMA ArrivalMaps ==
  ASSUME FlowInv, FlowInv', NEW t \in Task, Arrival(t)
  PROVE  Families!Next \/ UNCHANGED Families!families
<1>1. CASE \/ \E x \in Subject : Login(t, x)
           \/ \E k, l \in live : Consent(t, k, l)
           \/ \E c \in Client, f \in Issued : Revoke(t, c, f)
  BY <1>1, NothingMaps DEF Login, Consent, Revoke
<1>2. ASSUME NEW c \in Client, NEW k \in live, ConsumeCode(t, c, k) PROVE Families!Next
  BY <1>2, DeleteMaps DEF ConsumeCode
<1>3. ASSUME NEW c \in Client, NEW k \in live, RotateReused(t, c, k) PROVE Families!Next
  <2>1. PICK f : f = records[k].from
    OBVIOUS
  <2>2. Delete("family", f) /\ UNCHANGED <<records, used>>
    BY <1>3, <2>1 DEF RotateReused
  <2> QED BY <2>2, DeleteMaps
<1>4. ASSUME NEW c \in Client, NEW k \in live, Rotate(t, c, k) PROVE Families!Next
  BY <1>4, RotateMaps
<1>5. CASE \E c \in Client, k \in live : ConsumeCode(t, c, k)
  BY <1>2, <1>5
<1>6. CASE \E c \in Client, k \in live : RotateReused(t, c, k)
  BY <1>3, <1>6
<1>7. CASE \E c \in Client, k \in live : Rotate(t, c, k)
  BY <1>4, <1>7
<1> QED BY <1>1, <1>5, <1>6, <1>7 DEF Arrival

\* Every step of the server is one of the families', or is not to be seen.
LEMMA FlowStepMaps ==
  ASSUME FlowInv, FlowInv', [Next]_vars
  PROVE  [Families!Next]_(Families!families)
<1>1. ASSUME NEW t \in Task, HandlerStep(t) \/ Arrival(t)
      PROVE  Families!Next \/ UNCHANGED Families!families
  BY <1>1, HandlerMaps, ArrivalMaps
<1>2. ASSUME NEW c \in Client, Register(c) \/ Authorize(c)
      PROVE  UNCHANGED Families!families
  <2>1. CASE Put("client", None, c, None, 0) /\ used' = used
    BY <2>1, OtherPutMaps
  <2>2. CASE Put("transaction", None, c, None, 0) /\ used' = used
    BY <2>2, OtherPutMaps
  <2> QED BY <1>2, <2>1, <2>2 DEF Register, Authorize
<1>3. ASSUME NEW s \in live, Expire(s) PROVE Families!Next
  <2>1. /\ records' = records /\ used' = used /\ live' = live \ {s}
        /\ records[s].kind = "refresh" => records[s].from \notin live
    BY <1>3 DEF Expire
  <2>2. live' \subseteq live
        /\ \A k \in live \ live' : records[k].kind = "refresh" => records[k].from \notin live
    BY <2>1
  <2> QED BY <2>1, <2>2, NoPutMaps
<1>4. ASSUME NEW x \in Subject, RevokeSubject(x) PROVE Families!Next
  <2>1. /\ records' = records /\ used' = used /\ live' \subseteq live
        /\ \A k \in live \ live' : records[k].kind \in OfSubject
    BY <1>4 DEF RevokeSubject
  <2>2. \A k \in live \ live' : records[k].kind = "refresh" => records[k].from \notin live
    BY <2>1 DEF OfSubject
  <2> QED BY <2>1, <2>2, NoPutMaps
<1>5. ASSUME NEW x \in Subject, Retarget(x) PROVE UNCHANGED Families!families
  BY <1>5, NothingMaps DEF Retarget
<1>6. CASE UNCHANGED vars
  BY <1>6, NothingMaps DEF vars
<1> QED BY <1>1, <1>2, <1>3, <1>4, <1>5, <1>6 DEF Next

\* The server with its store and its concurrent requests implements families that are
\* continued with one token at a time and end for good (authorization_server.py:599-714).
THEOREM ServerImplementsFamilies == Spec => ImplementsFamilies
<1>1. Init => Families!Init
  <2> SUFFICES ASSUME Init PROVE Families!Init
    OBVIOUS
  <2>1. live = {} /\ Issued = {}
    BY DEF Init, Issued
  <2>2. Held("family") = {} /\ Usable = {} /\ SeenOf = {}
    BY <2>1 DEF Held, Usable, SeenOf
  <2> QED BY <2>2 DEF Families!Init, TokenOf
<1>2. FlowInv /\ FlowInv' /\ [Next]_vars => [Families!Next]_(Families!families)
  BY FlowStepMaps
<1> QED BY <1>1, <1>2, FlowInvHolds, PTL DEF Spec, ImplementsFamilies, Families!Spec
===============================================================================
