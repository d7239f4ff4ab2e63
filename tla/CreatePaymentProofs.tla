------------------------ MODULE CreatePaymentProofs ------------------------
(***************************************************************************)
(* Theorems about CreatePayment, for any requests, keys, bodies and faults.*)
(***************************************************************************)
EXTENDS CreatePayment, FiniteSetTheorems, TLAPS

\* The values the actions build have their types.
LEMMA ValueTypes ==
  /\ \A r \in Request : Accepted(r) \in Intake!Reply
  /\ \A c \in {409, 422, 500} : Refused(c) \in Intake!Reply
  /\ \A r \in Request, b \in Body : [id |-> r, request_hash |-> b] \in Stored
  BY DEF Accepted, Refused, Intake!Accepted, Intake!Refused, Intake!Reply, Stored,
         Intake!Stored

\* Answering ends a request with an answer.
LEMMA ReplyTypeOK ==
  ASSUME TypeOK, NEW r \in Request, NEW a \in Intake!Reply, Reply(r, a)
  PROVE  /\ pc' \in [Request -> Labels]
         /\ reply' \in [Request -> Intake!Reply \cup {NULL}]
         /\ \A q \in Request : reply'[q] # NULL <=> pc'[q] = "done"
  BY CreateAssumption DEF Reply, Goto, At, TypeOK, Labels

\* A replay answers with the stored payment or a conflict.
LEMMA ReplayAnswers ==
  ASSUME TypeOK, NEW r \in Request, payments[key[r]] # NULL, Replay(r)
  PROVE  \/ /\ payments[key[r]].request_hash # body[r]
            /\ Reply(r, Refused(409))
         \/ /\ payments[key[r]].request_hash = body[r]
            /\ payments[key[r]].id \in Request
            /\ Reply(r, Accepted(payments[key[r]].id))
  BY DEF TypeOK, Replay, Stored, Intake!Stored

\* A request answered from a stored payment is answered in the typed domain.
LEMMA ReplayTypeOK ==
  ASSUME TypeOK, NEW r \in Request, payments[key[r]] # NULL, Replay(r)
  PROVE  \E a \in Intake!Reply : Reply(r, a)
  BY ReplayAnswers, ValueTypes

\* The uncommitted writes of an INSERT are a payment and its event.
LEMMA WriteTypeOK ==
  ASSUME TypeOK, NEW r \in Request, Write(r)
  PROVE  payments' \in [Key -> Stored \cup {NULL}] /\ outbox' \in [Request -> Nat]
  BY ValueTypes DEF TypeOK, Write

\* Ending a transaction leaves the uncommitted writes typed.
LEMMA ReleaseTypeOK ==
  ASSUME TypeOK, NEW r \in Request, Release(r)
  PROVE  inserting' \in [Key -> Request \cup {NULL}]
  BY DEF TypeOK, Release

\* Before the first request every variable has its type.
LEMMA InitTypeOK == Init => TypeOK
  BY CreateAssumption DEF Init, TypeOK, At, Labels

\* No action of a request takes a variable out of its type.
LEMMA NextTypeOK == TypeOK /\ [Next]_vars => TypeOK'
  <1> SUFFICES ASSUME TypeOK, [Next]_vars PROVE TypeOK'
    OBVIOUS
  <1>1. ASSUME NEW r \in Request, Lookup(r) PROVE TypeOK'
    <2>1. CASE \E a \in Intake!Reply : Reply(r, a)
      BY <1>1, <2>1, ReplyTypeOK DEF Lookup, TypeOK, At, store
    <2>2. CASE Goto(r, "flush") /\ UNCHANGED reply
      BY <1>1, <2>2 DEF Lookup, TypeOK, Goto, At, Labels, store
    <2>3. QED
      BY <1>1, <2>1, <2>2, ReplayTypeOK, ValueTypes DEF Lookup
  <1>2. ASSUME NEW r \in Request, Flush(r) PROVE TypeOK'
    BY <1>2 DEF Flush, TypeOK, Goto, At, Labels, store
  <1>3. ASSUME NEW r \in Request, Commit(r) PROVE TypeOK'
    BY <1>3, WriteTypeOK, ReleaseTypeOK, ReplyTypeOK, ValueTypes
    DEF Commit, TypeOK, At
  <1>4. ASSUME NEW r \in Request, Recheck(r) PROVE TypeOK'
    <2>1. \E a \in Intake!Reply : Reply(r, a)
      BY <1>4, ReplayTypeOK, ValueTypes DEF Recheck
    <2>2. QED
      BY <1>4, <2>1, ReplyTypeOK DEF Recheck, TypeOK, At, store
  <1>5. ASSUME NEW r \in Request, Fail(r) PROVE TypeOK'
    <2>1. faults' \in 0 .. MaxFaults
      BY <1>5, CreateAssumption DEF Fail, TypeOK
    <2>2. payments' \in [Key -> Stored \cup {NULL}] /\ outbox' \in [Request -> Nat]
      BY <1>5, WriteTypeOK DEF Fail, store, TypeOK
    <2>3. QED
      BY <1>5, <2>1, <2>2, ReleaseTypeOK, ReplyTypeOK, ValueTypes DEF Fail, TypeOK, At
  <1>6. CASE UNCHANGED vars
    BY <1>6 DEF vars, store, TypeOK, At
  <1>7. QED
    BY <1>1, <1>2, <1>3, <1>4, <1>5, <1>6 DEF Next, Step

\* Type correctness: however many requests race and fail, a request has an
\* answer exactly when it is done.
THEOREM TypeCorrect == Spec => []TypeOK
  BY InitTypeOK, NextTypeOK, PTL DEF Spec

-----------------------------------------------------------------------------
(* Idempotency and the outbox.                                             *)

\* A stored payment belongs to the key of the request that created it.
StoredByOwner ==
  \A k \in Key : payments[k] # NULL =>
    key[payments[k].id] = k /\ At(payments[k].id, "done")

\* The inductive invariant: the index entry serialises the first commits of a
\* key, and what was stored or answered before stays so.
IntakeInv ==
  /\ IndexGuardsKey
  /\ StoredByOwner
  /\ EventIffPayment
  /\ AcceptedIsStored
  /\ \A r \in Request : pc[r] \in {"flush", "commit"} => key[r] \notin InvalidKey

\* A transaction that commits writes the first payment of its key.
LEMMA WriteFresh ==
  ASSUME TypeOK, IntakeInv, NEW r \in Request, At(r, "commit")
  PROVE  /\ payments[key[r]] = NULL /\ inserting[key[r]] = r
         /\ ~Found(r)
         /\ \A k \in Key : inserting[k] = r => k = key[r]
  BY CreateAssumption
  DEF TypeOK, IntakeInv, IndexGuardsKey, StoredByOwner, Found, At

\* Writing the first payment of a key, and its event, breaks nothing stored.
LEMMA WriteKeeps ==
  ASSUME TypeOK, TypeOK', IntakeInv, NEW r \in Request, At(r, "commit"),
         Write(r), Release(r), pc' = [pc EXCEPT ![r] = "done"], UNCHANGED <<key, body>>,
         NEW a, reply' = [reply EXCEPT ![r] = a], a.code = 202 => a.payment = r
  PROVE  IndexGuardsKey' /\ StoredByOwner' /\ EventIffPayment' /\ AcceptedIsStored'
  <1>1. /\ payments[key[r]] = NULL /\ inserting[key[r]] = r /\ ~Found(r)
        /\ \A k \in Key : inserting[k] = r => k = key[r]
    BY WriteFresh
  <1>2. /\ key[r] \in Key
        /\ \A k \in Key : inserting'[k] = IF k = key[r] THEN NULL ELSE inserting[k]
        /\ \A k \in Key : k # key[r] => payments'[k] = payments[k]
        /\ payments'[key[r]] = [id |-> r, request_hash |-> body[r]]
        /\ payments'[key[r]].id = r /\ payments'[key[r]] # NULL
        /\ \A q \in Request : outbox'[q] = IF q = r THEN outbox[q] + 1 ELSE outbox[q]
        /\ \A q \in Request : pc'[q] = IF q = r THEN "done" ELSE pc[q]
    BY <1>1, CreateAssumption, ValueTypes DEF Release, Write, TypeOK
  <1>3. IndexGuardsKey'
    BY <1>1, <1>2 DEF IntakeInv, IndexGuardsKey, TypeOK, At
  <1>4. StoredByOwner'
    BY <1>1, <1>2 DEF IntakeInv, StoredByOwner, TypeOK, At
  <1>5. EventIffPayment'
    <2>1. \A q \in Request : Found(q)' <=> q = r \/ Found(q)
      BY <1>1, <1>2 DEF Found
    <2>2. QED
      BY <1>1, <1>2, <2>1 DEF IntakeInv, EventIffPayment
  <1>6. AcceptedIsStored'
    <2> SUFFICES ASSUME NEW q \in Request, At(q, "done")', reply'[q].code = 202
                 PROVE  /\ Found(reply[q].payment)'
                        /\ payments'[key[q]] =
                             [id |-> reply'[q].payment, request_hash |-> body[q]]
      BY DEF AcceptedIsStored
    <2>1. CASE q = r
      BY <1>2, <2>1 DEF TypeOK, Found
    <2>2. CASE q # r
      <3>1. /\ reply'[q] = reply[q] /\ At(q, "done") /\ reply[q].code = 202
        BY <2>2, <1>2 DEF TypeOK, At
      <3>2. /\ Found(reply[q].payment)
            /\ payments[key[q]] = [id |-> reply[q].payment, request_hash |-> body[q]]
        BY <3>1 DEF IntakeInv, AcceptedIsStored
      <3>3. key[q] \in Key /\ payments[key[q]] # NULL
        BY <3>1, <3>2, CreateAssumption DEF TypeOK, Found, IntakeInv, StoredByOwner, Stored,
          Intake!Stored
      <3>4. payments'[key[q]] = payments[key[q]]
        BY <1>1, <1>2, <3>3
      <3>5. QED
        BY <1>2, <3>1, <3>2, <3>3, <3>4 DEF Found
    <2>3. QED
      BY <2>1, <2>2
  <1>7. QED
    BY <1>3, <1>4, <1>5, <1>6

\* An answer that stores nothing keeps the invariant, when an acceptance names
\* the payment stored under the request's key and created from its body.
LEMMA ReplyKeeps ==
  ASSUME TypeOK, IntakeInv, NEW r \in Request, pc[r] \in {"lookup", "duplicate"},
         NEW a, Reply(r, a), UNCHANGED <<payments, outbox, inserting, key, body>>,
         a.code = 202 => /\ Found(a.payment)
                         /\ payments[key[r]] = [id |-> a.payment, request_hash |-> body[r]]
  PROVE  IntakeInv'
  <1>1. /\ \A q \in Request : pc'[q] = IF q = r THEN "done" ELSE pc[q]
        /\ \A q \in Request : reply'[q] = IF q = r THEN a ELSE reply[q]
    BY DEF Reply, Goto, TypeOK
  <1>2. \A id : Found(id)' <=> Found(id)
    BY DEF Found
  <1>3. IndexGuardsKey'
    BY <1>1 DEF IntakeInv, IndexGuardsKey, TypeOK, At
  <1>4. StoredByOwner'
    BY <1>1, CreateAssumption DEF IntakeInv, StoredByOwner, TypeOK, At, Stored, Intake!Stored
  <1>5. EventIffPayment'
    BY <1>2 DEF IntakeInv, EventIffPayment
  <1>6. AcceptedIsStored'
    BY <1>1, <1>2 DEF IntakeInv, AcceptedIsStored, At
  <1>7. QED
    BY <1>1, <1>3, <1>4, <1>5, <1>6 DEF IntakeInv

\* An answer from the stored payment keeps the invariant.
LEMMA ReplayKeeps ==
  ASSUME TypeOK, IntakeInv, NEW r \in Request, pc[r] \in {"lookup", "duplicate"},
         payments[key[r]] # NULL, Replay(r),
         UNCHANGED <<payments, outbox, inserting, key, body>>
  PROVE  IntakeInv'
  <1>1. key[r] \in Key /\ payments[key[r]] \in Stored
    BY DEF TypeOK
  <1>2. CASE /\ payments[key[r]].request_hash = body[r]
             /\ Reply(r, Accepted(payments[key[r]].id))
    <2> DEFINE a == Accepted(payments[key[r]].id)
    <2>1. a.payment = payments[key[r]].id
      BY DEF Accepted, Intake!Accepted
    <2>2. Found(a.payment)
      BY <1>1, <2>1 DEF Found
    <2>3. payments[key[r]] = [id |-> a.payment, request_hash |-> body[r]]
      BY <1>1, <1>2, <2>1 DEF Stored, Intake!Stored
    <2>4. QED
      BY <1>2, <2>2, <2>3, ReplyKeeps
  <1>3. CASE Reply(r, Refused(409))
    <2>1. Refused(409).code # 202
      BY DEF Refused, Intake!Refused
    <2>2. QED
      BY ZenonT(60), <1>3, <2>1, ReplyKeeps
  <1>4. QED
    BY <1>2, <1>3, ReplayAnswers

\* A refusal keeps the invariant.
LEMMA RefusalKeeps ==
  ASSUME TypeOK, IntakeInv, NEW r \in Request, pc[r] \in {"lookup", "duplicate"},
         NEW c \in {409, 422, 500}, Reply(r, Refused(c)),
         UNCHANGED <<payments, outbox, inserting, key, body>>
  PROVE  IntakeInv'
  <1> DEFINE a == Refused(c)
  <1>1. a.code # 202
    BY DEF Refused, Intake!Refused
  <1>2. Reply(r, a)
    OBVIOUS
  <1> HIDE DEF a
  <1>3. a.code = 202 =>
          /\ Found(a.payment)
          /\ payments[key[r]] = [id |-> a.payment, request_hash |-> body[r]]
    BY <1>1
  <1>4. QED
    BY <1>2, <1>3, ReplyKeeps

\* Every step keeps the invariant: only a COMMIT adds rows, and the key it
\* commits was free when it was written and locked ever since.
LEMMA NextIntake == TypeOK /\ IntakeInv /\ [Next]_vars => IntakeInv'
  <1> SUFFICES ASSUME TypeOK, TypeOK', IntakeInv, [Next]_vars PROVE IntakeInv'
    BY NextTypeOK
  <1>1. ASSUME NEW r \in Request, Lookup(r) PROVE IntakeInv'
    <2>1. CASE payments[key[r]] # NULL /\ Replay(r)
      BY <1>1, <2>1, ReplayKeeps DEF Lookup, At, store
    <2>2. CASE Reply(r, Refused(422))
      BY <1>1, <2>2, RefusalKeeps DEF Lookup, At, store
    <2>3. CASE /\ payments[key[r]] = NULL /\ key[r] \notin InvalidKey
               /\ Goto(r, "flush") /\ UNCHANGED reply
      <3>1. /\ \A q \in Request : pc'[q] = IF q = r THEN "flush" ELSE pc[q]
            /\ UNCHANGED <<payments, outbox, inserting, key, body, reply>> /\ pc[r] = "lookup"
        BY <1>1, <2>3 DEF Lookup, Goto, At, store, TypeOK
      <3>2. IndexGuardsKey'
        BY <3>1 DEF IntakeInv, IndexGuardsKey, TypeOK, At
      <3>3. StoredByOwner'
        BY <3>1, CreateAssumption
        DEF IntakeInv, StoredByOwner, TypeOK, At, Stored, Intake!Stored
      <3>4. EventIffPayment' /\ AcceptedIsStored'
        BY <3>1 DEF IntakeInv, EventIffPayment, AcceptedIsStored, Found, At
      <3>5. QED
        BY <2>3, <3>1, <3>2, <3>3, <3>4 DEF IntakeInv
    <2>4. QED
      BY <1>1, <2>1, <2>2, <2>3 DEF Lookup
  <1>4. ASSUME NEW r \in Request, Recheck(r) PROVE IntakeInv'
    <2>1. CASE payments[key[r]] # NULL /\ Replay(r)
      BY <1>4, <2>1, ReplayKeeps DEF Recheck, At, store
    <2>2. CASE Reply(r, Refused(500))
      BY <1>4, <2>2, RefusalKeeps DEF Recheck, At, store
    <2>3. QED
      BY <1>4, <2>1, <2>2 DEF Recheck
  <1>5. ASSUME NEW r \in Request, Fail(r), At(r, "commit"), Write(r) PROVE IntakeInv'
    <2>1. /\ Release(r) /\ pc' = [pc EXCEPT ![r] = "done"] /\ UNCHANGED <<key, body>>
          /\ reply' = [reply EXCEPT ![r] = Refused(500)]
      BY <1>5 DEF Fail, Reply, Goto
    <2>2. Refused(500).code # 202
      BY DEF Refused, Intake!Refused
    <2>3. IndexGuardsKey' /\ StoredByOwner' /\ EventIffPayment' /\ AcceptedIsStored'
      BY ZenonT(60), <1>5, <2>1, <2>2, WriteKeeps
    <2>4. \A q \in Request : pc'[q] \in {"flush", "commit"} => pc[q] = pc'[q]
      BY <2>1 DEF TypeOK
    <2>5. QED
      BY <2>1, <2>3, <2>4 DEF IntakeInv
  <1> USE CreateAssumption
  <1> USE DEF IntakeInv, IndexGuardsKey, StoredByOwner, EventIffPayment, AcceptedIsStored,
        Found, At, Goto, TypeOK, store
  <1>2. ASSUME NEW r \in Request, Flush(r) PROVE IntakeInv'
    <2>1. CASE payments[key[r]] = NULL
      <3>1. /\ inserting' = [inserting EXCEPT ![key[r]] = r] /\ inserting[key[r]] = NULL
            /\ pc' = [pc EXCEPT ![r] = "commit"] /\ pc[r] = "flush"
            /\ UNCHANGED <<payments, outbox, key, body, reply>>
        BY <1>2, <2>1 DEF Flush
      <3>2. IndexGuardsKey'
        BY <2>1, <3>1
      <3>3. QED
        BY <3>1, <3>2
    <2>2. CASE payments[key[r]] # NULL
      <3>1. /\ inserting' = inserting
            /\ pc' = [pc EXCEPT ![r] = "duplicate"] /\ pc[r] = "flush"
            /\ UNCHANGED <<payments, outbox, key, body, reply>>
        BY <1>2, <2>2 DEF Flush
      <3>2. IndexGuardsKey'
        BY <2>2, <3>1
      <3>3. QED
        BY <3>1, <3>2
    <2>3. QED
      BY <2>1, <2>2
  <1>3. ASSUME NEW r \in Request, Commit(r) PROVE IntakeInv'
    <2>1. At(r, "commit") /\ Write(r) /\ Release(r) /\ pc' = [pc EXCEPT ![r] = "done"]
          /\ reply' = [reply EXCEPT ![r] = Accepted(r)] /\ UNCHANGED <<key, body>>
      BY <1>3 DEF Commit, Reply
    <2>2. Accepted(r).payment = r
      BY DEF Accepted, Intake!Accepted
    <2>3. IndexGuardsKey' /\ StoredByOwner' /\ EventIffPayment' /\ AcceptedIsStored'
      BY <2>1, <2>2, WriteKeeps
    <2>4. QED
      BY <2>1, <2>3
  <1>6. ASSUME NEW r \in Request, Fail(r) PROVE IntakeInv'
    <2>1. Release(r) /\ pc' = [pc EXCEPT ![r] = "done"] /\ UNCHANGED <<key, body>>
          /\ reply' = [reply EXCEPT ![r] = Refused(500)] /\ Refused(500).code = 500
      BY <1>6 DEF Fail, Reply, Refused, Intake!Refused
    <2>2. CASE UNCHANGED store
      <3>1. IndexGuardsKey'
        BY <1>6, <2>1, <2>2 DEF Fail, Release
      <3>2. StoredByOwner' /\ EventIffPayment' /\ AcceptedIsStored'
        BY <1>6, <2>1, <2>2 DEF Fail
      <3>3. QED
        BY <2>1, <3>1, <3>2
    <2>3. CASE At(r, "commit") /\ Write(r)
      BY <1>5, <1>6, <2>3
    <2>4. QED
      BY <1>6, <2>2, <2>3 DEF Fail
  <1>7. CASE UNCHANGED vars
    BY <1>7 DEF vars
  <1>8. QED
    BY <1>1, <1>2, <1>3, <1>4, <1>6, <1>7 DEF Next, Step

\* With no request under way and empty tables the invariant holds.
LEMMA InitIntake == Init => IntakeInv
  BY DEF Init, IntakeInv, IndexGuardsKey, StoredByOwner, EventIffPayment,
         AcceptedIsStored, Found, At

\* A client told 202 finds its payment, whatever races and fails: the answer
\* names the payment stored under its key, created from its own body.
THEOREM AcceptedNeverLost == Spec => []AcceptedIsStored
  <1>1. IntakeInv => AcceptedIsStored
    BY DEF IntakeInv
  <1>2. QED
    BY <1>1, InitIntake, NextIntake, TypeCorrect, PTL DEF Spec

\* The transactional outbox: a payment and its one event are stored together
\* or not at all.
THEOREM OutboxAtomic == Spec => []EventIffPayment
  <1>1. IntakeInv => EventIffPayment
    BY DEF IntakeInv
  <1>2. QED
    BY <1>1, InitIntake, NextIntake, TypeCorrect, PTL DEF Spec

\* A duplicate always has a winner to answer with.
THEOREM DuplicateHasWinner == Spec => []IndexGuardsKey
  <1>1. IntakeInv => IndexGuardsKey
    BY DEF IntakeInv
  <1>2. QED
    BY <1>1, InitIntake, NextIntake, TypeCorrect, PTL DEF Spec

-----------------------------------------------------------------------------
(* Errors and faults.                                                      *)

\* The requests answered with an error of the service.
Errors == {r \in Request : At(r, "done") /\ reply[r].code = 500}

\* Every error has its fault.
ErrorInv == Cardinality(Errors) <= faults

\* The number of errors is a number.
LEMMA ErrorsFinite == IsFiniteSet(Errors) /\ Cardinality(Errors) \in Nat
  BY CreateAssumption, FS_Subset, FS_CardinalityType DEF Errors

\* An answer other than 500 adds no error.
LEMMA AnswerNoError ==
  ASSUME TypeOK, NEW r \in Request, ~At(r, "done"), NEW a, a.code # 500, Reply(r, a)
  PROVE  Errors' = Errors
  BY DEF TypeOK, Reply, Goto, At, Errors

\* Only a fault makes an error, and only one.
LEMMA NextErrors == TypeOK /\ IntakeInv /\ ErrorInv /\ [Next]_vars => ErrorInv'
  <1> SUFFICES ASSUME TypeOK, IntakeInv, ErrorInv, [Next]_vars PROVE ErrorInv'
    OBVIOUS
  <1>1. /\ \A q : Accepted(q).code # 500
        /\ Refused(409).code # 500 /\ Refused(422).code # 500
    BY DEF Accepted, Refused, Intake!Accepted, Intake!Refused
  <1>2. ASSUME NEW r \in Request, Lookup(r) PROVE Errors' = Errors
    <2>1. CASE Goto(r, "flush") /\ UNCHANGED reply
      BY <1>2, <2>1 DEF Lookup, Goto, At, Errors, TypeOK
    <2>2. QED
      BY <1>1, <1>2, <2>1, ReplayAnswers, AnswerNoError DEF Lookup, At
  <1>3. ASSUME NEW r \in Request, Flush(r) PROVE Errors' = Errors
    BY <1>3 DEF Flush, Goto, At, Errors, TypeOK
  <1>4. ASSUME NEW r \in Request, Commit(r) PROVE Errors' = Errors
    BY <1>1, <1>4, AnswerNoError DEF Commit, At
  <1>5. ASSUME NEW r \in Request, Recheck(r) PROVE Errors' = Errors
    <2>1. payments[key[r]] # NULL /\ Replay(r)
      BY <1>5 DEF Recheck, IntakeInv, IndexGuardsKey
    <2>2. QED
      BY <1>1, <1>5, <2>1, ReplayAnswers, AnswerNoError DEF Recheck, At
  <1>6. ASSUME NEW r \in Request, Fail(r) PROVE ErrorInv'
    <2>1. faults' = faults + 1 /\ faults \in Nat
      BY <1>6, CreateAssumption DEF Fail, TypeOK
    <2>2. Errors' \subseteq Errors \cup {r}
      BY <1>6 DEF Fail, Reply, Goto, At, Errors, TypeOK
    <2>3. Cardinality(Errors') <= Cardinality(Errors) + 1 /\ Cardinality(Errors') \in Nat
      <3> DEFINE S == Errors  T == Errors'
      <3>1. IsFiniteSet(S) /\ Cardinality(S) \in Nat /\ T \subseteq S \cup {r}
        BY <2>2, ErrorsFinite
      <3> HIDE DEF S, T
      <3>2. /\ IsFiniteSet(S \cup {r})
            /\ Cardinality(S \cup {r}) = IF r \in S THEN Cardinality(S) ELSE Cardinality(S) + 1
        BY <3>1, FS_AddElement
      <3>3. IsFiniteSet(T) /\ Cardinality(T) <= Cardinality(S \cup {r})
        BY <3>1, <3>2, FS_Subset
      <3>4. Cardinality(T) \in Nat
        BY <3>3, FS_CardinalityType
      <3>5. QED
        BY <3>1, <3>2, <3>3, <3>4 DEF S, T
    <2>4. QED
      BY <2>1, <2>3, ErrorsFinite DEF ErrorInv
  <1>7. CASE UNCHANGED vars
    <2>1. Errors' = Errors
      BY <1>7 DEF vars, Errors, At
    <2>2. QED
      BY <1>7, <2>1 DEF vars, ErrorInv
  <1>8. ASSUME NEW r \in Request, Step(r) PROVE ErrorInv'
    <2>1. Errors' = Errors /\ faults' = faults
      BY <1>2, <1>3, <1>4, <1>5, <1>8 DEF Step, Lookup, Flush, Commit, Recheck
    <2>2. QED
      BY <2>1 DEF ErrorInv
  <1>9. QED
    BY <1>6, <1>7, <1>8 DEF Next

\* Losing the race for a key is never an error: the service answers no more
\* requests with 500 than the infrastructure failed.
THEOREM ErrorsCostFaults == Spec => []ErrorNeedsFault
  <1>1. Init => ErrorInv
    <2> SUFFICES ASSUME Init PROVE ErrorInv
      OBVIOUS
    <2>1. Errors = {} /\ faults = 0
      BY DEF Init, Errors, At
    <2>2. QED
      BY <2>1, FS_EmptySet DEF ErrorInv
  <1>2. ErrorInv => ErrorNeedsFault
    BY DEF ErrorInv, ErrorNeedsFault, Errors
  <1>3. QED
    BY <1>1, <1>2, InitIntake, NextIntake, NextErrors, TypeCorrect, PTL DEF Spec

-----------------------------------------------------------------------------
(* Refinement of PaymentIntake.                                            *)

\* An answer in the code is an answer in the abstract specification.
LEMMA ReplyIsAnswer ==
  ASSUME NEW r \in Request, NEW a, Reply(r, a)
  PROVE  Intake!Answer(r, a)
  BY DEF Reply, Intake!Answer

\* Answering from the stored payment is one abstract step.
LEMMA ReplayRefines ==
  ASSUME TypeOK, NEW r \in Request, ~At(r, "done"), payments[key[r]] # NULL, Replay(r),
         UNCHANGED <<store, key, body, faults>>
  PROVE  Intake!AnswerAgain(r)
  <1>1. Intake!Replay(r)
    BY DEF Replay, Reply, Intake!Replay, Intake!Answer, Accepted, Refused
  <1>2. QED
    BY <1>1 DEF Intake!AnswerAgain, Intake!Waiting, TypeOK, store

\* Only a COMMIT accepts and only an answer answers: every step of a request
\* is one abstract step or a stutter.
LEMMA StepRefines ==
  ASSUME TypeOK, TypeOK', IntakeInv, [Next]_vars
  PROVE  Intake!Next \/ UNCHANGED <<payments, outbox, key, body, reply, faults>>
  <1> USE DEF Intake!Next, At
  <1>1. ASSUME NEW r \in Request, Lookup(r)
        PROVE  Intake!Next \/ UNCHANGED <<payments, outbox, key, body, reply, faults>>
    <2>1. CASE payments[key[r]] # NULL
      BY <1>1, <2>1, ReplayRefines DEF Lookup
    <2>2. CASE payments[key[r]] = NULL /\ key[r] \in InvalidKey
      <3>1. Intake!Invalid(r)
        BY <1>1, <2>2, ReplyIsAnswer
        DEF Lookup, Intake!Invalid, Intake!Waiting, Refused, TypeOK, store
      <3>2. QED
        BY <3>1
    <2>3. CASE payments[key[r]] = NULL /\ key[r] \notin InvalidKey
      BY <1>1, <2>3 DEF Lookup, store
    <2>4. QED
      BY <2>1, <2>2, <2>3
  <1>2. ASSUME NEW r \in Request, Flush(r)
        PROVE  UNCHANGED <<payments, outbox, key, body, reply, faults>>
    BY <1>2 DEF Flush, store
  <1>3. ASSUME NEW r \in Request, At(r, "commit"), Write(r)
        PROVE  /\ Intake!Write(r) /\ payments[key[r]] = NULL
               /\ key[r] \notin InvalidKey /\ Intake!Waiting(r)
    BY <1>3, WriteFresh DEF Write, Intake!Write, Intake!Waiting, TypeOK, IntakeInv
  <1>4. ASSUME NEW r \in Request, Commit(r)
        PROVE  Intake!Create(r)
    BY <1>3, <1>4, ReplyIsAnswer DEF Commit, Intake!Create, Accepted
  <1>5. ASSUME NEW r \in Request, Recheck(r)
        PROVE  Intake!AnswerAgain(r)
    BY <1>5, ReplayRefines DEF Recheck, IntakeInv, IndexGuardsKey
  <1>6. ASSUME NEW r \in Request, Fail(r)
        PROVE  Intake!Fail(r)
    BY <1>3, <1>6, ReplyIsAnswer DEF Fail, Intake!Fail, Intake!Waiting, Refused, TypeOK,
      store
  <1>7. CASE UNCHANGED vars
    BY <1>7 DEF vars, store
  <1>8. QED
    BY <1>1, <1>2, <1>4, <1>5, <1>6, <1>7 DEF Next, Step

\* Requests in flight are as good as requests one after the other: every
\* request of the use case takes effect in one indivisible step of the intake.
THEOREM RefinesIntake == Spec => ImplementsIntake
  <1>1. Init => Intake!Init
    BY DEF Init, Intake!Init
  <1>2. TypeOK /\ TypeOK' /\ IntakeInv /\ [Next]_vars
          => [Intake!Next]_<<payments, outbox, key, body, reply, faults>>
    BY StepRefines
  <1>3. QED
    BY <1>1, <1>2, InitIntake, NextIntake, TypeCorrect, PTL
    DEF Spec, ImplementsIntake, Intake!Spec
=============================================================================
