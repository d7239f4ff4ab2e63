--------------------------- MODULE CreatePayment ---------------------------
(***************************************************************************)
(* POST /api/v1/payments: CreatePaymentUseCase run by concurrent requests, *)
(* await by await.  PostgreSQL's unique index on idempotency_key is        *)
(* modelled by what the code relies on: an INSERT waits for an uncommitted *)
(* one with the same key, then fails if that one committed.                *)
(***************************************************************************)
EXTENDS Naturals, FiniteSets

CONSTANTS Request,     \* requests clients send; a retry is another request
          Key,         \* values of the Idempotency-Key header
          Body,        \* request bodies, told apart by request_hash
          InvalidKey,  \* keys the domain refuses (blank)
          MaxFaults,   \* bound: infrastructure faults in a behaviour
          NULL         \* no row, no answer yet

VARIABLES
  payments,  \* committed rows of the payments table by idempotency_key
  outbox,    \* committed outbox rows of each payment
  inserting, \* request whose uncommitted INSERT owns the index entry
  pc,        \* next await of each request
  key,       \* Idempotency-Key of each request
  body,      \* body of each request
  reply,     \* answer to each request
  faults     \* history: infrastructure faults so far

store == <<payments, outbox>>
vars == <<store, inserting, pc, key, body, reply, faults>>

Intake == INSTANCE PaymentIntake
  WITH payments <- payments, outbox <- outbox, key <- key, body <- body,
       reply <- reply, faults <- faults

Stored == Intake!Stored
Accepted(id) == Intake!Accepted(id)
Refused(code) == Intake!Refused(code)

ASSUME CreateAssumption ==
  /\ InvalidKey \subseteq Key
  /\ MaxFaults \in Nat
  /\ IsFiniteSet(Request)
  /\ NULL \notin Request \cup Stored \cup Intake!Reply

Goto(r, label) == pc' = [pc EXCEPT ![r] = label]
At(r, label) == pc[r] = label

Init ==
  /\ payments = [k \in Key |-> NULL]
  /\ outbox = [r \in Request |-> 0]
  /\ inserting = [k \in Key |-> NULL]
  /\ pc = [r \in Request |-> "lookup"]
  /\ key \in [Request -> Key]
  /\ body \in [Request -> Body]
  /\ reply = [r \in Request |-> NULL]
  /\ faults = 0

\* The handler returns or raises: the request is answered.
Reply(r, a) ==
  /\ reply' = [reply EXCEPT ![r] = a]
  /\ Goto(r, "done")

\* (mutant) The request hash is not compared.
ReplayAny(r) == Reply(r, Accepted(payments[key[r]].id))

\* _replay: the stored payment, unless it was created from another body.
Replay(r) ==
  LET existing == payments[key[r]] IN
  Reply(r, IF existing.request_hash # body[r] THEN Refused(409)
                                              ELSE Accepted(existing.id))

\* First SELECT by key; without a row the entity is built, which refuses an
\* invalid key, and added to the session.
Lookup(r) ==
  /\ At(r, "lookup")
  /\ IF payments[key[r]] # NULL THEN Replay(r)
     ELSE IF key[r] \in InvalidKey THEN Reply(r, Refused(422))
     ELSE Goto(r, "flush") /\ UNCHANGED reply
  /\ UNCHANGED <<store, inserting, key, body, faults>>

\* (mutant) No unique index: the later INSERT wins.
FlushWithoutIndex(r) ==
  /\ At(r, "flush")
  /\ inserting' = [inserting EXCEPT ![key[r]] = r]
  /\ Goto(r, "commit")
  /\ UNCHANGED <<store, key, body, reply, faults>>

\* The INSERTs of commit(): wait for the index entry, then take it or fail.
Flush(r) ==
  LET k == key[r] IN
  /\ At(r, "flush")
  /\ inserting[k] = NULL
  /\ IF payments[k] = NULL
     THEN inserting' = [inserting EXCEPT ![k] = r] /\ Goto(r, "commit")
     ELSE Goto(r, "duplicate") /\ UNCHANGED inserting
  /\ UNCHANGED <<store, key, body, reply, faults>>

\* (mutant) The session is not closed on the way out.
ReleaseNothing(r) == UNCHANGED inserting

\* End of a transaction: its index entry, if any, is no longer pending.
Release(r) ==
  inserting' = [k \in Key |-> IF inserting[k] = r THEN NULL ELSE inserting[k]]

\* (mutant) The event is left for a transaction of its own.
WriteWithoutEvent(r) ==
  /\ payments' = [payments EXCEPT ![key[r]] = [id |-> r, request_hash |-> body[r]]]
  /\ UNCHANGED outbox

\* The rows of the transaction: the payment and its event.
Write(r) ==
  /\ payments' = [payments EXCEPT ![key[r]] = [id |-> r, request_hash |-> body[r]]]
  /\ outbox' = [outbox EXCEPT ![r] = @ + 1]

Commit(r) ==
  /\ At(r, "commit")
  /\ Write(r)
  /\ Release(r)
  /\ Reply(r, Accepted(r))
  /\ UNCHANGED <<key, body, faults>>

\* (mutant) The duplicate is answered with an error, not with the winner.
RecheckRaises(r) ==
  /\ At(r, "duplicate")
  /\ Reply(r, Refused(500))
  /\ UNCHANGED <<store, inserting, key, body, faults>>

\* After DuplicateIdempotencyKeyError: roll back, SELECT again, and raise the
\* error if no row is there.
Recheck(r) ==
  /\ At(r, "duplicate")
  /\ IF payments[key[r]] = NULL THEN Reply(r, Refused(500)) ELSE Replay(r)
  /\ UNCHANGED <<store, inserting, key, body, faults>>

\* A statement fails, the process dies or the connection is lost: the
\* session rolls back, and a failing COMMIT may have taken effect.
Fail(r) ==
  /\ ~At(r, "done")
  /\ faults < MaxFaults /\ faults' = faults + 1
  /\ UNCHANGED store \/ (At(r, "commit") /\ Write(r))
  /\ Release(r)
  /\ Reply(r, Refused(500))
  /\ UNCHANGED <<key, body>>

-----------------------------------------------------------------------------
Step(r) == Lookup(r) \/ Flush(r) \/ Commit(r) \/ Recheck(r)

Next == \E r \in Request : Step(r) \/ Fail(r)

\* The event loop runs every request, and the server wakes a waiting INSERT.
Fairness == \A r \in Request : WF_vars(Step(r))

Spec == Init /\ [][Next]_vars
FairSpec == Spec /\ Fairness

-----------------------------------------------------------------------------
Labels == {"lookup", "flush", "commit", "duplicate", "done"}

\* GET /api/v1/payments/{id} finds the payment.
Found(id) == \E k \in Key : payments[k] # NULL /\ payments[k].id = id

\* Every variable has its type; a request is answered when it is done.
TypeOK ==
  /\ payments \in [Key -> Stored \cup {NULL}]
  /\ outbox \in [Request -> Nat]
  /\ inserting \in [Key -> Request \cup {NULL}]
  /\ pc \in [Request -> Labels]
  /\ key \in [Request -> Key] /\ body \in [Request -> Body]
  /\ reply \in [Request -> Intake!Reply \cup {NULL}]
  /\ \A r \in Request : reply[r] # NULL <=> At(r, "done")
  /\ faults \in 0 .. MaxFaults

\* The index entry of a key is taken by the one request about to commit the
\* key's first payment; a request told "duplicate" has a winner to answer
\* with, so re-reading never finds nothing.
IndexGuardsKey ==
  /\ \A k \in Key : inserting[k] # NULL =>
       At(inserting[k], "commit") /\ key[inserting[k]] = k /\ payments[k] = NULL
  /\ \A r \in Request :
       /\ At(r, "commit") => inserting[key[r]] = r
       /\ At(r, "duplicate") => payments[key[r]] # NULL

\* A client that was told 202 finds the payment it was told about, created
\* from its own body, whichever of several racing requests created it; so
\* two requests with one key are never told different payments.
AcceptedIsStored ==
  \A r \in Request : At(r, "done") /\ reply[r].code = 202 =>
    /\ Found(reply[r].payment)
    /\ payments[key[r]] = [id |-> reply[r].payment, request_hash |-> body[r]]

\* A payment exists exactly when its event does (the transactional outbox):
\* no event without a payment, no payment nobody will process, none twice.
EventIffPayment ==
  \A r \in Request : outbox[r] = IF Found(r) THEN 1 ELSE 0

\* Losing the race for a key is never an error to the client: 500 is
\* answered only to requests the infrastructure failed.
ErrorNeedsFault ==
  Cardinality({r \in Request : At(r, "done") /\ reply[r].code = 500}) <= faults

\* Requests in flight are as good as requests one after the other: the
\* use case implements the indivisible intake.
ImplementsIntake == Intake!Spec

\* Every request is answered: none waits for a key for ever.
RequestAnswered == \A r \in Request : <>(reply[r] # NULL)
=============================================================================
