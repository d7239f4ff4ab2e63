--------------------------- MODULE PaymentIntake ---------------------------
(***************************************************************************)
(* What POST /api/v1/payments promises: an Idempotency-Key names one       *)
(* payment, and every request takes effect in one indivisible step between *)
(* its arrival and its answer, however many requests run side by side.     *)
(***************************************************************************)
EXTENDS Naturals

CONSTANTS Request,     \* requests clients send; a retry is another request
          Key,         \* values of the Idempotency-Key header
          Body,        \* request bodies, told apart by request_hash
          InvalidKey,  \* keys the domain refuses (blank)
          MaxFaults,   \* bound: infrastructure faults in a behaviour
          NULL         \* no row, no answer yet

VARIABLES payments,  \* the payments table by its unique idempotency_key
          outbox,    \* outbox rows of each payment
          key,       \* Idempotency-Key of each request
          body,      \* body of each request
          reply,     \* answer to each request
          faults     \* history: infrastructure faults so far

\* A payment is named by the request that created it.
Stored == [id : Request, request_hash : Body]
Accepted(id) == [code |-> 202, payment |-> id]
Refused(code) == [code |-> code, payment |-> NULL]
Reply == {Accepted(id) : id \in Request} \cup {Refused(c) : c \in {409, 422, 500}}

Answer(r, a) == reply' = [reply EXCEPT ![r] = a]

\* Another body under a used key is refused, the same one answered again.
Replay(r) ==
  LET existing == payments[key[r]] IN
  Answer(r, IF existing.request_hash # body[r] THEN Refused(409)
                                               ELSE Accepted(existing.id))

\* The payment and its event, in one transaction.
Write(r) ==
  /\ payments' = [payments EXCEPT ![key[r]] = [id |-> r, request_hash |-> body[r]]]
  /\ outbox' = [outbox EXCEPT ![r] = @ + 1]

-----------------------------------------------------------------------------
Init ==
  /\ payments = [k \in Key |-> NULL]
  /\ outbox = [r \in Request |-> 0]
  /\ key \in [Request -> Key]
  /\ body \in [Request -> Body]
  /\ reply = [r \in Request |-> NULL]
  /\ faults = 0

Waiting(r) == reply[r] = NULL

Create(r) ==
  /\ Waiting(r) /\ payments[key[r]] = NULL /\ key[r] \notin InvalidKey
  /\ Write(r)
  /\ Answer(r, Accepted(r))
  /\ UNCHANGED <<key, body, faults>>

AnswerAgain(r) ==
  /\ Waiting(r) /\ payments[key[r]] # NULL
  /\ Replay(r)
  /\ UNCHANGED <<payments, outbox, key, body, faults>>

Invalid(r) ==
  /\ Waiting(r) /\ key[r] \in InvalidKey
  /\ Answer(r, Refused(422))
  /\ UNCHANGED <<payments, outbox, key, body, faults>>

\* The client gets no useful answer, whether or not the payment was created.
Fail(r) ==
  /\ Waiting(r) /\ faults < MaxFaults
  /\ \/ UNCHANGED <<payments, outbox>>
     \/ payments[key[r]] = NULL /\ key[r] \notin InvalidKey /\ Write(r)
  /\ Answer(r, Refused(500))
  /\ faults' = faults + 1
  /\ UNCHANGED <<key, body>>

Next == \E r \in Request : Create(r) \/ AnswerAgain(r) \/ Invalid(r) \/ Fail(r)

Spec == Init /\ [][Next]_<<payments, outbox, key, body, reply, faults>>
=============================================================================
