-------------------------- MODULE ProcessPayment --------------------------
(***************************************************************************)
(* The consumer: concurrent invocations of handle_payment_created take     *)
(* messages from payments.new, charge the gateway, store the outcome,      *)
(* notify the client and, on any exception, hand the event to the retry    *)
(* policy.  RabbitMQ and PostgreSQL are modelled by what the code relies   *)
(* on: at-least-once delivery with acknowledgements, dead-lettering, and   *)
(* READ COMMITTED updates that wait for a row lock.                        *)
(***************************************************************************)
EXTENDS Naturals, Sequences, FiniteSets, BagsExt, Bags

CONSTANTS Payment,             \* payments
          Handler,             \* concurrent invocations of the subscriber
          MaxDeliveryAttempts, \* RABBITMQ_MAX_DELIVERY_ATTEMPTS
          MaxWebhookAttempts,  \* WEBHOOK_MAX_ATTEMPTS
          MaxPublications,     \* bound: times the relay publishes one event
          MaxFaults,           \* bound: infrastructure faults in a behaviour
          NULL                 \* no row, no lock owner, no message

VARIABLES
  rows,      \* payments table, committed state
  lock,      \* handler whose uncommitted UPDATE holds the payment's row
  new,       \* bag of messages ready in payments.new
  retry,     \* bag of messages waiting in payments.retry
  dlq,       \* bag of messages in payments.dlq
  pc,        \* next await of each handler
  msg,       \* message each handler is working on
  owned,     \* handlers whose delivery the broker still holds unacknowledged
  view,      \* the Payment entity each handler holds in memory
  tries,     \* webhook attempts already made by each handler
  charges,   \* history: answers the gateway gave for each payment
  webhooks,  \* history: notifications the clients received
  events,    \* history: times the relay published each payment's event
  faults     \* history: infrastructure faults so far

db == <<rows, lock>>
broker == <<new, retry, dlq>>
local == <<msg, owned, view, tries>>
world == <<charges, webhooks, events>>
vars == <<db, broker, pc, local, world, faults>>

Outcome == INSTANCE PaymentOutcome WITH rows <- rows, webhooks <- webhooks

FinalStatus == Outcome!FinalStatus
NewPayment == Outcome!NewPayment
Row == Outcome!Row
IsFinal(p) == Outcome!IsFinal(p)

\* A message carries the payment id and its headers: x-attempt (1 if missing)
\* and x-error, present or not.
Message == [payment : Payment, attempt : Nat \ {0}, error : BOOLEAN]

\* What the relay publishes has neither header.
EventOf(p) == [payment |-> p, attempt |-> 1, error |-> FALSE]

\* Every copy the retry policy publishes has both.
Copy(m, n) == [payment |-> m.payment, attempt |-> n, error |-> TRUE]

ASSUME ProcessAssumption ==
  /\ MaxDeliveryAttempts \in Nat
  /\ MaxWebhookAttempts \in Nat
  /\ MaxPublications \in Nat
  /\ MaxFaults \in Nat
  /\ NULL \notin Handler \cup Message \cup Row

Goto(h, label) == pc' = [pc EXCEPT ![h] = label]
At(h, label) == pc[h] = label

Fault == faults < MaxFaults /\ faults' = faults + 1

Init ==
  /\ rows = [p \in Payment |-> NULL]
  /\ lock = [p \in Payment |-> NULL]
  /\ new = EmptyBag /\ retry = EmptyBag /\ dlq = EmptyBag
  /\ pc = [h \in Handler |-> "idle"]
  /\ msg = [h \in Handler |-> NULL]
  /\ owned = {}
  /\ view = [h \in Handler |-> NewPayment]
  /\ tries = [h \in Handler |-> 0]
  /\ charges = [p \in Payment |-> <<>>]
  /\ webhooks = {}
  /\ events = [p \in Payment |-> 0]
  /\ faults = 0

-----------------------------------------------------------------------------
(* The API's side of the interface.                                        *)

\* The request's transaction stores a pending payment.
Create(p) ==
  /\ rows[p] = NULL
  /\ rows' = [rows EXCEPT ![p] = NewPayment]
  /\ UNCHANGED <<lock, broker, pc, local, world, faults>>

\* The relay publishes the event of a stored payment; a second publication
\* means that the relay lost its transaction after the first.
Publish(p) ==
  /\ rows[p] # NULL
  /\ events[p] < MaxPublications
  /\ new' = BagAdd(new, EventOf(p))
  /\ events' = [events EXCEPT ![p] = @ + 1]
  /\ UNCHANGED <<db, retry, dlq, pc, local, charges, webhooks, faults>>

-----------------------------------------------------------------------------
(* handle_payment_created and ProcessPaymentUseCase, await by await.       *)

\* A delivery starts an invocation of the subscriber.
Deliver(h) ==
  /\ At(h, "idle")
  /\ \E m \in DOMAIN new :
       /\ new' = BagRemove(new, m)
       /\ msg' = [msg EXCEPT ![h] = m]
  /\ owned' = owned \cup {h}
  /\ Goto(h, "get")
  /\ UNCHANGED <<db, retry, dlq, view, tries, world, faults>>

\* (mutant) The is_processed check is missing.
GetAlwaysCharges(h) ==
  LET p == msg[h].payment IN
  /\ At(h, "get")
  /\ rows[p] # NULL
  /\ Goto(h, "charge")
  /\ UNCHANGED <<db, broker, local, world, faults>>

\* Read the payment; a processed one skips the gateway, not the notification.
Get(h) ==
  LET p == msg[h].payment IN
  /\ At(h, "get")
  /\ IF rows[p] = NULL
     THEN Goto(h, "except") /\ UNCHANGED view
     ELSE /\ view' = [view EXCEPT ![h] = rows[p]]
          /\ Goto(h, IF IsFinal(p) THEN "send" ELSE "charge")
  /\ UNCHANGED <<db, broker, msg, owned, tries, world, faults>>

\* (mutant) mark_succeeded and mark_failed swapped.
ChargeSwapped(h) ==
  LET p == msg[h].payment IN
  /\ At(h, "charge")
  /\ \E s, t \in FinalStatus :
       /\ s # t
       /\ charges' = [charges EXCEPT ![p] = Append(@, s)]
       /\ view' = [view EXCEPT ![h] =
              [status |-> t, processed_at |-> Len(charges[p]) + 1]]
  /\ Goto(h, "update_status")
  /\ UNCHANGED <<db, broker, msg, owned, tries, webhooks, events, faults>>

\* The gateway answers and the entity moves to the matching final status;
\* the entity refuses the move unless it is pending.
Charge(h) ==
  LET p == msg[h].payment IN
  /\ At(h, "charge")
  /\ \E s \in FinalStatus :
       /\ charges' = [charges EXCEPT ![p] = Append(@, s)]
       /\ IF view[h].status = "pending"
          THEN /\ view' = [view EXCEPT ![h] =
                    [status |-> s, processed_at |-> Len(charges[p]) + 1]]
               /\ Goto(h, "update_status")
          ELSE Goto(h, "except") /\ UNCHANGED view
  /\ UNCHANGED <<db, broker, msg, owned, tries, webhooks, events, faults>>

\* (mutant) The UPDATE does not test for pending.
UpdateAnyStatus(h) ==
  LET p == msg[h].payment IN
  /\ At(h, "update_status")
  /\ lock[p] = NULL
  /\ lock' = [lock EXCEPT ![p] = h]
  /\ Goto(h, "commit")
  /\ UNCHANGED <<rows, broker, local, world, faults>>

\* UPDATE ... WHERE status = 'pending': waits for a concurrent updater, then
\* either locks the row or matches nothing.
UpdateStatus(h) ==
  LET p == msg[h].payment IN
  /\ At(h, "update_status")
  /\ lock[p] = NULL
  /\ lock' = IF IsFinal(p) THEN lock ELSE [lock EXCEPT ![p] = h]
  /\ Goto(h, "commit")
  /\ UNCHANGED <<rows, broker, local, world, faults>>

\* The locked row takes the entity's status; a matched row means `applied`.
Store(h) ==
  LET p == msg[h].payment IN
  /\ rows' = IF lock[p] = h THEN [rows EXCEPT ![p] = view[h]] ELSE rows
  /\ lock' = IF lock[p] = h THEN [lock EXCEPT ![p] = NULL] ELSE lock

\* (mutant) The row count of the UPDATE is ignored.
CommitIgnoresRowcount(h) ==
  /\ At(h, "commit")
  /\ Store(h)
  /\ Goto(h, "send")
  /\ UNCHANGED <<broker, local, world, faults>>

\* COMMIT; without a matched row the handler goes on to read the winner's.
Commit(h) ==
  /\ At(h, "commit")
  /\ Store(h)
  /\ Goto(h, IF lock[msg[h].payment] = h THEN "send" ELSE "reread")
  /\ UNCHANGED <<broker, local, world, faults>>

\* (mutant) The loser notifies the outcome of its own charge.
RereadNothing(h) ==
  /\ At(h, "reread")
  /\ Goto(h, "send")
  /\ UNCHANGED <<db, broker, local, world, faults>>

\* The loser of the race answers with the stored payment.
Reread(h) ==
  LET p == msg[h].payment IN
  /\ At(h, "reread")
  /\ view' = [view EXCEPT ![h] = IF rows[p] = NULL THEN @ ELSE rows[p]]
  /\ Goto(h, "send")
  /\ UNCHANGED <<db, broker, msg, owned, tries, world, faults>>

Received(h) == webhooks \cup {Outcome!WebhookPayload(msg[h].payment, view[h])}

\* The client receives the notification and confirms it.
PostAccepted(h) ==
  /\ At(h, "send")
  /\ webhooks' = Received(h)
  /\ Goto(h, "ack")
  /\ UNCHANGED <<db, broker, local, charges, events, faults>>

\* The attempt fails, whether or not the client saw it; the last one raises.
PostFailed(h) ==
  /\ At(h, "send")
  /\ webhooks' \in {webhooks, Received(h)}
  /\ tries' = [tries EXCEPT ![h] = @ + 1]
  /\ Goto(h, IF tries[h] + 1 >= MaxWebhookAttempts THEN "except" ELSE "send")
  /\ UNCHANGED <<db, broker, msg, owned, view, charges, events, faults>>

\* An exception tenacity does not retry (httpx refuses the URL): no attempt
\* follows, and nothing was sent.
PostRaises(h) ==
  /\ At(h, "send")
  /\ Goto(h, "except")
  /\ UNCHANGED <<db, broker, local, world, faults>>

-----------------------------------------------------------------------------
(* RetryPolicy and the acknowledgement of the delivery.                    *)

\* (mutant) The republished copy keeps its attempt number.
ToRetrySameAttempt(m) ==
  /\ retry' = BagAdd(retry, Copy(m, m.attempt))
  /\ UNCHANGED dlq

ToRetry(m) ==
  /\ retry' = BagAdd(retry, Copy(m, m.attempt + 1))
  /\ UNCHANGED dlq

ToDlq(m) ==
  /\ dlq' = BagAdd(dlq, Copy(m, m.attempt))
  /\ UNCHANGED retry

\* (mutant) One attempt too few.
OnFailureEarly(m) == IF m.attempt + 1 >= MaxDeliveryAttempts THEN ToDlq(m) ELSE ToRetry(m)

OnFailure(m) == IF m.attempt >= MaxDeliveryAttempts THEN ToDlq(m) ELSE ToRetry(m)

\* (mutant) The exception is logged and the delivery acknowledged.
HandleFailureDrops(h) ==
  /\ At(h, "except")
  /\ Goto(h, "ack")
  /\ UNCHANGED <<db, broker, local, world, faults>>

\* (mutant) The exception is raised again after the copy is published.
HandleFailureReraises(h) ==
  /\ At(h, "except")
  /\ OnFailure(msg[h])
  /\ Goto(h, "reject")
  /\ UNCHANGED <<db, new, local, world, faults>>

\* Any exception: a copy with the next attempt number, or a dead letter.
HandleFailure(h) ==
  /\ At(h, "except")
  /\ OnFailure(msg[h])
  /\ Goto(h, "ack")
  /\ UNCHANGED <<db, new, local, world, faults>>

\* The publication itself raises, with or without the copy stored; the
\* exception leaves the subscriber, and the delivery is rejected.
HandleFailureRaises(h) ==
  /\ At(h, "except")
  /\ Fault
  /\ OnFailure(msg[h]) \/ UNCHANGED <<retry, dlq>>
  /\ Goto(h, "reject")
  /\ UNCHANGED <<db, new, local, world>>

\* End of an invocation: nothing of it survives.
Finish(h) ==
  /\ Goto(h, "idle")
  /\ msg' = [msg EXCEPT ![h] = NULL]
  /\ owned' = owned \ {h}
  /\ view' = [view EXCEPT ![h] = NewPayment]
  /\ tries' = [tries EXCEPT ![h] = 0]

Ack(h) ==
  /\ At(h, "ack")
  /\ Finish(h)
  /\ UNCHANGED <<db, broker, world, faults>>

\* payments.new dead-letters a rejected delivery to payments.dlq, with the
\* headers it came with, unless the broker has already taken it back.
Reject(h) ==
  /\ At(h, "reject")
  /\ dlq' = IF h \in owned THEN BagAdd(dlq, msg[h]) ELSE dlq
  /\ Finish(h)
  /\ UNCHANGED <<db, new, retry, world, faults>>

\* The TTL of a message in payments.retry runs out: back to payments.new.
Expire ==
  /\ \E m \in DOMAIN retry :
       /\ retry' = BagRemove(retry, m)
       /\ new' = BagAdd(new, m)
  /\ UNCHANGED <<db, dlq, pc, local, world, faults>>

-----------------------------------------------------------------------------
(* Faults of the infrastructure, bounded by MaxFaults.                     *)

Requeue(h) == new' = IF h \in owned THEN BagAdd(new, msg[h]) ELSE new

\* (mutant) The session is not closed on the way out.
LeakSession(h) == UNCHANGED db

\* Closing the session or losing the connection rolls back an open UPDATE.
Rollback(h) ==
  LET p == msg[h].payment IN
  /\ lock' = IF lock[p] = h THEN [lock EXCEPT ![p] = NULL] ELSE lock
  /\ UNCHANGED rows

\* A statement fails, a connection is lost or the pool times out; a failed
\* COMMIT may have taken effect.
DatabaseError(h) ==
  /\ pc[h] \in {"get", "update_status", "commit", "reread"}
  /\ Fault
  /\ Rollback(h) \/ (At(h, "commit") /\ Store(h))
  /\ Goto(h, "except")
  /\ UNCHANGED <<broker, local, world>>

\* The AMQP channel drops: the broker requeues the delivery while the handler
\* keeps running with a delivery tag that is no longer valid.
ChannelLost(h) ==
  /\ h \in owned
  /\ Fault
  /\ Requeue(h)
  /\ owned' = owned \ {h}
  /\ UNCHANGED <<db, retry, dlq, pc, msg, view, tries, world>>

\* The consumer process dies and is started again.
Crash(h) ==
  /\ ~At(h, "idle")
  /\ Fault
  /\ Requeue(h)
  /\ Rollback(h)
  /\ Finish(h)
  /\ UNCHANGED <<retry, dlq, world>>

-----------------------------------------------------------------------------
\* What a running handler does by itself.
Step(h) ==
  \/ Get(h) \/ Charge(h) \/ UpdateStatus(h) \/ Commit(h) \/ Reread(h)
  \/ PostAccepted(h) \/ PostFailed(h) \/ PostRaises(h)
  \/ HandleFailure(h) \/ Ack(h) \/ Reject(h)

HandlerFault(h) ==
  DatabaseError(h) \/ HandleFailureRaises(h) \/ ChannelLost(h) \/ Crash(h)

Next ==
  \/ \E p \in Payment : Create(p) \/ Publish(p)
  \/ \E h \in Handler : Deliver(h) \/ Step(h) \/ HandlerFault(h)
  \/ Expire

\* The event loop runs every ready coroutine, the broker delivers ready
\* messages and expires waiting ones.
Fairness ==
  /\ \A h \in Handler : WF_vars(Step(h))
  /\ WF_vars(\E h \in Handler : Deliver(h))
  /\ WF_vars(Expire)

Spec == Init /\ [][Next]_vars
FairSpec == Spec /\ Fairness

-----------------------------------------------------------------------------
IsBagOver(b, S) ==
  /\ DOMAIN b \subseteq S
  /\ b \in [DOMAIN b -> Nat \ {0}]

Notification ==
  [payment : Payment, status : Outcome!PaymentStatus, processed_at : Nat]

Labels == {"idle", "get", "charge", "update_status", "commit", "reread",
           "send", "except", "ack", "reject"}

\* Every variable has its type; a handler has a message exactly while it runs.
TypeOK ==
  /\ rows \in [Payment -> Row \cup {NULL}]
  /\ lock \in [Payment -> Handler \cup {NULL}]
  /\ IsBagOver(new, Message) /\ IsBagOver(retry, Message) /\ IsBagOver(dlq, Message)
  /\ pc \in [Handler -> Labels]
  /\ msg \in [Handler -> Message \cup {NULL}]
  /\ \A h \in Handler : msg[h] = NULL <=> At(h, "idle")
  /\ owned \subseteq {h \in Handler : ~At(h, "idle")}
  /\ view \in [Handler -> Row]
  /\ tries \in [Handler -> Nat]
  /\ charges \in [Payment -> Seq(FinalStatus)]
  /\ webhooks \subseteq Notification
  /\ events \in [Payment -> Nat]
  /\ faults \in 0 .. MaxFaults

\* An invocation working on the event of p.
Works(h, p) == ~At(h, "idle") /\ msg[h].payment = p

Notified(p) == \E w \in webhooks : w.payment = p
Queued(b, p) == \E m \in DOMAIN b : m.payment = p

\* Whatever a client was told is what the payments table holds, for good:
\* a notification is sent after the commit, and the loser of a race between
\* two handlers sends the winner's status and timestamp, not its own.
NotificationsMatchStore ==
  \A w \in webhooks : /\ IsFinal(w.payment)
                       /\ w = Outcome!WebhookPayload(w.payment, rows[w.payment])

\* A published event is never lost: until its client was reached, a queue
\* holds it or the broker still owns the delivery of a handler that has
\* neither finished nor passed it on (acknowledge last, publish first).
EventInCustody ==
  \A p \in Payment : events[p] > 0 =>
    \/ Notified(p) \/ Queued(new, p) \/ Queued(retry, p) \/ Queued(dlq, p)
    \/ \E h \in owned : Works(h, p) /\ ~At(h, "ack")

\* An answer of the gateway for p, with the moment it was given.
WasCharged(p, row) ==
  /\ row.status \in FinalStatus
  /\ row.processed_at \in 1 .. Len(charges[p])
  /\ row.status = charges[p][row.processed_at]

\* The stored outcome is an answer the gateway really gave for this payment,
\* and the timestamp is the one of that answer, not of a racing handler.
StoredOutcomeWasCharged ==
  \A p \in Payment : IsFinal(p) => WasCharged(p, rows[p])

\* A row is locked only by a handler about to commit a decision on a payment
\* still pending: no failure, crash or lost race leaves a lock behind.
LockedRowIsPending ==
  \A p \in Payment : lock[p] # NULL =>
    /\ At(lock[p], "commit") /\ msg[lock[p]].payment = p
    /\ rows[p] # NULL /\ ~IsFinal(p)

\* What a handler took from the database or the gateway before an await is
\* still right when it acts on it: it decides with an answer of the gateway,
\* it loses only to a stored decision, and it sends the stored decision.
HandlerInformed(h, p) ==
  /\ pc[h] \in {"charge", "update_status", "commit"} => rows[p] # NULL
  /\ pc[h] \in {"update_status", "commit"} => WasCharged(p, view[h])
  /\ At(h, "commit") /\ lock[p] # h => IsFinal(p)
  /\ At(h, "reread") => IsFinal(p)
  /\ At(h, "send") => IsFinal(p) /\ view[h] = rows[p]

HandlersInformed ==
  \A h \in Handler : ~At(h, "idle") => HandlerInformed(h, msg[h].payment)

\* A payment is charged once per copy of its event, and again only if the
\* infrastructure failed meanwhile: webhook failures and their retries alone
\* never reach the gateway twice.
ExtraChargeNeedsFault ==
  \A p \in Payment : Len(charges[p]) <= events[p] + faults

\* Of the messages in S, the copies that a queue holds, numbered per message.
Numbered(b, S) == UNION {{m} \X (1 .. b[m]) : m \in S}

\* The copies of the event of p in a queue.
Copies(b, p) == Numbered(b, {m \in DOMAIN b : m.payment = p})
CopiesOf(b, p) == Cardinality(Copies(b, p))

\* There are no more copies of an event than publications unless a fault added
\* one: a retried message is republished and acknowledged, never republished
\* and dead-lettered.
CopyNeedsFault ==
  \A p \in Payment :
    CopiesOf(new, p) + CopiesOf(retry, p) + CopiesOf(dlq, p)
      + Cardinality({h \in owned : Works(h, p) /\ ~At(h, "ack")})
      <= events[p] + faults

\* Dead letters that do not tell, by x-attempt and x-error, that all attempts
\* have failed.
Unexplained == Numbered(dlq, {d \in DOMAIN dlq : ~(d.error /\ d.attempt >= MaxDeliveryAttempts)})

\* Every event gets all its attempts and none more: no message is numbered
\* beyond RABBITMQ_MAX_DELIVERY_ATTEMPTS, and a dead letter that has attempts
\* left, or no x-error, is a delivery rejected because publishing its copy
\* failed; there are no more of those than faults.
GivesUpAtLimit ==
  /\ \A m \in DOMAIN new \cup DOMAIN retry :
       m.attempt > 1 => m.attempt <= MaxDeliveryAttempts
  /\ Cardinality(Unexplained) <= faults

\* README, "a payment is not processed twice" (idempotency of the output).
ChargedAtMostOnce ==
  \A p \in Payment : Len(charges[p]) <= 1

\* The consumer implements the promise made to the client: accepted, then
\* decided once, and only the stored decision is ever notified.
ImplementsOutcome == Outcome!Spec

\* A published event is eventually notified or ends in payments.dlq.
EventSettled ==
  \A p \in Payment : events[p] > 0 ~> (Notified(p) \/ Queued(dlq, p))

\* Retrying ends: the queues drain and the handlers come to rest.
Quiesces ==
  <>[](new = EmptyBag /\ retry = EmptyBag /\ \A h \in Handler : At(h, "idle"))
=============================================================================
