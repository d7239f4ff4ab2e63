--------------------------- MODULE PaymentService ---------------------------
(***************************************************************************)
(* The service as a whole: the consumer, to which this module adds the     *)
(* requests and the relays that ProcessPayment replaces by the actions     *)
(* Create and Publish.  All share one PostgreSQL and one RabbitMQ; the     *)
(* intake and the relays are instantiated WITH their part of the state.    *)
(* A row of payments has two groups of columns: those the intake writes    *)
(* once (payments) and those processing changes (rows).  A payment is      *)
(* named by the request that creates it.                                   *)
(***************************************************************************)
EXTENDS ProcessPayment, SequencesExt

CONSTANTS Key, Body, InvalidKey,  \* see CreatePayment
          Process,                \* API processes, a relay in each
          BatchSize,              \* see OutboxRelay
          MaxApiFaults,           \* bound: faults of requests in a behaviour
          MaxRelayFaults          \* bound: faults of relays in a behaviour

VARIABLES
  payments, inserting,              \* the intake's columns, index entries
  requestAt, key, body, reply,      \* requests
  outbox, published, locked,        \* the outbox and its row locks
  relayAt, batch, done, brokerUp,   \* relays, their connection to RabbitMQ
  apiFaults, relayFaults            \* history: faults of each part

\* The outbox as the intake sees it: how many rows it wrote for a payment.
EventsOf == [p \in Payment |-> Cardinality({i \in DOMAIN outbox : outbox[i] = p})]

API == INSTANCE CreatePayment
  WITH Request <- Payment, outbox <- EventsOf, pc <- requestAt,
       faults <- apiFaults, MaxFaults <- MaxApiFaults

Outbox == INSTANCE OutboxRelay
  WITH Event <- Payment, Relay <- Process, sent <- events, pc <- relayAt,
       faults <- relayFaults, MaxFaults <- MaxRelayFaults

\* What the components assume of their constants.
ASSUME ServiceAssumption ==
  /\ MaxPublications = 1 + MaxRelayFaults
  /\ BatchSize \in Nat \ {0}
  /\ MaxApiFaults \in Nat /\ MaxRelayFaults \in Nat
  /\ InvalidKey \subseteq Key
  /\ IsFiniteSet(Payment) /\ IsFiniteSet(Process)
  /\ NULL \notin Payment \cup API!Stored \cup API!Intake!Reply

requests == <<payments, inserting, requestAt, key, body, reply, apiFaults>>
relays == <<published, locked, relayAt, batch, done, brokerUp, relayFaults>>
consumer == <<lock, retry, dlq, pc, local, charges, webhooks, faults>>
serviceVars == <<requests, relays, outbox, consumer, rows, events, new>>

ServiceInit == Init /\ Outbox!Init /\ API!Init

-----------------------------------------------------------------------------
\* One transaction: a pending payment and its event.
StorePayment(p) ==
  /\ rows' = [rows EXCEPT ![p] = NewPayment]
  /\ \E i \in 1 .. Len(outbox) + 1 : outbox' = InsertAt(outbox, i, p)

\* A process serves requests from the end of its startup on.
Serving == \E a \in Process : relayAt[a] # "down"

Serve(p) ==
  /\ Serving
  /\ \/ UNCHANGED <<rows, outbox>> /\ (API!Lookup(p) \/ API!Flush(p) \/ API!Recheck(p))
     \/ StorePayment(p) /\ API!Commit(p)
  /\ UNCHANGED <<relays, consumer, events, new>>

RequestFails(p) ==
  /\ UNCHANGED <<rows, outbox>> \/ StorePayment(p)
  /\ API!Fail(p)
  /\ UNCHANGED <<relays, consumer, events, new>>

\* (mutant) x-attempt is set by the relay, counting from 2.
EnqueueSecond(p) == new' = BagAdd(new, [payment |-> p, attempt |-> 2, error |-> FALSE])

\* What the broker stores for a relay is a first attempt in payments.new.
Enqueue(p) == new' = BagAdd(new, EventOf(p))

\* A step of a relay; the broker stores what it publishes.
Routed ==
  \/ events' = events /\ new' = new
  \/ \E p \in Payment : events'[p] # events[p] /\ Enqueue(p)

RelayRuns(a) == Outbox!Step(a) /\ Routed /\ UNCHANGED <<requests, consumer, rows>>
RelayFails(a) == Outbox!RelayFault(a) /\ Routed /\ UNCHANGED <<requests, consumer, rows>>

\* The connection of the API processes to RabbitMQ goes and comes back.
LinkFails == Outbox!BrokerFails /\ UNCHANGED <<requests, consumer, rows, new>>
LinkRecovers == Outbox!BrokerRecovers /\ UNCHANGED <<requests, consumer, rows, new>>

\* The consumer and its queues, as in ProcessPayment.
Receive == (\E h \in Handler : Deliver(h)) /\ UNCHANGED <<requests, relays, outbox>>
HandlerRuns(h) == Step(h) /\ UNCHANGED <<requests, relays, outbox>>
HandlerFails(h) == HandlerFault(h) /\ UNCHANGED <<requests, relays, outbox>>
RetryDue == Expire /\ UNCHANGED <<requests, relays, outbox>>

ServiceNext ==
  \/ \E p \in Payment : Serve(p) \/ RequestFails(p)
  \/ \E a \in Process : RelayRuns(a) \/ RelayFails(a)
  \/ LinkFails \/ LinkRecovers
  \/ Receive \/ RetryDue
  \/ \E h \in Handler : HandlerRuns(h) \/ HandlerFails(h)

ServiceSpec == ServiceInit /\ [][ServiceNext]_serviceVars

\* Each component runs as fairly as in its own module.
ServiceFairness ==
  /\ \A p \in Payment : WF_serviceVars(Serve(p))
  /\ \A a \in Process : WF_serviceVars(RelayRuns(a))
  /\ \A h \in Handler : WF_serviceVars(HandlerRuns(h))
  /\ WF_serviceVars(LinkRecovers) /\ WF_serviceVars(Receive) /\ WF_serviceVars(RetryDue)

FairServiceSpec == ServiceSpec /\ ServiceFairness

-----------------------------------------------------------------------------
\* Every component's variables have their types.
ServiceTypeOK == TypeOK /\ API!TypeOK /\ Outbox!TypeOK

\* The request r was answered 202 with the payment p.
AcceptedAs(r, p) == reply[r] = API!Accepted(p)

\* RabbitMQ is responsible for the event of p.
InBroker(p) ==
  \/ Queued(new, p) \/ Queued(retry, p) \/ Queued(dlq, p)
  \/ \E h \in owned : Works(h, p) /\ ~At(h, "ack")

\* A payment the client was told is accepted is never lost, from the commit of
\* the request to the notification: its event waits in the outbox, is with the
\* broker, or the client has been notified.
AcceptedInCustody ==
  \A r, p \in Payment :
    AcceptedAs(r, p) => p \in Outbox!Rows \ published \/ InBroker(p) \/ Notified(p)

\* README, idempotency at both ends: for one Idempotency-Key clients are told
\* at most one outcome of one payment, however often they repeat the request,
\* the relay the event and the broker the message.
OneOutcomePerKey ==
  \A v, w \in webhooks : key[v.payment] = key[w.payment] => v = w

\* The intake and the relays, together, are the environment the consumer was
\* specified in: no event of a payment that is not stored, none published
\* more often than once and once more for every fault of a relay.
IsConsumersEnvironment == Spec

\* Every accepted payment is eventually notified, or its event is set aside
\* in payments.dlq for an operator.
AcceptedSettled ==
  \A r, p \in Payment : AcceptedAs(r, p) ~> (Notified(p) \/ Queued(dlq, p))
=============================================================================
