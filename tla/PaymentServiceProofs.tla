------------------------ MODULE PaymentServiceProofs ------------------------
(***************************************************************************)
(* The service as a whole, for any payments, keys, bodies, handlers,       *)
(* processes and bounds: its requests are those CreatePaymentProofs is     *)
(* about, its relays those of OutboxRelayProofs and its consumer the one   *)
(* of ProcessPaymentProofs, whose lemmas are instantiated here and cited.  *)
(***************************************************************************)
EXTENDS PaymentService, ProcessPaymentProofs

Requests == INSTANCE CreatePaymentProofs
  WITH Request <- Payment, outbox <- EventsOf, pc <- requestAt,
       faults <- apiFaults, MaxFaults <- MaxApiFaults

Relays == INSTANCE OutboxRelayProofs
  WITH Event <- Payment, Relay <- Process, sent <- events, pc <- relayAt,
       faults <- relayFaults, MaxFaults <- MaxRelayFaults

-----------------------------------------------------------------------------
(* The components and the modules of their proofs name the same things:    *)
(* API!X and Requests!X, Outbox!X and Relays!X.                            *)

\* The constants are what the two components assume.
LEMMA SameAssumptions == Requests!CreateAssumption /\ Relays!RelayAssumption
  <1>1. IsFiniteSet(Payment) = Requests!IsFiniteSet(Payment)
    BY DEF IsFiniteSet, Requests!IsFiniteSet
  <1>2. IsFiniteSet(Process) = Relays!IsFiniteSet(Process)
    BY DEF IsFiniteSet, Relays!IsFiniteSet
  <1>3. Requests!CreateAssumption
    BY <1>1, ServiceAssumption
    DEF Requests!CreateAssumption, API!Stored, Requests!Stored, API!Intake!Stored,
        Requests!Intake!Stored, API!Intake!Reply, Requests!Intake!Reply,
        API!Intake!Accepted, Requests!Intake!Accepted, API!Intake!Refused,
        Requests!Intake!Refused
  <1>4. Relays!RelayAssumption
    BY <1>2, ServiceAssumption DEF Relays!RelayAssumption
  <1>5. QED
    BY <1>3, <1>4

\* The state and the operations of requests.
LEMMA SameRequests ==
  /\ API!Init => Requests!Init
  /\ API!TypeOK <=> Requests!TypeOK
  /\ \A r \in Payment :
       /\ API!Lookup(r) => Requests!Lookup(r)
       /\ API!Flush(r) => Requests!Flush(r)
       /\ API!Commit(r) => Requests!Commit(r)
       /\ API!Recheck(r) => Requests!Recheck(r)
       /\ API!Fail(r) => Requests!Fail(r)
  <1> USE DEF API!At, Requests!At, API!Goto, Requests!Goto, API!Accepted,
        Requests!Accepted, API!Refused, Requests!Refused, API!Intake!Accepted,
        Requests!Intake!Accepted, API!Intake!Refused, Requests!Intake!Refused,
        API!Reply, Requests!Reply, API!store, Requests!store
  <1>1. API!Init => Requests!Init
    BY DEF API!Init, Requests!Init
  <1>2. API!TypeOK <=> Requests!TypeOK
    BY DEF API!TypeOK, Requests!TypeOK, API!Stored, Requests!Stored, API!Labels,
      Requests!Labels, API!Intake!Stored, Requests!Intake!Stored, API!Intake!Reply,
      Requests!Intake!Reply
  <1>3. ASSUME NEW r \in Payment PROVE API!Lookup(r) => Requests!Lookup(r)
    BY DEF API!Lookup, Requests!Lookup, API!Replay, Requests!Replay
  <1>4. ASSUME NEW r \in Payment PROVE API!Flush(r) => Requests!Flush(r)
    BY DEF API!Flush, Requests!Flush
  <1>5. ASSUME NEW r \in Payment PROVE API!Commit(r) => Requests!Commit(r)
    BY DEF API!Commit, Requests!Commit, API!Write, Requests!Write, API!Release,
      Requests!Release
  <1>6. ASSUME NEW r \in Payment PROVE API!Recheck(r) => Requests!Recheck(r)
    BY DEF API!Recheck, Requests!Recheck, API!Replay, Requests!Replay
  <1>7. ASSUME NEW r \in Payment PROVE API!Fail(r) => Requests!Fail(r)
    BY DEF API!Fail, Requests!Fail, API!Write, Requests!Write, API!Release,
      Requests!Release
  <1>8. QED
    BY <1>1, <1>2, <1>3, <1>4, <1>5, <1>6, <1>7

\* The state and the operations of relays.
LEMMA SameRelays ==
  /\ Outbox!Init => Relays!Init
  /\ Outbox!TypeOK <=> Relays!TypeOK
  /\ Outbox!Rows = Relays!Rows
  /\ \A a \in Process :
       /\ Outbox!Step(a) => Relays!Step(a)
       /\ Outbox!RelayFault(a) => Relays!RelayFault(a)
  /\ Outbox!BrokerFails => Relays!BrokerFails
  /\ Outbox!BrokerRecovers => Relays!BrokerRecovers
  <1> USE DEF Outbox!At, Relays!At, Outbox!Goto, Relays!Goto, Outbox!Rows, Relays!Rows,
        Outbox!Fault, Relays!Fault, Outbox!pass, Relays!pass, Outbox!EndPass,
        Relays!EndPass
  <1>1. Outbox!Init => Relays!Init
    BY DEF Outbox!Init, Relays!Init
  <1>2. Outbox!TypeOK <=> Relays!TypeOK
    BY DEF Outbox!TypeOK, Relays!TypeOK, Outbox!Labels, Relays!Labels
  <1>3. ASSUME NEW a \in Process, NEW p \in Payment
        PROVE  /\ Outbox!PublishConfirmed(a, p) => Relays!PublishConfirmed(a, p)
               /\ Outbox!PublishUnreachable(a, p) => Relays!PublishUnreachable(a, p)
               /\ Outbox!PublishUnconfirmed(a, p) => Relays!PublishUnconfirmed(a, p)
    BY DEF Outbox!PublishConfirmed, Relays!PublishConfirmed, Outbox!PublishUnreachable,
      Relays!PublishUnreachable, Outbox!PublishUnconfirmed, Relays!PublishUnconfirmed,
      Outbox!Advance, Relays!Advance, Outbox!IsNext, Relays!IsNext, Outbox!Before,
      Relays!Before
  <1>4. ASSUME NEW a \in Process PROVE Outbox!LockBatch(a) => Relays!LockBatch(a)
    <2>1. ASSUME NEW S
          PROVE  Outbox!Cardinality(S) = Relays!Cardinality(S) /\ Outbox!Min(S) = Relays!Min(S)
      BY DEF Outbox!Cardinality, Relays!Cardinality, Outbox!Min, Relays!Min
    <2>2. Outbox!Candidates = Relays!Candidates
      BY DEF Outbox!Candidates, Relays!Candidates, Outbox!Free, Relays!Free
    <2>3. ASSUME NEW R PROVE Outbox!IsBatch(R) => Relays!IsBatch(R)
      BY <2>1, <2>2 DEF Outbox!IsBatch, Relays!IsBatch, Outbox!Before, Relays!Before
    <2>4. QED
      BY ONLY <2>2, <2>3 DEF Outbox!LockBatch, Relays!LockBatch, Outbox!At, Relays!At,
        Outbox!Goto, Relays!Goto
  <1>5. ASSUME NEW a \in Process PROVE Outbox!Step(a) => Relays!Step(a)
    <2>1. /\ Outbox!Start(a) => Relays!Start(a)
          /\ Outbox!Wake(a) => Relays!Wake(a)
          /\ Outbox!Commit(a) => Relays!Commit(a)
      BY DEF Outbox!Start, Relays!Start, Outbox!Wake, Relays!Wake, Outbox!Commit,
        Relays!Commit
    <2>2. QED
      BY ONLY <2>1, <1>3, <1>4 DEF Outbox!Step, Relays!Step
  <1>6. ASSUME NEW a \in Process PROVE Outbox!RelayFault(a) => Relays!RelayFault(a)
    <2>1. /\ Outbox!PollError(a) => Relays!PollError(a)
          /\ Outbox!CommitError(a) => Relays!CommitError(a)
          /\ Outbox!SessionLost(a) => Relays!SessionLost(a)
          /\ Outbox!Stop(a) => Relays!Stop(a)
      BY DEF Outbox!PollError, Relays!PollError, Outbox!CommitError, Relays!CommitError,
        Outbox!SessionLost, Relays!SessionLost, Outbox!Stop, Relays!Stop
    <2>2. QED
      BY ONLY <2>1, <1>3 DEF Outbox!RelayFault, Relays!RelayFault
  <1>7. /\ Outbox!BrokerFails => Relays!BrokerFails
        /\ Outbox!BrokerRecovers => Relays!BrokerRecovers
    BY DEF Outbox!BrokerFails, Relays!BrokerFails, Outbox!BrokerRecovers,
      Relays!BrokerRecovers
  <1>8. QED
    BY <1>1, <1>2, <1>5, <1>6, <1>7

-----------------------------------------------------------------------------
(* What the components share: a row of the outbox per stored payment.      *)

\* A payment has a row in the outbox exactly if it has been counted there.
LEMMA RowsCounted ==
  ASSUME outbox \in Seq(Payment), NEW p \in Payment
  PROVE  p \in Relays!Rows <=> EventsOf[p] # 0
  <1> DEFINE S == {i \in DOMAIN outbox : outbox[i] = p}
  <1>1. DOMAIN outbox = 1 .. Len(outbox) /\ Len(outbox) \in Nat
    OBVIOUS
  <1>2. IsFiniteSet(S)
    <2>1. IsFiniteSet(1 .. Len(outbox)) /\ S \subseteq 1 .. Len(outbox)
      BY <1>1, FS_Interval
    <2>2. QED
      BY <2>1, FS_Subset
  <1>3. Cardinality(S) = 0 <=> S = {}
    BY <1>2, FS_EmptySet
  <1>4. p \in Relays!Rows <=> S # {}
    BY <1>1 DEF Relays!Rows
  <1>5. EventsOf[p] = Cardinality(S)
    BY DEF EventsOf
  <1>6. QED
    BY <1>3, <1>4, <1>5

\* A request still being served has stored nothing.
LEMMA NotStoredYet ==
  ASSUME outbox \in Seq(Payment), Requests!IntakeInv, NEW p \in Payment,
         requestAt[p] # "done"
  PROVE  p \notin Relays!Rows
  <1>1. ~Requests!Found(p)
    BY DEF Requests!IntakeInv, Requests!StoredByOwner, Requests!Found, Requests!At
  <1>2. EventsOf[p] = 0
    BY <1>1 DEF Requests!IntakeInv, Requests!EventIffPayment
  <1>3. QED
    BY <1>2, RowsCounted

\* The outbox only changes with the request that writes it.
LEMMA RelaysKeepOutbox ==
  ASSUME NEW a \in Process, Relays!Step(a) \/ Relays!RelayFault(a)
  PROVE  outbox' = outbox
  BY DEF Relays!Step, Relays!RelayFault, Relays!Start, Relays!LockBatch, Relays!Wake,
    Relays!Commit, Relays!PublishConfirmed, Relays!PublishUnreachable,
    Relays!PublishUnconfirmed, Relays!Advance, Relays!PollError, Relays!CommitError,
    Relays!SessionLost, Relays!Stop

\* Every step of the service is one of a request, or leaves requests alone.
LEMMA RequestsMove ==
  [ServiceNext]_serviceVars => [Requests!Next]_(Requests!vars)
  <1> SUFFICES ASSUME [ServiceNext]_serviceVars
               PROVE  Requests!Next \/ UNCHANGED Requests!vars
    OBVIOUS
  <1>1. ASSUME NEW p \in Payment, Serve(p) \/ RequestFails(p) PROVE Requests!Next
    <2>1. \/ Requests!Lookup(p) \/ Requests!Flush(p) \/ Requests!Commit(p)
          \/ Requests!Recheck(p) \/ Requests!Fail(p)
      BY <1>1, SameRequests DEF Serve, RequestFails
    <2>2. QED
      BY <2>1 DEF Requests!Next, Requests!Step
  <1>2. ASSUME UNCHANGED <<requests, outbox>> PROVE UNCHANGED Requests!vars
    BY <1>2 DEF requests, EventsOf, Requests!vars, Requests!store
  <1>3. ASSUME NEW a \in Process, RelayRuns(a) \/ RelayFails(a)
        PROVE  UNCHANGED <<requests, outbox>>
    BY <1>3, SameRelays, RelaysKeepOutbox DEF RelayRuns, RelayFails
  <1>4. ASSUME LinkFails \/ LinkRecovers PROVE UNCHANGED <<requests, outbox>>
    BY <1>4, SameRelays DEF LinkFails, LinkRecovers, Relays!BrokerFails,
      Relays!BrokerRecovers
  <1>5. ASSUME Receive \/ RetryDue \/ \E h \in Handler : HandlerRuns(h) \/ HandlerFails(h)
        PROVE  UNCHANGED <<requests, outbox>>
    BY <1>5 DEF Receive, RetryDue, HandlerRuns, HandlerFails
  <1>6. CASE UNCHANGED serviceVars
    BY <1>2, <1>6 DEF serviceVars
  <1>7. QED
    BY <1>1, <1>2, <1>3, <1>4, <1>5, <1>6 DEF ServiceNext

\* Every step of the service is one of the outbox and its relays, or leaves
\* them alone: a request writes a row its payment does not have yet.
LEMMA RelaysMove ==
  ASSUME outbox \in Seq(Payment), Requests!IntakeInv, [ServiceNext]_serviceVars
  PROVE  Relays!Next \/ UNCHANGED Relays!vars
  <1>1. ASSUME NEW p \in Payment, Serve(p) \/ RequestFails(p)
        PROVE  Relays!Next \/ UNCHANGED Relays!vars
    <2>1. UNCHANGED <<relays, events>>
      BY <1>1 DEF Serve, RequestFails
    <2>2. CASE outbox' = outbox
      BY <2>1, <2>2 DEF relays, Relays!vars, Relays!pass
    <2>3. CASE StorePayment(p)
      <3>1. requestAt[p] # "done"
        BY <1>1, <2>3, SameRequests DEF Serve, RequestFails, Requests!Lookup,
          Requests!Flush, Requests!Commit, Requests!Recheck, Requests!Fail, Requests!At
      <3>2. p \notin Relays!Rows
        BY <3>1, NotStoredYet
      <3>3. Relays!Insert(p)
        BY <2>1, <2>3, <3>2 DEF StorePayment, relays, Relays!Insert, Relays!pass,
          InsertAt, Relays!InsertAt
      <3>4. QED
        BY <3>3 DEF Relays!Next
    <2>4. QED
      BY <1>1, <2>2, <2>3 DEF Serve, RequestFails
  <1>2. ASSUME NEW a \in Process, RelayRuns(a) \/ RelayFails(a) PROVE Relays!Next
    BY <1>2, SameRelays DEF RelayRuns, RelayFails, Relays!Next
  <1>3. ASSUME LinkFails \/ LinkRecovers PROVE Relays!Next
    BY <1>3, SameRelays DEF LinkFails, LinkRecovers, Relays!Next
  <1>4. ASSUME Receive \/ RetryDue \/ \E h \in Handler : HandlerRuns(h) \/ HandlerFails(h)
        PROVE  UNCHANGED <<relays, outbox, events>>
    BY <1>4 DEF Receive, RetryDue, HandlerRuns, HandlerFails, Deliver, Expire, Step, Get,
      Charge, UpdateStatus, Commit, Reread, PostAccepted, PostFailed, PostRaises,
      HandleFailure, Ack, Reject, HandlerFault, DatabaseError, HandleFailureRaises,
      ChannelLost, Crash, world
  <1>5. ASSUME UNCHANGED <<relays, outbox, events>> PROVE UNCHANGED Relays!vars
    BY <1>5 DEF relays, Relays!vars, Relays!pass
  <1>6. CASE UNCHANGED serviceVars
    BY <1>5, <1>6 DEF serviceVars
  <1>7. QED
    BY <1>1, <1>2, <1>3, <1>4, <1>5, <1>6 DEF ServiceNext

-----------------------------------------------------------------------------
(* The consumer is in the environment it was specified in.                 *)

\* A row of the payments table and a row of the outbox are stored together.
StoredTogether == \A p \in Payment : rows[p] # NULL <=> p \in Relays!Rows

\* The consumer stores decisions on payments that exist, and no payments.
LEMMA ConsumerKeepsRows ==
  ASSUME TypeOK, OutcomeInv,
         \/ Expire
         \/ \E h \in Handler : Deliver(h) \/ Step(h) \/ HandlerFault(h)
  PROVE  \A p \in Payment : rows'[p] # NULL <=> rows[p] # NULL
  <1> USE ProcessAssumption
  <1>1. ASSUME NEW h \in Handler, Store(h), At(h, "commit")
        PROVE  \A p \in Payment : rows'[p] # NULL <=> rows[p] # NULL
    <2> DEFINE q == msg[h].payment
    <2>1. q \in Payment /\ view[h] \in Row
      BY <1>1, WorkingMessage DEF TypeOK, At
    <2>2. CASE lock[q] = h
      <3>1. rows[q] # NULL /\ rows' = [rows EXCEPT ![q] = view[h]]
        BY <1>1, <2>1, <2>2 DEF Store, OutcomeInv, LockedRowIsPending
      <3>2. QED
        BY <2>1, <3>1 DEF TypeOK
    <2>3. CASE lock[q] # h
      BY <1>1, <2>3 DEF Store
    <2>4. QED
      BY <2>2, <2>3
  <1>2. ASSUME NEW h \in Handler, DatabaseError(h) \/ Commit(h)
        PROVE  \A p \in Payment : rows'[p] # NULL <=> rows[p] # NULL
    BY <1>1, <1>2 DEF DatabaseError, Commit, Rollback
  <1>3. ASSUME NEW h \in Handler,
               \/ Deliver(h) \/ Get(h) \/ Charge(h) \/ UpdateStatus(h) \/ Reread(h)
               \/ PostAccepted(h) \/ PostFailed(h) \/ PostRaises(h) \/ HandleFailure(h)
               \/ Ack(h) \/ Reject(h) \/ HandleFailureRaises(h) \/ ChannelLost(h) \/ Crash(h)
        PROVE  rows' = rows
    BY <1>3 DEF Deliver, Get, Charge, UpdateStatus, Reread, PostAccepted, PostFailed,
      PostRaises, HandleFailure, Ack, Reject, HandleFailureRaises, ChannelLost, Crash,
      Rollback, db
  <1>4. ASSUME Expire PROVE rows' = rows
    BY <1>4 DEF Expire, db
  <1>5. QED
    BY <1>2, <1>3, <1>4 DEF Step, HandlerFault

\* A relay that publishes is the consumer's Publish, within its bound: a
\* fault of a relay is one publication more.
LEMMA RelayPublishes ==
  ASSUME TypeOK, StoredTogether, Relays!TypeOK, Relays!RelayInv,
         Relays!DuplicateNeedsFault', relayFaults' \in 0 .. MaxRelayFaults,
         NEW a \in Process, Relays!Step(a) \/ Relays!RelayFault(a), Routed,
         UNCHANGED <<consumer, rows>>
  PROVE  (\E p \in Payment : Publish(p)) \/ UNCHANGED vars
  <1>1. ASSUME NEW p \in Payment,
               Relays!PublishConfirmed(a, p) \/ Relays!PublishUnconfirmed(a, p)
        PROVE  Publish(p)
    <2>1. p \in Relays!Rows /\ events' = [events EXCEPT ![p] = @ + 1]
      BY <1>1 DEF Relays!PublishConfirmed, Relays!PublishUnconfirmed, Relays!Advance,
        Relays!IsNext, Relays!RelayInv, Relays!PassHoldsRows
    <2>2. events[p] \in Nat /\ events'[p] = events[p] + 1
          /\ \A q \in Payment \ {p} : events'[q] = events[q]
      BY <2>1 DEF TypeOK
    <2>3. new' = BagAdd(new, EventOf(p))
      BY <2>2 DEF Routed, Enqueue
    <2>4. events[p] < MaxPublications
      <3>1. events'[p] <= 1 + relayFaults'
        BY DEF Relays!DuplicateNeedsFault
      <3>2. QED
        BY <2>2, <3>1, ServiceAssumption
    <2>5. rows[p] # NULL
      BY <2>1 DEF StoredTogether
    <2>6. QED
      BY <2>1, <2>3, <2>4, <2>5 DEF Publish, consumer, db, local
  <1>2. ASSUME UNCHANGED events PROVE UNCHANGED vars
    BY <1>2 DEF Routed, consumer, vars, db, broker, world, local
  <1>3. \/ UNCHANGED events
        \/ \E p \in Payment : Relays!PublishConfirmed(a, p) \/ Relays!PublishUnconfirmed(a, p)
    BY DEF Relays!Step, Relays!RelayFault, Relays!Start, Relays!LockBatch, Relays!Wake,
      Relays!Commit, Relays!PublishUnreachable, Relays!PollError, Relays!CommitError,
      Relays!SessionLost, Relays!Stop
  <1>4. QED
    BY <1>1, <1>2, <1>3

\* Every step of the service is one of the consumer or its environment, and
\* keeps the two tables together.
LEMMA ConsumerMoves ==
  ASSUME TypeOK, OutcomeInv, StoredTogether, Requests!IntakeInv, Relays!TypeOK,
         Relays!RelayInv, Relays!DuplicateNeedsFault', Relays!TypeOK',
         [ServiceNext]_serviceVars
  PROVE  [Next]_vars /\ StoredTogether'
  <1>0. relayFaults' \in 0 .. MaxRelayFaults /\ outbox \in Seq(Payment)
    BY DEF Relays!TypeOK
  <1>1. ASSUME outbox' = outbox, \A p \in Payment : rows'[p] # NULL <=> rows[p] # NULL
        PROVE  StoredTogether'
    BY <1>1 DEF StoredTogether, Relays!Rows
  <1>2. ASSUME NEW p \in Payment, Serve(p) \/ RequestFails(p)
        PROVE  [Next]_vars /\ StoredTogether'
    <2>1. UNCHANGED <<relays, consumer, events, new>>
      BY <1>2 DEF Serve, RequestFails
    <2>2. CASE UNCHANGED <<rows, outbox>>
      <3>1. UNCHANGED vars
        BY <2>1, <2>2 DEF consumer, vars, db, broker, world
      <3>2. QED
        BY <1>1, <2>2, <3>1
    <2>3. CASE StorePayment(p)
      <3>1. requestAt[p] # "done"
        BY <1>2, <2>3, SameRequests DEF Serve, RequestFails, Requests!Lookup,
          Requests!Flush, Requests!Commit, Requests!Recheck, Requests!Fail, Requests!At
      <3>2. p \notin Relays!Rows
        BY <1>0, <3>1, NotStoredYet
      <3>3. Create(p)
        BY <2>1, <2>3, <3>2 DEF StorePayment, StoredTogether, Create, consumer, broker,
          world
      <3>4. Relays!Insert(p)
        BY <2>1, <2>3, <3>2 DEF StorePayment, relays, Relays!Insert, Relays!pass,
          InsertAt, Relays!InsertAt
      <3>5. Relays!Rows' = Relays!Rows \cup {p}
        BY <1>0, <3>4, SameAssumptions, Relays!InsertRows DEF Relays!RelayAssumption
      <3>6. NewPayment \in Row /\ NewPayment # NULL
        BY ValueTypes, ProcessAssumption
      <3>7. \A q \in Payment : rows'[q] = IF q = p THEN NewPayment ELSE rows[q]
        BY <2>3 DEF StorePayment, TypeOK
      <3>8. StoredTogether'
        BY <3>5, <3>6, <3>7 DEF StoredTogether
      <3>9. QED
        BY <3>3, <3>8 DEF Next
    <2>4. QED
      BY <1>2, <2>2, <2>3 DEF Serve, RequestFails
  <1>3. ASSUME NEW a \in Process, RelayRuns(a) \/ RelayFails(a)
        PROVE  [Next]_vars /\ StoredTogether'
    <2>1. /\ Relays!Step(a) \/ Relays!RelayFault(a)
          /\ Routed /\ UNCHANGED <<consumer, rows>>
      BY <1>3, SameRelays DEF RelayRuns, RelayFails
    <2>2. [Next]_vars
      BY <1>0, <2>1, RelayPublishes DEF Next
    <2>3. StoredTogether'
      BY <1>1, <2>1, RelaysKeepOutbox
    <2>4. QED
      BY <2>2, <2>3
  <1>4. ASSUME LinkFails \/ LinkRecovers PROVE [Next]_vars /\ StoredTogether'
    <2>1. UNCHANGED <<consumer, rows, new, outbox, events>>
      BY <1>4, SameRelays DEF LinkFails, LinkRecovers, Relays!BrokerFails,
        Relays!BrokerRecovers
    <2>2. UNCHANGED vars
      BY <2>1 DEF consumer, vars, db, broker, world
    <2>3. QED
      BY <1>1, <2>1, <2>2
  <1>5. ASSUME Receive \/ RetryDue \/ \E h \in Handler : HandlerRuns(h) \/ HandlerFails(h)
        PROVE  [Next]_vars /\ StoredTogether'
    <2>1. /\ outbox' = outbox
          /\ \/ Expire
             \/ \E h \in Handler : Deliver(h) \/ Step(h) \/ HandlerFault(h)
      BY <1>5 DEF Receive, RetryDue, HandlerRuns, HandlerFails
    <2>2. QED
      BY <1>1, <2>1, ConsumerKeepsRows DEF Next
  <1>6. CASE UNCHANGED serviceVars
    <2>1. UNCHANGED vars /\ outbox' = outbox
      BY <1>6 DEF serviceVars, consumer, vars, db, broker, world
    <2>2. rows' = rows
      BY <2>1 DEF vars, db
    <2>3. QED
      BY <1>1, <2>1, <2>2
  <1>7. QED
    BY <1>2, <1>3, <1>4, <1>5, <1>6 DEF ServiceNext

-----------------------------------------------------------------------------
(* The invariant of the service, from those of its components.             *)

ServiceInv ==
  /\ Requests!TypeOK /\ Requests!IntakeInv
  /\ Relays!TypeOK /\ Relays!RelayInv /\ Relays!DuplicateInv
  /\ TypeOK /\ OutcomeInv
  /\ StoredTogether

\* The components' lemmas, for this service.
LEMMA NextRequests ==
  Requests!TypeOK /\ Requests!IntakeInv /\ [Requests!Next]_(Requests!vars)
    => Requests!TypeOK' /\ Requests!IntakeInv'
  <1>1. Requests!TypeOK /\ [Requests!Next]_(Requests!vars) => Requests!TypeOK'
    BY SameAssumptions, Requests!NextTypeOK DEF Requests!CreateAssumption
  <1>2. Requests!TypeOK /\ Requests!IntakeInv /\ [Requests!Next]_(Requests!vars)
          => Requests!IntakeInv'
    BY SameAssumptions, Requests!NextIntake DEF Requests!CreateAssumption
  <1>3. QED
    BY <1>1, <1>2

LEMMA NextRelays ==
  Relays!TypeOK /\ Relays!RelayInv /\ Relays!DuplicateInv /\ [Relays!Next]_(Relays!vars)
    => Relays!TypeOK' /\ Relays!RelayInv' /\ Relays!DuplicateInv'
  <1>1. Relays!TypeOK /\ [Relays!Next]_(Relays!vars) => Relays!TypeOK'
    BY SameAssumptions, Relays!NextTypeOK DEF Relays!RelayAssumption
  <1>2. Relays!TypeOK /\ Relays!RelayInv /\ [Relays!Next]_(Relays!vars) => Relays!RelayInv'
    BY SameAssumptions, Relays!NextRelay DEF Relays!RelayAssumption
  <1>3. (/\ Relays!TypeOK /\ Relays!TypeOK' /\ Relays!RelayInv /\ Relays!DuplicateInv
         /\ [Relays!Next]_(Relays!vars))
          => Relays!DuplicateInv'
    BY SameAssumptions, Relays!NextDuplicate DEF Relays!RelayAssumption
  <1>4. QED
    BY <1>1, <1>2, <1>3

LEMMA PublishedAtMost == Relays!TypeOK /\ Relays!DuplicateInv => Relays!DuplicateNeedsFault
  BY SameAssumptions, Relays!PaidForBounds DEF Relays!RelayAssumption

LEMMA InitService == ServiceInit => Init /\ ServiceInv
  <1> SUFFICES ASSUME ServiceInit PROVE ServiceInv
    BY DEF ServiceInit
  <1>1. Init /\ Requests!Init /\ Relays!Init
    BY SameRequests, SameRelays DEF ServiceInit
  <1>2. Requests!TypeOK /\ Requests!IntakeInv
    BY <1>1, SameAssumptions, Requests!InitTypeOK, Requests!InitIntake
    DEF Requests!CreateAssumption
  <1>3. Relays!TypeOK /\ Relays!RelayInv /\ Relays!DuplicateInv
    BY <1>1, SameAssumptions, Relays!InitTypeOK, Relays!InitRelay, Relays!InitDuplicate
    DEF Relays!RelayAssumption
  <1>4. TypeOK /\ OutcomeInv
    BY <1>1, InitTypeOK, InitOutcome
  <1>5. StoredTogether
    BY <1>1 DEF StoredTogether, Init, Relays!Init, Relays!Rows
  <1>6. QED
    BY <1>2, <1>3, <1>4, <1>5 DEF ServiceInv

\* A step keeps the requests' invariant by itself, with it the relays', and
\* with both the consumer's.
LEMMA NextService == ServiceInv /\ [ServiceNext]_serviceVars => ServiceInv' /\ [Next]_vars
  <1>1. Relays!TypeOK' /\ Relays!DuplicateInv' => Relays!DuplicateNeedsFault'
    BY PublishedAtMost, PTL
  <1> SUFFICES ASSUME ServiceInv, [ServiceNext]_serviceVars
               PROVE  ServiceInv' /\ [Next]_vars
    OBVIOUS
  <1>2. Requests!TypeOK' /\ Requests!IntakeInv'
    BY RequestsMove, NextRequests DEF ServiceInv
  <1>3. outbox \in Seq(Payment)
    BY DEF ServiceInv, Relays!TypeOK
  <1>4. Relays!TypeOK' /\ Relays!RelayInv' /\ Relays!DuplicateInv'
    BY <1>3, RelaysMove, NextRelays DEF ServiceInv
  <1>5. [Next]_vars /\ StoredTogether'
    BY <1>1, <1>4, ConsumerMoves DEF ServiceInv
  <1>6. TypeOK' /\ OutcomeInv'
    BY <1>5, NextTypeOK, NextOutcome DEF ServiceInv
  <1>7. QED
    BY <1>2, <1>4, <1>5, <1>6 DEF ServiceInv

LEMMA ServiceCorrect == ServiceSpec => []ServiceInv
  BY InitService, NextService, PTL DEF ServiceSpec

\* Every variable of the service has its type, whatever requests, relays and
\* handlers do to the tables and queues they share.
THEOREM ServiceTypeCorrect == ServiceSpec => []ServiceTypeOK
  <1>1. ServiceInv => ServiceTypeOK
    BY SameRequests, SameRelays DEF ServiceInv, ServiceTypeOK
  <1>2. QED
    BY <1>1, ServiceCorrect, PTL

\* The intake and the relays are the environment ProcessPayment specifies:
\* events only of stored payments, and one more than needed per fault of a
\* relay at most.  What is proved of the consumer holds in the service.
THEOREM ServiceRefinesConsumer == ServiceSpec => IsConsumersEnvironment
  BY ServiceCorrect, InitService, NextService, PTL DEF ServiceSpec, IsConsumersEnvironment,
    Spec

\* Nor does the rest of the service disturb the requests and the relays: what
\* is proved of CreatePayment and OutboxRelay holds of their part of it, the
\* indivisible intake and the bound on duplicates included.
THEOREM ServiceRefinesItsParts == ServiceSpec => Requests!Spec /\ Relays!Spec
  <1>1. ServiceInit => Requests!Init /\ Relays!Init
    BY SameRequests, SameRelays DEF ServiceInit
  <1>2. ServiceInv /\ [ServiceNext]_serviceVars
          => [Requests!Next]_(Requests!vars) /\ [Relays!Next]_(Relays!vars)
    BY RequestsMove, RelaysMove DEF ServiceInv, Relays!TypeOK
  <1>3. QED
    BY <1>1, <1>2, ServiceCorrect, PTL DEF ServiceSpec, Requests!Spec, Relays!Spec

\* No accepted payment is lost between the tables, the relay and the queues:
\* what a client was told is accepted is stored, with its event; the event
\* is in the outbox until the broker has it; and the broker and the consumer
\* keep it until the client is notified.
THEOREM AcceptedNeverLost == ServiceSpec => []AcceptedInCustody
  <1>1. ServiceInv /\ EventInCustody => AcceptedInCustody
    <2> SUFFICES ASSUME ServiceInv, EventInCustody, NEW r \in Payment, NEW p \in Payment,
                        AcceptedAs(r, p), p \notin Outbox!Rows \ published
                 PROVE  InBroker(p) \/ Notified(p)
      BY DEF AcceptedInCustody
    <2>1. reply[r] = [code |-> 202, payment |-> p]
      BY DEF AcceptedAs, API!Accepted, API!Intake!Accepted
    <2>2. requestAt[r] = "done"
      <3>1. reply[r] # NULL
        BY <2>1, SameAssumptions DEF Requests!CreateAssumption, Requests!Intake!Reply,
          Requests!Intake!Accepted
      <3>2. QED
        BY <3>1 DEF ServiceInv, Requests!TypeOK, Requests!At
    <2>3. Requests!Found(p)
      <3>1. reply[r].code = 202 /\ reply[r].payment = p
        BY <2>1
      <3>2. Requests!Found(reply[r].payment)
        BY <2>2, <3>1 DEF ServiceInv, Requests!IntakeInv, Requests!AcceptedIsStored,
          Requests!At
      <3>3. QED
        BY <3>1, <3>2 DEF Requests!Found
    <2>4. p \in Relays!Rows
      <3>1. EventsOf[p] # 0
        BY <2>3 DEF ServiceInv, Requests!IntakeInv, Requests!EventIffPayment
      <3>2. QED
        BY <3>1, RowsCounted DEF ServiceInv, Relays!TypeOK
    <2>5. p \in published
      BY <2>4, SameRelays
    <2>6. events[p] > 0
      BY <2>5 DEF ServiceInv, Relays!RelayInv, Relays!PublishedWasSent
    <2>7. QED
      BY <2>6 DEF EventInCustody, InBroker
  <1>2. QED
    BY <1>1, ServiceCorrect, ServiceRefinesConsumer, NoEventLost, PTL
    DEF IsConsumersEnvironment

\* Idempotency end to end: the payments clients are notified of are stored
\* under the key of their own request, one per key, and a stored payment has
\* one outcome.
THEOREM OutcomesUnique == ServiceSpec => []OneOutcomePerKey
  <1>1. ServiceInv => OneOutcomePerKey
    <2> SUFFICES ASSUME ServiceInv, NEW v \in webhooks, NEW w \in webhooks,
                        key[v.payment] = key[w.payment]
                 PROVE  v = w
      BY DEF OneOutcomePerKey
    <2>1. ASSUME NEW x \in webhooks
          PROVE  /\ x.payment \in Payment
                 /\ payments[key[x.payment]].id = x.payment
                 /\ x = Outcome!WebhookPayload(x.payment, rows[x.payment])
      <3>1. x.payment \in Payment
        BY DEF ServiceInv, TypeOK, Notification
      <3>2. /\ IsFinal(x.payment)
            /\ x = Outcome!WebhookPayload(x.payment, rows[x.payment])
        BY DEF ServiceInv, OutcomeInv, NotificationsMatchStore
      <3>3. x.payment \in Relays!Rows
        BY <3>1, <3>2 DEF IsFinal, Outcome!IsFinal, Outcome!Exists, ServiceInv,
          StoredTogether
      <3>4. Requests!Found(x.payment)
        <4>1. EventsOf[x.payment] # 0
          BY <3>1, <3>3, RowsCounted DEF ServiceInv, Relays!TypeOK
        <4>2. QED
          BY <3>1, <4>1 DEF ServiceInv, Requests!IntakeInv, Requests!EventIffPayment
      <3>5. PICK k \in Key : payments[k] # NULL /\ payments[k].id = x.payment
        BY <3>4 DEF Requests!Found
      <3>6. key[x.payment] = k
        BY <3>5 DEF ServiceInv, Requests!IntakeInv, Requests!StoredByOwner
      <3>7. QED
        BY <3>1, <3>2, <3>5, <3>6
    <2>2. v.payment = w.payment
      BY <2>1
    <2>3. QED
      BY <2>1, <2>2
  <1>2. QED
    BY <1>1, ServiceCorrect, PTL
=============================================================================
