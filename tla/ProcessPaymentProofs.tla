----------------------- MODULE ProcessPaymentProofs -----------------------
(***************************************************************************)
(* Theorems about ProcessPayment, for any payments, handlers, attempts and *)
(* number of faults.                                                       *)
(***************************************************************************)
EXTENDS ProcessPayment, FiniteSetTheorems, TLAPS

-----------------------------------------------------------------------------
(* Bags of messages.                                                       *)

\* Adding an element keeps the type of a bag and extends its domain by it.
LEMMA BagAddLemma ==
  ASSUME NEW S, NEW b, IsBagOver(b, S), NEW x \in S
  PROVE  /\ IsBagOver(BagAdd(b, x), S)
         /\ DOMAIN BagAdd(b, x) = DOMAIN b \cup {x}
  BY DEF IsBagOver, BagAdd

\* Removing an element keeps the type of a bag and at most drops the element
\* from its domain.
LEMMA BagRemoveLemma ==
  ASSUME NEW S, NEW b, IsBagOver(b, S), NEW x \in DOMAIN b
  PROVE  /\ IsBagOver(BagRemove(b, x), S)
         /\ DOMAIN b \ {x} \subseteq DOMAIN BagRemove(b, x)
         /\ DOMAIN BagRemove(b, x) \subseteq DOMAIN b
  BY DEF IsBagOver, BagRemove

\* The empty bag holds nothing.
LEMMA EmptyBagLemma ==
  ASSUME NEW S
  PROVE  IsBagOver(EmptyBag, S) /\ DOMAIN EmptyBag = {}
  BY DEF IsBagOver, EmptyBag, SetToBag

-----------------------------------------------------------------------------
(* Type correctness.                                                       *)

\* A running handler works on a message of a payment.
LEMMA WorkingMessage ==
  ASSUME TypeOK, NEW h \in Handler, ~At(h, "idle")
  PROVE  /\ msg[h] \in Message
         /\ msg[h].payment \in Payment
         /\ msg[h].attempt \in Nat \ {0}
  BY DEF TypeOK, Message, At

\* The values the actions build have their types.
LEMMA ValueTypes ==
  /\ NewPayment \in Row
  /\ \A p \in Payment : EventOf(p) \in Message
  /\ \A m \in Message, n \in Nat \ {0} : Copy(m, n) \in Message
  /\ \A m \in Message : Copy(m, m.attempt) \in Message /\ Copy(m, m.attempt + 1) \in Message
  BY DEF NewPayment, Outcome!NewPayment, Row, Outcome!Row, Outcome!PaymentStatus,
         EventOf, Message, Copy

\* The initial state has its type.
LEMMA InitTypeOK == Init => TypeOK
  BY ProcessAssumption, EmptyBagLemma, ValueTypes
  DEF Init, TypeOK, At, Labels

\* What a client receives from a running handler is a notification.
LEMMA ReceivedType ==
  ASSUME TypeOK, NEW h \in Handler, ~At(h, "idle")
  PROVE  Received(h) \subseteq Notification
  BY WorkingMessage
  DEF Received, TypeOK, Notification, Outcome!WebhookPayload, Row, Outcome!Row

\* Ending an invocation keeps the types of the handlers' variables.
LEMMA FinishTypeOK ==
  ASSUME TypeOK, NEW h \in Handler, Finish(h)
  PROVE  /\ pc' \in [Handler -> Labels]
         /\ msg' \in [Handler -> Message \cup {NULL}]
         /\ \A g \in Handler : (msg[g] = NULL)' <=> At(g, "idle")'
         /\ owned' \subseteq {g \in Handler : ~At(g, "idle")'}
         /\ view' \in [Handler -> Row]
         /\ tries' \in [Handler -> Nat]
  BY ValueTypes DEF Finish, TypeOK, Goto, At, Labels

\* A rollback or a commit keeps the types of the tables.
LEMMA DatabaseTypeOK ==
  ASSUME TypeOK, NEW h \in Handler, Rollback(h) \/ Store(h)
  PROVE  /\ rows' \in [Payment -> Row \cup {NULL}]
         /\ lock' \in [Payment -> Handler \cup {NULL}]
  <1>1. CASE Rollback(h)
    BY <1>1 DEF TypeOK, Rollback
  <1>2. CASE Store(h)
    <2>1. view[h] \in Row
      BY DEF TypeOK
    <2>2. QED
      BY <1>2, <2>1 DEF TypeOK, Store
  <1>3. QED
    BY <1>1, <1>2

\* The retry policy puts well-formed messages into the queues.
LEMMA OnFailureTypeOK ==
  ASSUME TypeOK, NEW m \in Message, OnFailure(m)
  PROVE  IsBagOver(retry', Message) /\ IsBagOver(dlq', Message)
  <1>1. IsBagOver(BagAdd(retry, Copy(m, m.attempt + 1)), Message)
    BY BagAddLemma, ValueTypes DEF TypeOK
  <1>2. IsBagOver(BagAdd(dlq, Copy(m, m.attempt)), Message)
    BY BagAddLemma, ValueTypes DEF TypeOK
  <1>3. QED
    BY <1>1, <1>2 DEF TypeOK, OnFailure, ToRetry, ToDlq

\* So does the broker when it takes a delivery back.
LEMMA RequeueTypeOK ==
  ASSUME TypeOK, NEW h \in Handler, ~At(h, "idle"), Requeue(h)
  PROVE  IsBagOver(new', Message)
  BY BagAddLemma, WorkingMessage DEF TypeOK, Requeue

\* No action takes a variable out of its type.
LEMMA NextTypeOK == TypeOK /\ [Next]_vars => TypeOK'
  <1> SUFFICES ASSUME TypeOK, [Next]_vars PROVE TypeOK'
    OBVIOUS
  <1>1. ASSUME NEW p \in Payment, Create(p) PROVE TypeOK'
    BY <1>1, ValueTypes DEF Create, TypeOK, At, broker, local, world
  <1>2. ASSUME NEW p \in Payment, Publish(p) PROVE TypeOK'
    <2>1. IsBagOver(new', Message)
      BY <1>2, BagAddLemma, ValueTypes DEF Publish, TypeOK
    <2>2. events' \in [Payment -> Nat]
      BY <1>2 DEF Publish, TypeOK
    <2>3. QED
      BY <1>2, <2>1, <2>2 DEF Publish, TypeOK, At, db, local
  <1>3. ASSUME NEW h \in Handler, Deliver(h) PROVE TypeOK'
    <2> PICK m \in DOMAIN new : /\ new' = BagRemove(new, m)
                                /\ msg' = [msg EXCEPT ![h] = m]
      BY <1>3 DEF Deliver
    <2>1. m \in Message /\ m # NULL
      BY ProcessAssumption DEF TypeOK, IsBagOver
    <2>2. IsBagOver(new', Message)
      BY BagRemoveLemma DEF TypeOK
    <2>3. QED
      BY <1>3, <2>1, <2>2 DEF Deliver, TypeOK, At, Goto, Labels, db, world
  <1>4. ASSUME NEW h \in Handler, Get(h) PROVE TypeOK'
    <2>1. rows[msg[h].payment] \in Row \cup {NULL}
      BY <1>4, WorkingMessage DEF Get, TypeOK, At
    <2>2. view' \in [Handler -> Row]
      BY <1>4, <2>1 DEF Get, TypeOK
    <2>3. /\ pc' \in [Handler -> Labels]
          /\ \A g \in Handler : pc'[g] = "idle" <=> pc[g] = "idle"
      BY <1>4 DEF Get, TypeOK, At, Goto, Labels
    <2>4. QED
      BY <1>4, <2>2, <2>3 DEF Get, TypeOK, At, db, broker, world
  <1>5. ASSUME NEW h \in Handler, Charge(h) PROVE TypeOK'
    <2> DEFINE p == msg[h].payment
    <2>1. p \in Payment
      BY <1>5, WorkingMessage DEF Charge, At
    <2>2. charges[p] \in Seq(FinalStatus) /\ Len(charges[p]) + 1 \in Nat
      BY <2>1 DEF TypeOK
    <2>3. PICK s \in FinalStatus :
            /\ charges' = [charges EXCEPT ![p] = Append(@, s)]
            /\ IF view[h].status = "pending"
               THEN /\ view' = [view EXCEPT ![h] =
                         [status |-> s, processed_at |-> Len(charges[p]) + 1]]
                    /\ Goto(h, "update_status")
               ELSE Goto(h, "except") /\ UNCHANGED view
      BY <1>5 DEF Charge
    <2>4. charges' \in [Payment -> Seq(FinalStatus)]
      BY <2>1, <2>2, <2>3 DEF TypeOK
    <2>5. [status |-> s, processed_at |-> Len(charges[p]) + 1] \in Row
      BY <2>2 DEF Row, Outcome!Row, FinalStatus, Outcome!FinalStatus
    <2>6. view' \in [Handler -> Row]
      BY <2>3, <2>5 DEF TypeOK
    <2>7. /\ pc' \in [Handler -> Labels]
          /\ \A g \in Handler : pc'[g] = "idle" <=> pc[g] = "idle"
      <3>1. pc[h] = "charge" /\ pc \in [Handler -> Labels]
        BY <1>5 DEF Charge, At, TypeOK
      <3>2. \E l \in {"update_status", "except"} : pc' = [pc EXCEPT ![h] = l]
        BY <2>3 DEF Goto
      <3>3. QED
        BY <3>1, <3>2 DEF Labels
    <2>8. QED
      BY <1>5, <2>4, <2>6, <2>7 DEF Charge, TypeOK, At, db, broker
  <1>6. ASSUME NEW h \in Handler, UpdateStatus(h) PROVE TypeOK'
    <2>1. lock' \in [Payment -> Handler \cup {NULL}]
      BY <1>6 DEF UpdateStatus, TypeOK
    <2>2. QED
      BY <1>6, <2>1 DEF UpdateStatus, TypeOK, At, Goto, Labels, broker, local, world
  <1>7. ASSUME NEW h \in Handler, Commit(h) PROVE TypeOK'
    <2>1. rows' \in [Payment -> Row \cup {NULL}] /\ lock' \in [Payment -> Handler \cup {NULL}]
      BY <1>7 DEF Commit, Store, TypeOK
    <2>2. QED
      BY <1>7, <2>1 DEF Commit, TypeOK, At, Goto, Labels, broker, local, world
  <1>8. ASSUME NEW h \in Handler, Reread(h) PROVE TypeOK'
    <2>1. rows[msg[h].payment] \in Row \cup {NULL}
      BY <1>8, WorkingMessage DEF Reread, TypeOK, At
    <2>2. view' \in [Handler -> Row]
      BY <1>8, <2>1 DEF Reread, TypeOK
    <2>3. QED
      BY <1>8, <2>2 DEF Reread, TypeOK, At, Goto, Labels, db, broker, world
  <1>9. ASSUME NEW h \in Handler, PostAccepted(h) PROVE TypeOK'
    <2>1. webhooks' \subseteq Notification
      BY <1>9, ReceivedType DEF PostAccepted, TypeOK, At
    <2>2. QED
      BY <1>9, <2>1 DEF PostAccepted, TypeOK, At, Goto, Labels, db, broker, local
  <1>10. ASSUME NEW h \in Handler, PostFailed(h) PROVE TypeOK'
    <2>1. webhooks' \subseteq Notification
      BY <1>10, ReceivedType DEF PostFailed, TypeOK, At
    <2>2. tries' \in [Handler -> Nat]
      BY <1>10 DEF PostFailed, TypeOK
    <2>3. QED
      BY <1>10, <2>1, <2>2 DEF PostFailed, TypeOK, At, Goto, Labels, db, broker
  <1>10a. ASSUME NEW h \in Handler, PostRaises(h) PROVE TypeOK'
    BY <1>10a DEF PostRaises, TypeOK, At, Goto, Labels, db, broker, local, world
  <1>11. ASSUME NEW h \in Handler, HandleFailure(h) PROVE TypeOK'
    <2>1. IsBagOver(retry', Message) /\ IsBagOver(dlq', Message)
      BY <1>11, WorkingMessage, OnFailureTypeOK DEF HandleFailure, At
    <2>2. QED
      BY <1>11, <2>1 DEF HandleFailure, TypeOK, At, Goto, Labels, db, local, world
  <1>12. ASSUME NEW h \in Handler, HandleFailureRaises(h) PROVE TypeOK'
    <2>1. IsBagOver(retry', Message) /\ IsBagOver(dlq', Message)
      BY <1>12, WorkingMessage, OnFailureTypeOK DEF HandleFailureRaises, At, TypeOK
    <2>2. faults' \in 0 .. MaxFaults
      BY <1>12, ProcessAssumption DEF HandleFailureRaises, Fault, TypeOK
    <2>3. QED
      BY <1>12, <2>1, <2>2
      DEF HandleFailureRaises, TypeOK, At, Goto, Labels, db, local, world
  <1>13. ASSUME NEW h \in Handler, Ack(h) PROVE TypeOK'
    BY <1>13, FinishTypeOK DEF Ack, TypeOK, At, db, broker, world
  <1>14. ASSUME NEW h \in Handler, Reject(h) PROVE TypeOK'
    <2>1. IsBagOver(dlq', Message)
      BY <1>14, WorkingMessage, BagAddLemma, ValueTypes DEF Reject, TypeOK, At
    <2>2. QED
      BY <1>14, <2>1, FinishTypeOK DEF Reject, TypeOK, At, db, world
  <1>15. ASSUME Expire PROVE TypeOK'
    <2> PICK m \in DOMAIN retry : retry' = BagRemove(retry, m) /\ new' = BagAdd(new, m)
      BY <1>15 DEF Expire
    <2>1. IsBagOver(retry', Message) /\ IsBagOver(new', Message)
      <3>1. m \in Message
        BY DEF TypeOK, IsBagOver
      <3>2. QED
        BY <3>1, BagAddLemma, BagRemoveLemma DEF TypeOK
    <2>2. QED
      BY <1>15, <2>1 DEF Expire, TypeOK, At, db, local, world
  <1>16. ASSUME NEW h \in Handler, DatabaseError(h) PROVE TypeOK'
    <2>1. faults' \in 0 .. MaxFaults
      BY <1>16, ProcessAssumption DEF DatabaseError, Fault, TypeOK
    <2>2. QED
      BY <1>16, <2>1, DatabaseTypeOK
      DEF DatabaseError, TypeOK, At, Goto, Labels, broker, local, world
  <1>17. ASSUME NEW h \in Handler, ChannelLost(h) PROVE TypeOK'
    <2>1. faults' \in 0 .. MaxFaults
      BY <1>17, ProcessAssumption DEF ChannelLost, Fault, TypeOK
    <2>2. IsBagOver(new', Message)
      BY <1>17, RequeueTypeOK DEF ChannelLost, TypeOK, At
    <2>3. QED
      BY <1>17, <2>1, <2>2 DEF ChannelLost, TypeOK, At, db, world
  <1>18. ASSUME NEW h \in Handler, Crash(h) PROVE TypeOK'
    <2>1. faults' \in 0 .. MaxFaults
      BY <1>18, ProcessAssumption DEF Crash, Fault, TypeOK
    <2>2. IsBagOver(new', Message)
      BY <1>18, RequeueTypeOK DEF Crash, TypeOK, At
    <2>3. QED
      BY <1>18, <2>1, <2>2, FinishTypeOK, DatabaseTypeOK DEF Crash, TypeOK, At, world
  <1>19. CASE UNCHANGED vars
    BY <1>19 DEF vars, db, broker, local, world, TypeOK, At
  <1>20. QED
    BY <1>1, <1>2, <1>3, <1>4, <1>5, <1>6, <1>7, <1>8, <1>9, <1>10, <1>10a,
       <1>11, <1>12, <1>13, <1>14, <1>15, <1>16, <1>17, <1>18, <1>19
    DEF Next, Step, HandlerFault

\* Type correctness: in every reachable state, however many handlers run and
\* however often the infrastructure fails, every message in a queue carries a
\* payment and an attempt of at least 1, and exactly the running handlers
\* have a message.
THEOREM TypeCorrect == Spec => []TypeOK
  BY InitTypeOK, NextTypeOK, PTL DEF Spec

-----------------------------------------------------------------------------
(* The outcome: who may decide, who may notify, and what.                  *)

\* The inductive invariant behind the safety theorems.  What the clients see
\* (the last two conjuncts) depends on what every handler knows while it
\* waits and on who holds the row.
OutcomeInv ==
  /\ LockedRowIsPending
  /\ HandlersInformed
  /\ StoredOutcomeWasCharged
  /\ NotificationsMatchStore

\* Before the first delivery nothing was charged, stored or notified.
LEMMA InitOutcome == Init => OutcomeInv
  BY DEF Init, OutcomeInv, LockedRowIsPending, HandlersInformed,
         StoredOutcomeWasCharged, NotificationsMatchStore, At, IsFinal,
         Outcome!IsFinal, Outcome!Exists

\* An answer of the gateway is never forgotten: a later one is appended.
LEMMA ChargeKeepsAnswers ==
  ASSUME TypeOK, NEW h \in Handler, Charge(h), NEW p \in Payment,
         NEW row, WasCharged(p, row)
  PROVE  WasCharged(p, row)'
  BY WorkingMessage DEF Charge, WasCharged, TypeOK, At

\* A decision is stored by the handler that holds the row, in the row it
\* holds, and only there.
LEMMA StoreDecides ==
  ASSUME TypeOK, OutcomeInv, NEW h \in Handler, At(h, "commit"), Store(h)
  PROVE  /\ \A p \in Payment : rows'[p] # rows[p] =>
              /\ p = msg[h].payment /\ lock[p] = h
              /\ rows[p] # NULL /\ ~IsFinal(p)
              /\ rows'[p] = view[h] /\ WasCharged(p, view[h])
         /\ \A p \in Payment : lock'[p] = IF lock[p] = h THEN NULL ELSE lock[p]
         /\ lock[msg[h].payment] = h => rows'[msg[h].payment] = view[h]
  BY ProcessAssumption, WorkingMessage
  DEF OutcomeInv, LockedRowIsPending, HandlersInformed, HandlerInformed, Store,
      TypeOK, At

\* Committing a decision keeps the invariant, but for what the handler itself
\* knows afterwards.
LEMMA StoreKeepsOutcome ==
  ASSUME TypeOK, TypeOK', OutcomeInv, NEW h \in Handler, At(h, "commit"), Store(h),
         NEW label \in {"send", "reread", "except"}, Goto(h, label),
         UNCHANGED <<local, charges, webhooks>>
  PROVE  /\ LockedRowIsPending'
         /\ StoredOutcomeWasCharged'
         /\ NotificationsMatchStore'
         /\ \A g \in Handler \ {h} : ~At(g, "idle")' => HandlerInformed(g, msg[g].payment)'
  <1> USE ProcessAssumption, WorkingMessage, StoreDecides
  <1>1. \A p \in Payment : IsFinal(p) => IsFinal(p)' /\ rows'[p] = rows[p]
    BY DEF IsFinal, Outcome!IsFinal, Outcome!Exists, TypeOK
  <1>2. LockedRowIsPending'
    BY DEF OutcomeInv, LockedRowIsPending, TypeOK, At, Goto, local, IsFinal,
           Outcome!IsFinal, Outcome!Exists
  <1>3. StoredOutcomeWasCharged'
    BY DEF OutcomeInv, StoredOutcomeWasCharged, WasCharged, IsFinal,
           Outcome!IsFinal, Outcome!Exists
  <1>4. NotificationsMatchStore'
    <2> SUFFICES ASSUME NEW w \in webhooks
                 PROVE  /\ IsFinal(w.payment)'
                        /\ w = Outcome!WebhookPayload(w.payment, rows'[w.payment])
      BY DEF NotificationsMatchStore, Outcome!WebhookPayload
    <2>1. /\ w.payment \in Payment /\ IsFinal(w.payment)
          /\ w = Outcome!WebhookPayload(w.payment, rows[w.payment])
      BY DEF OutcomeInv, NotificationsMatchStore, TypeOK, Notification
    <2>2. QED
      BY <1>1, <2>1
  <1>5. ASSUME NEW g \in Handler \ {h}, ~At(g, "idle")'
        PROVE  HandlerInformed(g, msg[g].payment)'
    BY <1>1, <1>5 DEF OutcomeInv, HandlersInformed, HandlerInformed, WasCharged, TypeOK,
                At, Goto, local, IsFinal, Outcome!IsFinal, Outcome!Exists
  <1>6. QED
    BY <1>2, <1>3, <1>4, <1>5

\* A handler that has charged holds the answer it was given, and no answer
\* another handler holds is affected.
LEMMA ChargeInforms ==
  ASSUME TypeOK, HandlersInformed, NEW h \in Handler, Charge(h)
  PROVE  HandlersInformed'
  <1> DEFINE p == msg[h].payment
  <1>1. /\ At(h, "charge") /\ p \in Payment /\ rows[p] # NULL
        /\ UNCHANGED <<rows, lock, msg>>
        /\ charges[p] \in Seq(FinalStatus)
    BY WorkingMessage DEF Charge, At, db, HandlersInformed, HandlerInformed, TypeOK
  <1>2. PICK s \in FinalStatus :
          /\ charges' = [charges EXCEPT ![p] = Append(@, s)]
          /\ IF view[h].status = "pending"
             THEN /\ view' = [view EXCEPT ![h] =
                       [status |-> s, processed_at |-> Len(charges[p]) + 1]]
                  /\ Goto(h, "update_status")
             ELSE Goto(h, "except") /\ UNCHANGED view
    BY DEF Charge
  <1> SUFFICES ASSUME NEW g \in Handler, ~At(g, "idle")'
               PROVE  HandlerInformed(g, msg[g].payment)'
    BY DEF HandlersInformed
  <1>3. CASE g = h
    <2>1. CASE view[h].status = "pending"
      <3>1. /\ pc'[h] = "update_status"
            /\ view'[h] = [status |-> s, processed_at |-> Len(charges[p]) + 1]
        BY <1>2, <2>1 DEF Goto, TypeOK
      <3>2. charges'[p] = Append(charges[p], s)
        BY <1>1, <1>2 DEF TypeOK
      <3>3. WasCharged(p, view[h])'
        BY <1>1, <3>1, <3>2 DEF WasCharged
      <3>4. QED
        BY <1>1, <1>3, <3>1, <3>3 DEF HandlerInformed, At
    <2>2. CASE view[h].status # "pending"
      BY <1>1, <1>2, <1>3, <2>2 DEF Goto, At, HandlerInformed, TypeOK
    <2>3. QED
      BY <2>1, <2>2
  <1>4. CASE g # h
    <2>1. pc'[g] = pc[g] /\ view'[g] = view[g]
      BY <1>2, <1>4 DEF Goto, TypeOK
    <2>2. ~At(g, "idle") /\ HandlerInformed(g, msg[g].payment)
      BY <2>1 DEF HandlersInformed, At
    <2>3. pc[g] \in {"update_status", "commit"} => WasCharged(msg[g].payment, view[g])'
      <3> SUFFICES ASSUME pc[g] \in {"update_status", "commit"}
                   PROVE  WasCharged(msg[g].payment, view[g])'
        OBVIOUS
      <3>1. WasCharged(msg[g].payment, view[g]) /\ msg[g].payment \in Payment
        BY <2>2, WorkingMessage DEF HandlerInformed
      <3>2. \A q \in Payment : \A row : WasCharged(q, row) => WasCharged(q, row)'
        BY ChargeKeepsAnswers
      <3>3. QED
        BY <1>1, <2>1, <3>1, <3>2 DEF WasCharged
    <2>4. QED
      BY <1>1, <2>1, <2>2, <2>3
      DEF HandlerInformed, At, IsFinal, Outcome!IsFinal, Outcome!Exists
  <1>5. QED
    BY <1>3, <1>4

\* A commit decides with the answer the handler holds, or has lost to one.
LEMMA CommitKeepsOutcome ==
  ASSUME TypeOK, TypeOK', OutcomeInv, NEW h \in Handler, Commit(h)
  PROVE  OutcomeInv'
  <1> DEFINE p == msg[h].payment
  <1> DEFINE label == IF lock[p] = h THEN "send" ELSE "reread"
  <1>1. /\ At(h, "commit") /\ Store(h) /\ Goto(h, label)
        /\ UNCHANGED <<local, charges, webhooks>> /\ msg' = msg /\ view' = view
    BY DEF Commit, local, world
  <1>2. /\ LockedRowIsPending' /\ StoredOutcomeWasCharged' /\ NotificationsMatchStore'
        /\ \A g \in Handler \ {h} : ~At(g, "idle")' => HandlerInformed(g, msg[g].payment)'
    BY <1>1, StoreKeepsOutcome
  <1>3. p \in Payment /\ view[h] \in Row /\ pc'[h] = label
    BY <1>1, WorkingMessage DEF TypeOK, At, Goto
  <1>4. HandlerInformed(h, p)
    BY <1>1 DEF OutcomeInv, HandlersInformed, At
  <1>5. HandlerInformed(h, p)'
    <2>1. CASE lock[p] = h
      <3>1. rows'[p] = view[h]
        BY <1>1, <2>1, StoreDecides
      <3>2. view[h].status \in FinalStatus /\ view[h] # NULL
        <4>1. pc[h] = "commit"
          BY <1>1 DEF At
        <4>2. WasCharged(p, view[h])
          BY <1>4, <4>1 DEF HandlerInformed
        <4>3. view[h].status \in FinalStatus
          BY <4>2 DEF WasCharged
        <4>4. QED
          BY <1>3, <4>3, ProcessAssumption
      <3>3. IsFinal(p)'
        BY <1>1, <3>1, <3>2 DEF IsFinal, Outcome!IsFinal, Outcome!Exists, FinalStatus
      <3>4. QED
        BY <1>1, <1>3, <2>1, <3>1, <3>3 DEF HandlerInformed, At
    <2>2. CASE lock[p] # h
      <3>1. IsFinal(p) /\ rows' = rows
        <4>1. At(h, "commit") => IsFinal(p)
          BY <1>4, <2>2 DEF HandlerInformed
        <4>2. Store(h) => rows' = rows
          BY <2>2 DEF Store
        <4>3. QED
          BY <1>1, <4>1, <4>2
      <3>2. IsFinal(p)'
        BY <1>1, <3>1 DEF IsFinal, Outcome!IsFinal, Outcome!Exists
      <3>3. QED
        BY <1>1, <1>3, <2>2, <3>2 DEF HandlerInformed, At
    <2>3. QED
      BY <2>1, <2>2
  <1>6. HandlersInformed'
    BY <1>1, <1>2, <1>5 DEF HandlersInformed
  <1>7. QED
    BY <1>2, <1>6 DEF OutcomeInv

\* A handler that rolls back and gives up leaves its row to the others.
LEMMA RollbackKeepsOutcome ==
  ASSUME TypeOK, OutcomeInv, NEW h \in Handler, Rollback(h),
         NEW label \in {"idle", "except"}, Goto(h, label),
         \A g \in Handler \ {h} : msg'[g] = msg[g] /\ view'[g] = view[g],
         UNCHANGED <<charges, webhooks>>
  PROVE  OutcomeInv'
  <1>1. rows' = rows /\ \A g \in Handler : pc'[g] = IF g = h THEN label ELSE pc[g]
    BY DEF Rollback, Goto, TypeOK
  <1>2. \A p \in Payment :
          lock'[p] = IF lock[p] = h THEN NULL ELSE lock[p]
    BY DEF Rollback, OutcomeInv, LockedRowIsPending, TypeOK
  <1>3. /\ \A p \in Payment : IsFinal(p)' <=> IsFinal(p)
        /\ \A p, row : WasCharged(p, row)' <=> WasCharged(p, row)
    BY <1>1 DEF IsFinal, Outcome!IsFinal, Outcome!Exists, WasCharged
  <1>4. LockedRowIsPending'
    <2> SUFFICES ASSUME NEW p \in Payment, lock'[p] # NULL
                 PROVE  /\ At(lock[p], "commit")' /\ msg'[lock'[p]].payment = p
                        /\ rows'[p] # NULL /\ ~IsFinal(p)'
      BY DEF LockedRowIsPending
    <2>1. lock'[p] = lock[p] /\ lock[p] \in Handler \ {h}
      BY <1>2 DEF TypeOK
    <2>2. /\ At(lock[p], "commit") /\ msg[lock[p]].payment = p
          /\ rows[p] # NULL /\ ~IsFinal(p)
      BY <2>1 DEF OutcomeInv, LockedRowIsPending
    <2>3. QED
      BY <1>1, <1>3, <2>1, <2>2 DEF At
  <1>5. StoredOutcomeWasCharged'
    BY <1>1, <1>3 DEF OutcomeInv, StoredOutcomeWasCharged
  <1>6. NotificationsMatchStore'
    <2>1. \A w \in webhooks : w.payment \in Payment
      BY DEF TypeOK, Notification
    <2>2. QED
      BY <1>1, <1>3, <2>1
      DEF OutcomeInv, NotificationsMatchStore, Outcome!WebhookPayload
  <1>7. HandlersInformed'
    <2> SUFFICES ASSUME NEW g \in Handler, ~At(g, "idle")'
                 PROVE  HandlerInformed(g, msg[g].payment)'
      BY DEF HandlersInformed
    <2>1. CASE g = h
      BY <1>1, <2>1 DEF HandlerInformed, At
    <2>2. CASE g # h
      <3>1. pc'[g] = pc[g] /\ msg'[g] = msg[g] /\ view'[g] = view[g] /\ ~At(g, "idle")
        BY <1>1, <2>2 DEF At
      <3>2. HandlerInformed(g, msg[g].payment) /\ msg[g].payment \in Payment
        BY <3>1, WorkingMessage DEF OutcomeInv, HandlersInformed
      <3>3. lock'[msg[g].payment] # g => lock[msg[g].payment] # g
        BY SMTT(60), <1>2, <2>2, <3>2
      <3>4. QED
        BY <1>1, <1>3, <3>1, <3>2, <3>3 DEF HandlerInformed, At
    <2>3. QED
      BY <2>1, <2>2
  <1>8. QED
    BY <1>4, <1>5, <1>6, <1>7 DEF OutcomeInv

\* Every step keeps the invariant.
LEMMA NextOutcome == TypeOK /\ OutcomeInv /\ [Next]_vars => OutcomeInv'
  <1> SUFFICES ASSUME TypeOK, TypeOK', OutcomeInv, [Next]_vars PROVE OutcomeInv'
    BY NextTypeOK
  <1>1. ASSUME NEW h \in Handler, Charge(h) PROVE HandlersInformed'
    BY <1>1, ChargeInforms DEF OutcomeInv
  <1>2. ASSUME NEW h \in Handler, Commit(h) PROVE OutcomeInv'
    BY <1>2, CommitKeepsOutcome
  <1>3. ASSUME NEW h \in Handler, DatabaseError(h) PROVE OutcomeInv'
    <2>1. /\ Goto(h, "except") /\ UNCHANGED <<local, charges, webhooks>>
          /\ msg' = msg /\ view' = view
      BY <1>3 DEF DatabaseError, local, world
    <2>2. CASE Rollback(h)
      BY <2>1, <2>2, RollbackKeepsOutcome
    <2>3. CASE At(h, "commit") /\ Store(h)
      <3>1. /\ LockedRowIsPending' /\ StoredOutcomeWasCharged' /\ NotificationsMatchStore'
            /\ \A g \in Handler \ {h} :
                 ~At(g, "idle")' => HandlerInformed(g, msg[g].payment)'
        BY <2>1, <2>3, StoreKeepsOutcome
      <3>2. HandlerInformed(h, msg[h].payment)'
        BY <2>1 DEF HandlerInformed, At, Goto, TypeOK
      <3>3. QED
        BY <2>1, <3>1, <3>2 DEF OutcomeInv, HandlersInformed
    <2>4. QED
      BY <1>3, <2>2, <2>3 DEF DatabaseError
  <1>4. ASSUME NEW h \in Handler, Crash(h) PROVE OutcomeInv'
    <2>1. /\ Rollback(h) /\ Goto(h, "idle") /\ UNCHANGED <<charges, webhooks>>
          /\ \A g \in Handler \ {h} : msg'[g] = msg[g] /\ view'[g] = view[g]
      BY <1>4 DEF Crash, Finish, world, TypeOK
    <2>2. QED
      BY <2>1, RollbackKeepsOutcome
  <1> USE ProcessAssumption, WorkingMessage
  <1> USE DEF OutcomeInv, LockedRowIsPending, HandlersInformed, HandlerInformed,
        NotificationsMatchStore, StoredOutcomeWasCharged, WasCharged, IsFinal,
        Outcome!IsFinal, Outcome!Exists, At, Goto, TypeOK, db, broker, local, world
  <1>5. ASSUME NEW p \in Payment, Create(p) PROVE OutcomeInv'
    BY <1>5 DEF Create, NewPayment, Outcome!NewPayment, FinalStatus,
       Outcome!FinalStatus
  <1>6. ASSUME NEW p \in Payment, Publish(p) PROVE OutcomeInv'
    BY <1>6 DEF Publish
  <1>7. ASSUME NEW h \in Handler, Deliver(h) PROVE OutcomeInv'
    BY <1>7 DEF Deliver
  <1>8. ASSUME NEW h \in Handler, Get(h) PROVE OutcomeInv'
    BY SMTT(60), <1>8 DEF Get
  <1>9. ASSUME NEW h \in Handler, Charge(h) PROVE OutcomeInv'
    <2>1. LockedRowIsPending' /\ NotificationsMatchStore'
      BY <1>9 DEF Charge
    <2>2. StoredOutcomeWasCharged'
      BY SMTT(60), <1>9, ChargeKeepsAnswers DEF Charge
    <2>3. HandlersInformed'
      BY <1>9, <1>1
    <2>4. QED
      BY <2>1, <2>2, <2>3
  <1>10. ASSUME NEW h \in Handler, UpdateStatus(h) PROVE OutcomeInv'
    BY SMTT(60), <1>10 DEF UpdateStatus
  <1>11. ASSUME NEW h \in Handler, Reread(h) PROVE OutcomeInv'
    BY <1>11 DEF Reread
  <1>12. ASSUME NEW h \in Handler, PostAccepted(h) PROVE OutcomeInv'
    BY SMTT(60), <1>12 DEF PostAccepted, Received, Outcome!WebhookPayload
  <1>13. ASSUME NEW h \in Handler, PostFailed(h) PROVE OutcomeInv'
    <2>1. LockedRowIsPending' /\ HandlersInformed' /\ StoredOutcomeWasCharged'
      BY <1>13 DEF PostFailed
    <2>2. NotificationsMatchStore'
      <3>1. CASE webhooks' = webhooks
        BY <1>13, <3>1 DEF PostFailed
      <3>2. CASE webhooks' = Received(h)
        BY <1>13, <3>2 DEF PostFailed, Received, Outcome!WebhookPayload
      <3>3. QED
        BY <1>13, <3>1, <3>2 DEF PostFailed
    <2>3. QED
      BY <2>1, <2>2
  <1>13a. ASSUME NEW h \in Handler, PostRaises(h) PROVE OutcomeInv'
    BY <1>13a DEF PostRaises
  <1>14. ASSUME NEW h \in Handler, HandleFailure(h) PROVE OutcomeInv'
    BY <1>14 DEF HandleFailure
  <1>15. ASSUME NEW h \in Handler, HandleFailureRaises(h) PROVE OutcomeInv'
    BY <1>15 DEF HandleFailureRaises
  <1>16. ASSUME NEW h \in Handler, Ack(h) PROVE OutcomeInv'
    BY <1>16 DEF Ack, Finish
  <1>17. ASSUME NEW h \in Handler, Reject(h) PROVE OutcomeInv'
    BY <1>17 DEF Reject, Finish
  <1>18. ASSUME Expire PROVE OutcomeInv'
    BY <1>18 DEF Expire
  <1>19. ASSUME NEW h \in Handler, ChannelLost(h) PROVE OutcomeInv'
    BY <1>19 DEF ChannelLost
  <1>20. CASE UNCHANGED vars
    BY <1>20 DEF vars
  <1>21. QED
    BY <1>5, <1>6, <1>7, <1>8, <1>9, <1>10, <1>2, <1>11, <1>12, <1>13, <1>13a,
       <1>14, <1>15, <1>16, <1>17, <1>18, <1>3, <1>19, <1>4, <1>20
    DEF Next, Step, HandlerFault

\* Whatever the interleaving of handlers and faults, a client is only ever told
\* the status and timestamp the payments table holds, for good.
THEOREM NotificationsCorrect == Spec => []NotificationsMatchStore
  <1>1. OutcomeInv => NotificationsMatchStore
    BY DEF OutcomeInv
  <1>2. QED
    BY <1>1, InitOutcome, NextOutcome, TypeCorrect, PTL DEF Spec

\* The table only holds outcomes the gateway really gave for the payment.
THEOREM OutcomeWasCharged == Spec => []StoredOutcomeWasCharged
  <1>1. OutcomeInv => StoredOutcomeWasCharged
    BY DEF OutcomeInv
  <1>2. QED
    BY <1>1, InitOutcome, NextOutcome, TypeCorrect, PTL DEF Spec

\* Whatever a handler read before an await is still right when it acts on it.
THEOREM HandlersCorrect == Spec => []HandlersInformed
  <1>1. OutcomeInv => HandlersInformed
    BY DEF OutcomeInv
  <1>2. QED
    BY <1>1, InitOutcome, NextOutcome, TypeCorrect, PTL DEF Spec

\* Row locks are held only for an undecided payment by the handler that
\* decides it: no lost race, failure or crash leaves one behind.
THEOREM LocksCorrect == Spec => []LockedRowIsPending
  <1>1. OutcomeInv => LockedRowIsPending
    BY DEF OutcomeInv
  <1>2. QED
    BY <1>1, InitOutcome, NextOutcome, TypeCorrect, PTL DEF Spec

-----------------------------------------------------------------------------
(* Refinement of PaymentOutcome.                                           *)

\* A stored answer is a decision of the abstract specification.
LEMMA AnswerIsDecision ==
  ASSUME TypeOK, NEW p \in Payment, NEW row \in Row, WasCharged(p, row)
  PROVE  Outcome!IsDecision(row)
  BY DEF WasCharged, Outcome!IsDecision, Row, FinalStatus, TypeOK

\* Storing an answer decides the payment or changes nothing.
LEMMA StoreRefines ==
  ASSUME TypeOK, TypeOK', OutcomeInv, NEW h \in Handler, At(h, "commit"), Store(h),
         UNCHANGED webhooks
  PROVE  Outcome!Next \/ UNCHANGED <<rows, webhooks>>
  <1> DEFINE p == msg[h].payment
  <1>1. p \in Payment /\ view[h] \in Row
    BY WorkingMessage DEF TypeOK, At
  <1>2. CASE rows'[p] = rows[p]
    <2>1. rows' = rows
      BY <1>1, <1>2 DEF Store, TypeOK
    <2>2. QED
      BY <2>1
  <1>3. CASE rows'[p] # rows[p]
    <2>1. /\ rows[p] # NULL /\ ~IsFinal(p)
          /\ rows'[p] = view[h] /\ WasCharged(p, view[h])
      BY <1>1, <1>3, StoreDecides
    <2>2. Outcome!IsDecision(rows'[p])
      BY <1>1, <2>1, AnswerIsDecision
    <2>3. rows' = [rows EXCEPT ![p] = rows'[p]]
      BY <1>1, <2>1, <1>3 DEF Store, TypeOK
    <2>4. Outcome!Decide(p)
      BY <1>1, <2>1, <2>2, <2>3 DEF Outcome!Decide, IsFinal, Outcome!Exists
    <2>5. QED
      BY <1>1, <2>4 DEF Outcome!Next
  <1>4. QED
    BY <1>2, <1>3

\* What a sending handler notifies is the decision stored.
LEMMA SendRefines ==
  ASSUME TypeOK, OutcomeInv, NEW h \in Handler, At(h, "send"),
         UNCHANGED rows, webhooks' \in {webhooks, Received(h)}
  PROVE  Outcome!Next \/ UNCHANGED <<rows, webhooks>>
  <1> DEFINE p == msg[h].payment
  <1>1. p \in Payment
    BY WorkingMessage DEF At
  <1>2. IsFinal(p) /\ view[h] = rows[p]
    BY DEF OutcomeInv, HandlersInformed, HandlerInformed, At
  <1>3. CASE webhooks' = webhooks
    BY <1>3
  <1>4. CASE webhooks' = Received(h)
    <2>1. Outcome!Notify(p)
      BY <1>2, <1>4 DEF Outcome!Notify, Received, IsFinal
    <2>2. QED
      BY <1>1, <2>1 DEF Outcome!Next
  <1>5. QED
    BY <1>3, <1>4

\* Only the COMMIT of a first outcome decides, and only a webhook call the
\* client received notifies: every other step of a handler is a stutter.
LEMMA StepRefines ==
  ASSUME TypeOK, TypeOK', OutcomeInv, [Next]_vars
  PROVE  Outcome!Next \/ UNCHANGED <<rows, webhooks>>
  <1>1. ASSUME NEW p \in Payment, Create(p)
        PROVE  Outcome!Next \/ UNCHANGED <<rows, webhooks>>
    <2>1. Outcome!Accept(p)
      BY <1>1 DEF Create, world, Outcome!Accept, Outcome!Exists, NewPayment
    <2>2. QED
      BY <2>1 DEF Outcome!Next
  <1>2. ASSUME NEW h \in Handler, Commit(h)
        PROVE  Outcome!Next \/ UNCHANGED <<rows, webhooks>>
    BY <1>2, StoreRefines DEF Commit, world
  <1>3. ASSUME NEW h \in Handler, DatabaseError(h)
        PROVE  Outcome!Next \/ UNCHANGED <<rows, webhooks>>
    BY <1>3, StoreRefines DEF DatabaseError, Rollback, world
  <1>4. ASSUME NEW h \in Handler, PostAccepted(h) \/ PostFailed(h)
        PROVE  Outcome!Next \/ UNCHANGED <<rows, webhooks>>
    BY <1>4, SendRefines DEF PostAccepted, PostFailed, db
  <1>5. ASSUME NEW h \in Handler,
               \/ Deliver(h) \/ Get(h) \/ Charge(h) \/ UpdateStatus(h) \/ Reread(h)
               \/ PostRaises(h) \/ HandleFailure(h) \/ HandleFailureRaises(h) \/ Ack(h) \/ Reject(h)
               \/ ChannelLost(h) \/ Crash(h)
        PROVE  UNCHANGED <<rows, webhooks>>
    BY <1>5 DEF Deliver, Get, Charge, UpdateStatus, Reread, PostRaises, HandleFailure,
      HandleFailureRaises, Ack, Reject, ChannelLost, Crash, Rollback, db, world
  <1>6. ASSUME \/ \E p \in Payment : Publish(p)
               \/ Expire
               \/ UNCHANGED vars
        PROVE  UNCHANGED <<rows, webhooks>>
    BY <1>6 DEF Publish, Expire, vars, db, world
  <1>7. QED
    BY <1>1, <1>2, <1>3, <1>4, <1>5, <1>6 DEF Next, Step, HandlerFault

\* The consumer keeps the promise made to the client: a payment is accepted
\* once and decided once, and only the stored decision is ever notified,
\* whatever the broker redelivers and wherever a handler fails.
THEOREM RefinesOutcome == Spec => ImplementsOutcome
  <1>1. Init => Outcome!Init
    BY DEF Init, Outcome!Init
  <1>2. TypeOK /\ TypeOK' /\ OutcomeInv /\ [Next]_vars
          => [Outcome!Next]_<<rows, webhooks>>
    BY StepRefines
  <1>3. QED
    BY <1>1, <1>2, InitOutcome, NextOutcome, TypeCorrect, PTL
    DEF Spec, ImplementsOutcome, Outcome!Spec

-----------------------------------------------------------------------------
(* Custody of the events.                                                  *)

\* Who keeps p's event: its client was told, a queue has it, or the broker
\* still owns a delivery whose handler has not passed it on.
Kept(p) ==
  \/ Notified(p) \/ Queued(new, p) \/ Queued(retry, p) \/ Queued(dlq, p)
  \/ \E h \in owned : Works(h, p) /\ ~At(h, "ack")

\* A message added to a bag is queued there, and nothing else leaves the bag.
LEMMA AddQueues ==
  ASSUME NEW S, NEW b, IsBagOver(b, S), NEW x \in S, NEW p
  PROVE  Queued(BagAdd(b, x), p) <=> Queued(b, p) \/ x.payment = p
  <1>1. DOMAIN BagAdd(b, x) = DOMAIN b \cup {x}
    BY BagAddLemma
  <1>2. QED
    BY ONLY <1>1 DEF Queued

\* A message removed from a bag takes only its own payment's event away.
LEMMA RemoveUnqueues ==
  ASSUME NEW S, NEW b, IsBagOver(b, S), NEW x \in DOMAIN b, NEW p, Queued(b, p)
  PROVE  Queued(BagRemove(b, x), p) \/ x.payment = p
  BY BagRemoveLemma DEF Queued

\* The retry policy queues the event of the message it handles.
LEMMA FailureQueues ==
  ASSUME TypeOK, NEW m \in Message, OnFailure(m), NEW p
  PROVE  /\ Queued(retry, p) => Queued(retry', p)
         /\ Queued(dlq, p) => Queued(dlq', p)
         /\ m.payment = p => Queued(retry', p) \/ Queued(dlq', p)
  <1>0. IsBagOver(retry, Message) /\ IsBagOver(dlq, Message)
    BY DEF TypeOK
  <1> DEFINE next == Copy(m, m.attempt + 1)
             dead == Copy(m, m.attempt)
  <1>1. next \in Message /\ next.payment = m.payment
    BY ValueTypes DEF Copy
  <1>2. dead \in Message /\ dead.payment = m.payment
    BY ValueTypes DEF Copy
  <1> HIDE DEF next, dead
  <1>3. Queued(BagAdd(retry, next), p) <=> Queued(retry, p) \/ m.payment = p
    BY ONLY <1>0, <1>1, AddQueues
  <1>4. Queued(BagAdd(dlq, dead), p) <=> Queued(dlq, p) \/ m.payment = p
    BY ONLY <1>0, <1>2, AddQueues
  <1>5. \/ retry' = BagAdd(retry, next) /\ dlq' = dlq
        \/ retry' = retry /\ dlq' = BagAdd(dlq, dead)
    BY DEF OnFailure, ToRetry, ToDlq, next, dead
  <1>6. QED
    BY <1>3, <1>4, <1>5

\* No step loses the event of a payment.
LEMMA NextKept ==
  ASSUME TypeOK, TypeOK', [Next]_vars, NEW p \in Payment, Kept(p)
  PROVE  Kept(p)'
  <1> USE WorkingMessage DEF Kept, Works, Notified, At, Goto
  <1>1. ASSUME NEW q \in Payment, Create(q) PROVE Kept(p)'
    BY <1>1 DEF Create, broker, local, world
  <1>2. ASSUME NEW q \in Payment, Publish(q) PROVE Kept(p)'
    <2>1. Queued(new, p) => Queued(new', p)
      BY <1>2, AddQueues, ValueTypes DEF Publish, TypeOK
    <2>2. QED
      BY <1>2, <2>1 DEF Publish, local
  <1>3. ASSUME NEW h \in Handler, Deliver(h) PROVE Kept(p)'
    <2> PICK m \in DOMAIN new : /\ new' = BagRemove(new, m)
                                /\ msg' = [msg EXCEPT ![h] = m]
      BY <1>3 DEF Deliver
    <2>1. Queued(new, p) => Queued(new', p) \/ m.payment = p
      BY RemoveUnqueues DEF TypeOK
    <2>2. h \in owned' /\ msg'[h] = m /\ pc'[h] = "get"
      BY <1>3 DEF Deliver, TypeOK
    <2>3. \A g \in owned : g # h /\ pc'[g] = pc[g] /\ msg'[g] = msg[g] /\ g \in owned'
      BY <1>3 DEF Deliver, TypeOK
    <2>4. QED
      BY <1>3, <2>1, <2>2, <2>3 DEF Deliver, world
  <1>4. ASSUME NEW h \in Handler,
               \/ Get(h) \/ Charge(h) \/ UpdateStatus(h) \/ Commit(h) \/ Reread(h)
               \/ PostRaises(h)
        PROVE  Kept(p)'
    BY SMTT(60), <1>4
    DEF Get, Charge, UpdateStatus, Commit, Reread, PostRaises, TypeOK, broker, local, world
  <1>5. ASSUME NEW h \in Handler, PostAccepted(h) PROVE Kept(p)'
    <2>1. CASE msg[h].payment = p
      <3>1. Outcome!WebhookPayload(msg[h].payment, view[h]).payment = p
        BY <2>1 DEF Outcome!WebhookPayload
      <3>2. Outcome!WebhookPayload(msg[h].payment, view[h]) \in webhooks'
        BY <1>5 DEF PostAccepted, Received
      <3>3. QED
        BY <3>1, <3>2
    <2>2. CASE msg[h].payment # p
      BY <1>5, <2>2 DEF PostAccepted, Received, TypeOK, broker, local
    <2>3. QED
      BY <2>1, <2>2
  <1>6. ASSUME NEW h \in Handler, PostFailed(h) PROVE Kept(p)'
    BY <1>6 DEF PostFailed, Received, TypeOK, broker
  <1>7. ASSUME NEW h \in Handler, HandleFailure(h) PROVE Kept(p)'
    <2>1. /\ Queued(retry, p) => Queued(retry', p)
          /\ Queued(dlq, p) => Queued(dlq', p)
          /\ msg[h].payment = p => Queued(retry', p) \/ Queued(dlq', p)
      BY <1>7, FailureQueues DEF HandleFailure
    <2>2. QED
      BY <1>7, <2>1 DEF HandleFailure, TypeOK, local, world
  <1>8. ASSUME NEW h \in Handler, HandleFailureRaises(h) PROVE Kept(p)'
    <2>1. /\ Queued(retry, p) => Queued(retry', p)
          /\ Queued(dlq, p) => Queued(dlq', p)
      BY <1>8, FailureQueues DEF HandleFailureRaises
    <2>2. QED
      BY <1>8, <2>1 DEF HandleFailureRaises, TypeOK, local, world
  <1>9. ASSUME NEW h \in Handler, Ack(h) PROVE Kept(p)'
    BY <1>9 DEF Ack, Finish, TypeOK, broker, world
  <1>10. ASSUME NEW h \in Handler, Reject(h) PROVE Kept(p)'
    <2>1. /\ Queued(dlq, p) => Queued(dlq', p)
          /\ h \in owned /\ msg[h].payment = p => Queued(dlq', p)
      <3>1. msg[h] \in Message /\ IsBagOver(dlq, Message)
        BY <1>10 DEF Reject, TypeOK
      <3>2. Queued(BagAdd(dlq, msg[h]), p) <=> Queued(dlq, p) \/ msg[h].payment = p
        BY ONLY <3>1, AddQueues
      <3>3. QED
        BY <1>10, <3>2 DEF Reject
    <2>2. QED
      BY <1>10, <2>1 DEF Reject, Finish, TypeOK, world
  <1>11. ASSUME Expire PROVE Kept(p)'
    <2> PICK m \in DOMAIN retry : retry' = BagRemove(retry, m) /\ new' = BagAdd(new, m)
      BY <1>11 DEF Expire
    <2>1. m \in Message
      BY DEF TypeOK, IsBagOver
    <2>2. /\ Queued(new', p) <=> Queued(new, p) \/ m.payment = p
          /\ Queued(retry, p) => Queued(retry', p) \/ m.payment = p
      BY <2>1, AddQueues, RemoveUnqueues DEF TypeOK
    <2>3. QED
      BY <1>11, <2>2 DEF Expire, local, world
  <1>12. ASSUME NEW h \in Handler, DatabaseError(h) PROVE Kept(p)'
    BY <1>12 DEF DatabaseError, TypeOK, broker, local, world
  <1>13. ASSUME NEW h \in Handler, ~At(h, "idle"), Requeue(h)
         PROVE  /\ Queued(new, p) => Queued(new', p)
                /\ h \in owned /\ msg[h].payment = p => Queued(new', p)
    BY <1>13, AddQueues DEF Requeue, TypeOK
  <1>14. ASSUME NEW h \in Handler, ChannelLost(h) PROVE Kept(p)'
    <2>1. ~At(h, "idle")
      BY <1>14 DEF ChannelLost, TypeOK
    <2>2. QED
      BY <1>13, <1>14, <2>1 DEF ChannelLost, TypeOK, world
  <1>15. ASSUME NEW h \in Handler, Crash(h) PROVE Kept(p)'
    BY <1>13, <1>15 DEF Crash, Finish, TypeOK, world
  <1>16. CASE UNCHANGED vars
    BY <1>16 DEF vars, broker, local, world
  <1>17. QED
    BY <1>1, <1>2, <1>3, <1>4, <1>5, <1>6, <1>7, <1>8, <1>9, <1>10, <1>11, <1>12,
       <1>14, <1>15, <1>16 DEF Next, Step, HandlerFault

\* Publishing puts a payment's event into custody, and no other step counts
\* as a publication.
LEMMA PublishKeeps ==
  ASSUME TypeOK, [Next]_vars, NEW p \in Payment, events[p] = 0, events'[p] > 0
  PROVE  Kept(p)'
  <1>1. ASSUME NEW q \in Payment, Publish(q), q = p PROVE Kept(p)'
    <2>1. EventOf(p) \in Message /\ EventOf(p).payment = p
      BY ValueTypes DEF EventOf
    <2>2. QED
      BY <1>1, <2>1, AddQueues DEF Publish, Kept, TypeOK
  <1>2. ASSUME NEW q \in Payment, Publish(q), q # p PROVE FALSE
    BY <1>2 DEF Publish, TypeOK
  <1>3. ASSUME \/ \E q \in Payment : Create(q)
               \/ Expire
               \/ UNCHANGED vars
        PROVE  events' = events
    BY <1>3 DEF Create, Expire, vars, world
  <1>4. ASSUME NEW h \in Handler, Deliver(h) \/ Step(h)
        PROVE  events' = events
    BY <1>4 DEF Deliver, Step, Get, Charge, UpdateStatus, Commit, Reread, PostAccepted,
      PostFailed, PostRaises, HandleFailure, Ack, Reject, world
  <1>5. ASSUME NEW h \in Handler, HandlerFault(h)
        PROVE  events' = events
    BY <1>5 DEF HandlerFault, HandleFailureRaises, DatabaseError, ChannelLost, Crash, world
  <1>6. QED
    BY <1>1, <1>2, <1>3, <1>4, <1>5 DEF Next

\* A published event is never lost, for any number of handlers, crashes,
\* redeliveries and failed retry publications: acknowledging last and passing
\* on first always leaves somebody responsible for it.
THEOREM NoEventLost == Spec => []EventInCustody
  <1>1. Init => EventInCustody
    BY DEF Init, EventInCustody
  <1>2. TypeOK /\ TypeOK' /\ EventInCustody /\ [Next]_vars => EventInCustody'
    <2> SUFFICES ASSUME TypeOK, TypeOK', EventInCustody, [Next]_vars,
                        NEW p \in Payment, events'[p] > 0
                 PROVE  Kept(p)'
      BY DEF EventInCustody, Kept
    <2>1. CASE events[p] = 0
      BY <2>1, PublishKeeps
    <2>2. CASE events[p] # 0
      <3>1. events[p] > 0
        BY <2>2 DEF TypeOK
      <3>2. Kept(p)
        BY <3>1 DEF EventInCustody, Kept
      <3>3. QED
        BY <3>2, NextKept
    <2>3. QED
      BY <2>1, <2>2
  <1>3. QED
    BY <1>1, <1>2, TypeCorrect, PTL DEF Spec

-----------------------------------------------------------------------------
(* Counting copies.                                                        *)

\* The numbered copies are the pairs of a message and a number up to its
\* multiplicity.
LEMMA InNumbered ==
  ASSUME NEW b, NEW S
  PROVE  \A c : c \in Numbered(b, S) <=> \E m \in S : \E i \in 1 .. b[m] : c = <<m, i>>
  BY DEF Numbered

LEMMA InCopies ==
  ASSUME NEW b, NEW p
  PROVE  \A c : c \in Copies(b, p) <=>
           \E m \in DOMAIN b : m.payment = p /\ \E i \in 1 .. b[m] : c = <<m, i>>
  BY InNumbered DEF Copies

\* A queue to which a message is added holds one copy more of the messages of
\* any kind that it belongs to.
LEMMA AddNumbered ==
  ASSUME NEW S, NEW b, IsBagOver(b, S), NEW x \in S, NEW P,
         IsFiniteSet(Numbered(b, DOMAIN b \cap P))
  PROVE  LET old == Numbered(b, DOMAIN b \cap P)
             now == Numbered(BagAdd(b, x), DOMAIN BagAdd(b, x) \cap P)
         IN  /\ IsFiniteSet(now) /\ Cardinality(old) \in Nat
             /\ Cardinality(now) = IF x \in P THEN Cardinality(old) + 1 ELSE Cardinality(old)
  <1> DEFINE c == BagAdd(b, x)
             n == c[x]
             old == Numbered(b, DOMAIN b \cap P)
             now == Numbered(c, DOMAIN c \cap P)
  <1>1. /\ DOMAIN c = DOMAIN b \cup {x}
        /\ \A m \in DOMAIN b \ {x} : c[m] = b[m]
        /\ n \in Nat \ {0}
        /\ x \in DOMAIN b => b[x] \in Nat \ {0} /\ n = b[x] + 1
        /\ x \notin DOMAIN b => n = 1
    <2>1. CASE x \in DOMAIN b
      <3>1. c = [e \in DOMAIN b |-> IF e = x THEN b[e] + 1 ELSE b[e]]
        BY <2>1 DEF BagAdd
      <3>2. b[x] \in Nat \ {0}
        BY <2>1 DEF IsBagOver
      <3>3. QED
        BY SMTT(60), <2>1, <3>1, <3>2
    <2>2. CASE x \notin DOMAIN b
      BY <2>2 DEF BagAdd
    <2>3. QED
      BY <2>1, <2>2
  <1> HIDE DEF c
  <1>2. Cardinality(old) \in Nat
    BY FS_CardinalityType
  <1>3. CASE x \in P
    <2>1. now = old \cup {<<x, n>>}
      <3> SUFFICES ASSUME NEW t
                   PROVE  t \in now <=> t \in old \/ t = <<x, n>>
        OBVIOUS
      <3>1. ASSUME t \in now PROVE t \in old \/ t = <<x, n>>
        <4> PICK m \in DOMAIN c \cap P : \E i \in 1 .. c[m] : t = <<m, i>>
          BY <3>1, InNumbered
        <4> PICK i \in 1 .. c[m] : t = <<m, i>>
          OBVIOUS
        <4>1. CASE m # x
          BY <1>1, <4>1, InNumbered
        <4>2. CASE m = x /\ i = n
          BY <4>2
        <4>3. CASE m = x /\ i # n
          <5>1. x \in DOMAIN b /\ i \in 1 .. b[x]
            BY <1>1, <4>3
          <5>2. QED
            BY <4>3, <5>1, InNumbered
        <4>4. QED
          BY <4>1, <4>2, <4>3
      <3>2. ASSUME t \in old PROVE t \in now
        <4> PICK m \in DOMAIN b \cap P : \E i \in 1 .. b[m] : t = <<m, i>>
          BY <3>2, InNumbered
        <4> PICK i \in 1 .. b[m] : t = <<m, i>>
          OBVIOUS
        <4>1. m \in DOMAIN c /\ i \in 1 .. c[m]
          BY <1>1
        <4>2. QED
          BY <4>1, InNumbered
      <3>3. <<x, n>> \in now
        <4>1. x \in DOMAIN c /\ n \in 1 .. c[x]
          BY <1>1
        <4>2. QED
          BY <1>3, <4>1, InNumbered
      <3>4. QED
        BY <3>1, <3>2, <3>3
    <2>2. <<x, n>> \notin old
      <3> SUFFICES ASSUME NEW m \in DOMAIN b \cap P, NEW i \in 1 .. b[m], <<x, n>> = <<m, i>>
                   PROVE  FALSE
        BY InNumbered
      <3>1. m = x /\ i = n
        OBVIOUS
      <3>2. QED
        BY <1>1, <3>1
    <2> HIDE DEF old, now
    <2>3. IsFiniteSet(now) /\ Cardinality(now) = Cardinality(old) + 1
      BY <2>1, <2>2, FS_AddElement DEF old
    <2>4. QED
      BY <1>2, <1>3, <2>3 DEF old, now, c
  <1>4. CASE x \notin P
    <2>1. now = old
      <3> SUFFICES ASSUME NEW t PROVE t \in now <=> t \in old
        OBVIOUS
      <3>1. \A m \in DOMAIN c \cap P : m \in DOMAIN b /\ c[m] = b[m]
        BY <1>1, <1>4
      <3>2. \A m \in DOMAIN b \cap P : m \in DOMAIN c /\ c[m] = b[m]
        BY <1>1, <1>4
      <3>3. ASSUME t \in now PROVE t \in old
        <4> PICK m \in DOMAIN c \cap P : \E i \in 1 .. c[m] : t = <<m, i>>
          BY <3>3, InNumbered
        <4>1. QED
          BY <3>1, InNumbered
      <3>4. ASSUME t \in old PROVE t \in now
        <4> PICK m \in DOMAIN b \cap P : \E i \in 1 .. b[m] : t = <<m, i>>
          BY <3>4, InNumbered
        <4>1. QED
          BY <3>2, InNumbered
      <3>5. QED
        BY <3>3, <3>4
    <2>2. QED
      BY <1>2, <1>4, <2>1 DEF c
  <1>5. QED
    BY <1>2, <1>3, <1>4

\* So it holds one copy more of its event.
LEMMA AddCopies ==
  ASSUME NEW S, NEW b, IsBagOver(b, S), NEW x \in S, NEW p, IsFiniteSet(Copies(b, p))
  PROVE  /\ IsFiniteSet(Copies(BagAdd(b, x), p))
         /\ CopiesOf(b, p) \in Nat
         /\ CopiesOf(BagAdd(b, x), p)
              = IF x.payment = p THEN CopiesOf(b, p) + 1 ELSE CopiesOf(b, p)
  <1> DEFINE c == BagAdd(b, x)
             P == {m \in S : m.payment = p}
  <1>1. DOMAIN b \subseteq S /\ DOMAIN c \subseteq S
    BY BagAddLemma DEF IsBagOver
  <1>2. /\ {m \in DOMAIN b : m.payment = p} = DOMAIN b \cap P
        /\ {m \in DOMAIN c : m.payment = p} = DOMAIN c \cap P
        /\ x \in P <=> x.payment = p
    BY <1>1
  <1> HIDE DEF P
  <1>3. /\ Copies(b, p) = Numbered(b, DOMAIN b \cap P)
        /\ Copies(c, p) = Numbered(c, DOMAIN c \cap P)
    BY <1>2 DEF Copies
  <1>4. IsFiniteSet(Numbered(b, DOMAIN b \cap P))
    BY <1>3
  <1>5. /\ IsFiniteSet(Numbered(c, DOMAIN c \cap P))
        /\ Cardinality(Numbered(b, DOMAIN b \cap P)) \in Nat
        /\ Cardinality(Numbered(c, DOMAIN c \cap P))
             = IF x \in P THEN Cardinality(Numbered(b, DOMAIN b \cap P)) + 1
                          ELSE Cardinality(Numbered(b, DOMAIN b \cap P))
    BY ONLY <1>4, IsBagOver(b, S), x \in S, AddNumbered
  <1> HIDE DEF c
  <1>6. /\ IsFiniteSet(Copies(c, p)) /\ Cardinality(Copies(b, p)) \in Nat
        /\ Cardinality(Copies(c, p)) = IF x.payment = p THEN Cardinality(Copies(b, p)) + 1
                                                        ELSE Cardinality(Copies(b, p))
    BY ONLY <1>2, <1>3, <1>5
  <1>7. QED
    BY ONLY <1>6 DEF CopiesOf, c

\* A queue from which a message is taken holds one copy less of its event.
LEMMA RemoveCopies ==
  ASSUME NEW S, NEW b, IsBagOver(b, S), NEW x \in DOMAIN b, NEW p, IsFiniteSet(Copies(b, p))
  PROVE  /\ IsFiniteSet(Copies(BagRemove(b, x), p))
         /\ CopiesOf(BagRemove(b, x), p) \in Nat
         /\ CopiesOf(b, p) = IF x.payment = p THEN CopiesOf(BagRemove(b, x), p) + 1
                                              ELSE CopiesOf(BagRemove(b, x), p)
  <1> DEFINE c == BagRemove(b, x)
             n == b[x]
  <1>1. /\ DOMAIN c \subseteq DOMAIN b
        /\ DOMAIN b \ {x} \subseteq DOMAIN c
        /\ \A m \in DOMAIN b \ {x} : c[m] = b[m]
        /\ n \in Nat \ {0}
        /\ x \in DOMAIN c => c[x] = n - 1
        /\ x \notin DOMAIN c => n = 1
    <2>1. n \in Nat \ {0}
      BY DEF IsBagOver
    <2>2. CASE n = 1
      BY <2>1, <2>2 DEF BagRemove
    <2>3. CASE n # 1
      <3>1. c = [e \in DOMAIN b |-> IF e = x THEN b[e] - 1 ELSE b[e]]
        BY <2>3 DEF BagRemove
      <3>2. QED
        BY <2>1, <3>1
    <2>4. QED
      BY <2>2, <2>3
  <1> HIDE DEF c
  <1>2. CASE x.payment = p
    <2>1. Copies(c, p) = Copies(b, p) \ {<<x, n>>}
      <3> SUFFICES ASSUME NEW t
                   PROVE  t \in Copies(c, p) <=> t \in Copies(b, p) /\ t # <<x, n>>
        OBVIOUS
      <3>1. ASSUME t \in Copies(c, p) PROVE t \in Copies(b, p) /\ t # <<x, n>>
        <4> PICK m \in DOMAIN c : m.payment = p /\ \E i \in 1 .. c[m] : t = <<m, i>>
          BY <3>1, InCopies
        <4> PICK i \in 1 .. c[m] : t = <<m, i>>
          OBVIOUS
        <4>1. m \in DOMAIN b /\ i \in 1 .. b[m] /\ ~(m = x /\ i = n)
          BY <1>1
        <4>2. QED
          BY <4>1, InCopies
      <3>2. ASSUME t \in Copies(b, p), t # <<x, n>> PROVE t \in Copies(c, p)
        <4> PICK m \in DOMAIN b : m.payment = p /\ \E i \in 1 .. b[m] : t = <<m, i>>
          BY <3>2, InCopies
        <4> PICK i \in 1 .. b[m] : t = <<m, i>>
          OBVIOUS
        <4>1. m # x \/ i # n
          BY <3>2
        <4>2. m \in DOMAIN c /\ i \in 1 .. c[m]
          BY <1>1, <4>1
        <4>3. QED
          BY <4>2, InCopies
      <3>3. QED
        BY <3>1, <3>2
    <2>2. <<x, n>> \in Copies(b, p)
      <3>1. n \in 1 .. b[x]
        BY <1>1
      <3>2. QED
        BY <1>2, <3>1, InCopies
    <2>3. /\ IsFiniteSet(Copies(c, p))
          /\ Cardinality(Copies(c, p)) = Cardinality(Copies(b, p)) - 1
      BY <2>1, <2>2, FS_RemoveElement
    <2>4. Cardinality(Copies(b, p)) \in Nat /\ Cardinality(Copies(c, p)) \in Nat
      BY <2>3, FS_CardinalityType
    <2>5. CopiesOf(c, p) \in Nat /\ CopiesOf(b, p) = CopiesOf(c, p) + 1
      BY <2>3, <2>4 DEF CopiesOf
    <2>6. QED
      BY <1>2, <2>3, <2>5 DEF c
  <1>3. CASE x.payment # p
    <2>1. Copies(c, p) = Copies(b, p)
      <3> SUFFICES ASSUME NEW t PROVE t \in Copies(c, p) <=> t \in Copies(b, p)
        OBVIOUS
      <3>1. \A m \in DOMAIN c : m.payment = p => m \in DOMAIN b /\ c[m] = b[m]
        BY <1>1, <1>3
      <3>2. \A m \in DOMAIN b : m.payment = p => m \in DOMAIN c /\ c[m] = b[m]
        BY <1>1, <1>3
      <3>3. ASSUME t \in Copies(c, p) PROVE t \in Copies(b, p)
        <4> PICK m \in DOMAIN c : m.payment = p /\ \E i \in 1 .. c[m] : t = <<m, i>>
          BY <3>3, InCopies
        <4>1. QED
          BY <3>1, InCopies
      <3>4. ASSUME t \in Copies(b, p) PROVE t \in Copies(c, p)
        <4> PICK m \in DOMAIN b : m.payment = p /\ \E i \in 1 .. b[m] : t = <<m, i>>
          BY <3>4, InCopies
        <4>1. QED
          BY <3>2, InCopies
      <3>5. QED
        BY <3>3, <3>4
    <2>2. QED
      BY <1>3, <2>1, FS_CardinalityType DEF CopiesOf, c
  <1>4. QED
    BY <1>2, <1>3

\* An empty queue holds no copy.
LEMMA NoCopies ==
  ASSUME NEW p
  PROVE  IsFiniteSet(Copies(EmptyBag, p)) /\ CopiesOf(EmptyBag, p) = 0
  <1>1. Copies(EmptyBag, p) = {}
    BY EmptyBagLemma, InCopies
  <1>2. QED
    BY <1>1, FS_EmptySet DEF CopiesOf

\* If a set of handlers loses at most h, its cardinality drops by one at most;
\* if it gains at most h, it grows by one at most.
LEMMA OneMember ==
  ASSUME NEW A, NEW B, NEW h, IsFiniteSet(A), A \ {h} = B \ {h}
  PROVE  /\ IsFiniteSet(B)
         /\ Cardinality(A) \in Nat /\ Cardinality(B) \in Nat
         /\ h \in A /\ h \notin B => Cardinality(A) = Cardinality(B) + 1
         /\ h \notin A /\ h \in B => Cardinality(B) = Cardinality(A) + 1
         /\ (h \in A <=> h \in B) => Cardinality(A) = Cardinality(B)
  <1> DEFINE C == A \ {h}
  <1>1. /\ IsFiniteSet(C)
        /\ Cardinality(C) = IF h \in A THEN Cardinality(A) - 1 ELSE Cardinality(A)
    BY FS_RemoveElement
  <1>2. Cardinality(A) \in Nat /\ Cardinality(C) \in Nat
    BY <1>1, FS_CardinalityType
  <1>3. CASE h \in B
    <2>1. B = C \cup {h} /\ h \notin C
      BY <1>3
    <2>2. IsFiniteSet(B) /\ Cardinality(B) = Cardinality(C) + 1
      BY <1>1, <2>1, FS_AddElement
    <2> HIDE DEF C
    <2>3. QED
      BY <1>1, <1>2, <1>3, <2>2
  <1>4. CASE h \notin B
    <2>1. B = C
      BY <1>4
    <2> HIDE DEF C
    <2>2. QED
      BY <1>1, <1>2, <1>4, <2>1
  <1>5. QED
    BY <1>3, <1>4

\* The invocations running.
Busy == {h \in Handler : ~At(h, "idle")}

\* The handlers whose delivery still stands for a copy of the event of p.
Holds(h, p) ==
  /\ Works(h, p) /\ ~At(h, "ack")
  /\ At(h, "reject") => h \in owned
Holders(p) == {h \in Handler : Holds(h, p)}

\* The handlers that may still ask the gateway for p, once it is decided and
\* before.
Charging(p) == {h \in Handler : Works(h, p) /\ At(h, "charge")}
MayCharge(h, p) == Works(h, p) /\ pc[h] \in {"get", "charge", "except"}
Chargers(p) == {h \in Handler : MayCharge(h, p)}

\* There are finitely many copies of an event and invocations at a time.
FiniteInv ==
  /\ IsFiniteSet(Busy)
  /\ \A p \in Payment : /\ IsFiniteSet(Copies(new, p))
                        /\ IsFiniteSet(Copies(retry, p))
                        /\ IsFiniteSet(Copies(dlq, p))

\* Every step adds or removes at most one copy in each queue.
LEMMA QueuesChange ==
  ASSUME TypeOK, [Next]_vars
  PROVE  /\ \/ new' = new \/ \E m \in Message : new' = BagAdd(new, m)
            \/ \E m \in DOMAIN new : new' = BagRemove(new, m)
         /\ \/ retry' = retry \/ \E m \in Message : retry' = BagAdd(retry, m)
            \/ \E m \in DOMAIN retry : retry' = BagRemove(retry, m)
         /\ dlq' = dlq \/ \E d \in Message : dlq' = BagAdd(dlq, d)
  <1> USE WorkingMessage, ValueTypes
  <1>1. ASSUME NEW p \in Payment, Create(p) \/ Publish(p)
        PROVE  /\ new' = new \/ \E m \in Message : new' = BagAdd(new, m)
               /\ retry' = retry /\ dlq' = dlq
    BY <1>1 DEF Create, Publish, broker
  <1>2. ASSUME NEW h \in Handler, Deliver(h)
        PROVE  /\ \E m \in DOMAIN new : new' = BagRemove(new, m)
               /\ retry' = retry /\ dlq' = dlq
    BY <1>2 DEF Deliver
  <1>3. ASSUME NEW h \in Handler,
               \/ Get(h) \/ Charge(h) \/ UpdateStatus(h) \/ Commit(h) \/ Reread(h)
               \/ PostAccepted(h) \/ PostFailed(h) \/ PostRaises(h) \/ Ack(h)
               \/ DatabaseError(h)
        PROVE  UNCHANGED <<new, retry, dlq>>
    BY <1>3 DEF Get, Charge, UpdateStatus, Commit, Reread, PostAccepted, PostFailed,
      PostRaises, Ack, DatabaseError, broker
  <1>4. ASSUME NEW h \in Handler, HandleFailure(h) \/ HandleFailureRaises(h)
        PROVE  /\ new' = new
               /\ retry' = retry \/ \E m \in Message : retry' = BagAdd(retry, m)
               /\ dlq' = dlq \/ \E d \in Message : dlq' = BagAdd(dlq, d)
    <2>1. msg[h] \in Message
      BY <1>4 DEF HandleFailure, HandleFailureRaises, At
    <2>2. new' = new /\ (OnFailure(msg[h]) \/ UNCHANGED <<retry, dlq>>)
      BY <1>4 DEF HandleFailure, HandleFailureRaises
    <2>3. QED
      BY <2>1, <2>2 DEF OnFailure, ToRetry, ToDlq
  <1>5. ASSUME NEW h \in Handler, Reject(h)
        PROVE  /\ new' = new /\ retry' = retry
               /\ dlq' = dlq \/ \E d \in Message : dlq' = BagAdd(dlq, d)
    BY <1>5 DEF Reject, At
  <1>6. ASSUME Expire
        PROVE  /\ \E m \in Message : new' = BagAdd(new, m)
               /\ \E m \in DOMAIN retry : retry' = BagRemove(retry, m)
               /\ dlq' = dlq
    BY <1>6 DEF Expire, TypeOK, IsBagOver
  <1>7. ASSUME NEW h \in Handler, ChannelLost(h) \/ Crash(h)
        PROVE  /\ new' = new \/ \E m \in Message : new' = BagAdd(new, m)
               /\ retry' = retry /\ dlq' = dlq
    <2>1. ~At(h, "idle")
      BY <1>7 DEF ChannelLost, Crash, TypeOK
    <2>2. QED
      BY <1>7, <2>1 DEF ChannelLost, Crash, Requeue
  <1>8. CASE UNCHANGED vars
    BY <1>8 DEF vars, broker
  <1>9. QED
    BY <1>1, <1>2, <1>3, <1>4, <1>5, <1>6, <1>7, <1>8 DEF Next, Step, HandlerFault

\* A step of the handler h leaves the other handlers as they are.
Others(h) ==
  \A g \in Handler \ {h} :
    /\ pc'[g] = pc[g] /\ msg'[g] = msg[g] /\ view'[g] = view[g]
    /\ g \in owned' <=> g \in owned

LEMMA OthersUntouched ==
  ASSUME TypeOK, NEW h \in Handler, Deliver(h) \/ Step(h) \/ HandlerFault(h)
  PROVE  Others(h)
  <1>1. CASE Deliver(h)
    BY <1>1 DEF Deliver, Others, Goto, TypeOK
  <1>2. CASE Get(h) \/ Charge(h) \/ UpdateStatus(h) \/ Commit(h) \/ Reread(h)
    BY <1>2 DEF Get, Charge, UpdateStatus, Commit, Reread, Others, Goto, TypeOK, local
  <1>3. CASE PostAccepted(h) \/ PostFailed(h) \/ PostRaises(h) \/ HandleFailure(h)
    BY <1>3 DEF PostAccepted, PostFailed, PostRaises, HandleFailure, Others, Goto,
      TypeOK, local
  <1>4. CASE Ack(h) \/ Reject(h) \/ Crash(h)
    BY <1>4 DEF Ack, Reject, Crash, Finish, Others, Goto, TypeOK
  <1>5. CASE HandleFailureRaises(h) \/ DatabaseError(h) \/ ChannelLost(h)
    BY <1>5 DEF HandleFailureRaises, DatabaseError, ChannelLost, Others, Goto, TypeOK, local
  <1>6. QED
    BY <1>1, <1>2, <1>3, <1>4, <1>5 DEF Step, HandlerFault

\* So the copies and the invocations stay finitely many.
LEMMA NextFinite ==
  ASSUME TypeOK, FiniteInv, [Next]_vars
  PROVE  FiniteInv'
  <1>1. \/ \E h \in Handler : Others(h)
        \/ pc' = pc
    <2>1. ASSUME NEW h \in Handler, Deliver(h) \/ Step(h) \/ HandlerFault(h)
          PROVE  Others(h)
      BY <2>1, OthersUntouched
    <2>2. ASSUME \E p \in Payment : Create(p) \/ Publish(p)
          PROVE  pc' = pc
      BY <2>2 DEF Create, Publish
    <2>3. CASE Expire \/ UNCHANGED vars
      BY <2>3 DEF Expire, vars
    <2>4. QED
      BY <2>1, <2>2, <2>3 DEF Next
  <1>2. IsFiniteSet(Busy')
    <2>1. CASE pc' = pc
      BY <2>1 DEF FiniteInv, Busy, At
    <2>2. ASSUME NEW h \in Handler, Others(h) PROVE IsFiniteSet(Busy')
      <3> DEFINE S == Busy  T == Busy'
      <3>1. S \ {h} = T \ {h} /\ IsFiniteSet(S)
        BY <2>2 DEF Others, Busy, At, FiniteInv
      <3> HIDE DEF S, T
      <3>2. IsFiniteSet(T)
        BY <3>1, OneMember
      <3>3. QED
        BY <3>2 DEF T
    <2>3. QED
      BY <1>1, <2>1, <2>2
  <1>3. ASSUME NEW p \in Payment
        PROVE  /\ IsFiniteSet(Copies(new', p))
               /\ IsFiniteSet(Copies(retry', p))
               /\ IsFiniteSet(Copies(dlq', p))
    <2>1. /\ IsBagOver(new, Message) /\ IsBagOver(retry, Message) /\ IsBagOver(dlq, Message)
          /\ IsFiniteSet(Copies(new, p)) /\ IsFiniteSet(Copies(retry, p))
          /\ IsFiniteSet(Copies(dlq, p))
      BY DEF TypeOK, FiniteInv
    <2>2. IsFiniteSet(Copies(new', p))
      BY <2>1, QueuesChange, AddCopies, RemoveCopies
    <2>3. IsFiniteSet(Copies(retry', p))
      BY <2>1, QueuesChange, AddCopies, RemoveCopies
    <2>4. IsFiniteSet(Copies(dlq', p))
      BY <2>1, QueuesChange, AddCopies
    <2>5. QED
      BY <2>2, <2>3, <2>4
  <1>4. QED
    BY <1>2, <1>3 DEF FiniteInv

\* The sets of handlers that count are finite, and a step of h changes their
\* size by what becomes of h.
LEMMA HandlersCount ==
  ASSUME FiniteInv, NEW p
  PROVE  /\ IsFiniteSet(Holders(p)) /\ Cardinality(Holders(p)) \in Nat
         /\ IsFiniteSet(Chargers(p)) /\ Cardinality(Chargers(p)) \in Nat
         /\ IsFiniteSet(Charging(p)) /\ Cardinality(Charging(p)) \in Nat
         /\ Cardinality(Charging(p)) <= Cardinality(Chargers(p))
  <1>1. /\ Holders(p) \subseteq Busy /\ Chargers(p) \subseteq Busy
        /\ Charging(p) \subseteq Chargers(p)
    BY DEF Holders, Holds, Chargers, MayCharge, Charging, Works, Busy, At
  <1>2. IsFiniteSet(Holders(p)) /\ IsFiniteSet(Chargers(p))
    BY <1>1, FS_Subset DEF FiniteInv
  <1>3. IsFiniteSet(Charging(p)) /\ Cardinality(Charging(p)) <= Cardinality(Chargers(p))
    BY <1>1, <1>2, FS_Subset
  <1>4. QED
    BY <1>2, <1>3, FS_CardinalityType

LEMMA HoldersMove ==
  ASSUME FiniteInv, NEW h \in Handler, Others(h), NEW p
  PROVE  LET m == Cardinality(Holders(p))  n == Cardinality(Holders(p)')
         IN  /\ m \in Nat /\ n \in Nat
             /\ Holds(h, p) /\ ~Holds(h, p)' => m = n + 1
             /\ ~Holds(h, p) /\ Holds(h, p)' => n = m + 1
             /\ (Holds(h, p) <=> Holds(h, p)') => n = m
  <1> DEFINE S == Holders(p)  T == Holders(p)'
  <1>1. /\ IsFiniteSet(S) /\ S \ {h} = T \ {h}
        /\ h \in S <=> Holds(h, p)
        /\ h \in T <=> Holds(h, p)'
    BY HandlersCount DEF Others, Holders, Holds, Works, At
  <1> HIDE DEF S, T
  <1>2. /\ Cardinality(S) \in Nat /\ Cardinality(T) \in Nat
        /\ h \in S /\ h \notin T => Cardinality(S) = Cardinality(T) + 1
        /\ h \notin S /\ h \in T => Cardinality(T) = Cardinality(S) + 1
        /\ (h \in S <=> h \in T) => Cardinality(S) = Cardinality(T)
    BY <1>1, OneMember
  <1>3. QED
    BY <1>1, <1>2 DEF S, T

LEMMA ChargersMove ==
  ASSUME FiniteInv, NEW h \in Handler, Others(h), NEW p
  PROVE  LET m == Cardinality(Chargers(p))  n == Cardinality(Chargers(p)')
         IN  /\ m \in Nat /\ n \in Nat
             /\ MayCharge(h, p) /\ ~MayCharge(h, p)' => m = n + 1
             /\ ~MayCharge(h, p) /\ MayCharge(h, p)' => n = m + 1
             /\ (MayCharge(h, p) <=> MayCharge(h, p)') => n = m
  <1> DEFINE S == Chargers(p)  T == Chargers(p)'
  <1>1. /\ IsFiniteSet(S) /\ S \ {h} = T \ {h}
        /\ h \in S <=> MayCharge(h, p)
        /\ h \in T <=> MayCharge(h, p)'
    BY HandlersCount DEF Others, Chargers, MayCharge, Works, At
  <1> HIDE DEF S, T
  <1>2. /\ Cardinality(S) \in Nat /\ Cardinality(T) \in Nat
        /\ h \in S /\ h \notin T => Cardinality(S) = Cardinality(T) + 1
        /\ h \notin S /\ h \in T => Cardinality(T) = Cardinality(S) + 1
        /\ (h \in S <=> h \in T) => Cardinality(S) = Cardinality(T)
    BY <1>1, OneMember
  <1>3. QED
    BY <1>1, <1>2 DEF S, T

LEMMA ChargingMove ==
  ASSUME FiniteInv, NEW h \in Handler, Others(h), NEW p
  PROVE  LET m == Cardinality(Charging(p))  n == Cardinality(Charging(p)')
             was == Works(h, p) /\ At(h, "charge")
             is == Works(h, p)' /\ At(h, "charge")'
         IN  /\ m \in Nat /\ n \in Nat
             /\ was /\ ~is => m = n + 1
             /\ ~was /\ is => n = m + 1
             /\ (was <=> is) => n = m
  <1> DEFINE S == Charging(p)  T == Charging(p)'
  <1>1. /\ IsFiniteSet(S) /\ S \ {h} = T \ {h}
        /\ h \in S <=> Works(h, p) /\ At(h, "charge")
        /\ h \in T <=> Works(h, p)' /\ At(h, "charge")'
    BY HandlersCount DEF Others, Charging, Works, At
  <1> HIDE DEF S, T
  <1>2. /\ Cardinality(S) \in Nat /\ Cardinality(T) \in Nat
        /\ h \in S /\ h \notin T => Cardinality(S) = Cardinality(T) + 1
        /\ h \notin S /\ h \in T => Cardinality(T) = Cardinality(S) + 1
        /\ (h \in S <=> h \in T) => Cardinality(S) = Cardinality(T)
    BY <1>1, OneMember
  <1>3. QED
    BY <1>1, <1>2 DEF S, T

\* The number of copies of an event changes by the message added or removed.
LEMMA CopiesChange ==
  ASSUME TypeOK, FiniteInv, NEW p \in Payment
  PROVE  /\ CopiesOf(new, p) \in Nat /\ CopiesOf(retry, p) \in Nat /\ CopiesOf(dlq, p) \in Nat
         /\ \A m \in Message :
              /\ CopiesOf(BagAdd(new, m), p)
                   = IF m.payment = p THEN CopiesOf(new, p) + 1 ELSE CopiesOf(new, p)
              /\ CopiesOf(BagAdd(retry, m), p)
                   = IF m.payment = p THEN CopiesOf(retry, p) + 1 ELSE CopiesOf(retry, p)
         /\ \A d \in Message : CopiesOf(BagAdd(dlq, d), p)
              = IF d.payment = p THEN CopiesOf(dlq, p) + 1 ELSE CopiesOf(dlq, p)
         /\ \A m \in DOMAIN new : CopiesOf(BagRemove(new, m), p)
              = IF m.payment = p THEN CopiesOf(new, p) - 1 ELSE CopiesOf(new, p)
         /\ \A m \in DOMAIN retry : CopiesOf(BagRemove(retry, m), p)
              = IF m.payment = p THEN CopiesOf(retry, p) - 1 ELSE CopiesOf(retry, p)
  <1>1. /\ IsBagOver(new, Message) /\ IsBagOver(retry, Message) /\ IsBagOver(dlq, Message)
        /\ IsFiniteSet(Copies(new, p)) /\ IsFiniteSet(Copies(retry, p))
        /\ IsFiniteSet(Copies(dlq, p))
    BY DEF TypeOK, FiniteInv
  <1>2. CopiesOf(new, p) \in Nat /\ CopiesOf(retry, p) \in Nat /\ CopiesOf(dlq, p) \in Nat
    BY <1>1, FS_CardinalityType DEF CopiesOf
  <1>3. ASSUME NEW m \in Message
        PROVE  /\ CopiesOf(BagAdd(new, m), p)
                    = IF m.payment = p THEN CopiesOf(new, p) + 1 ELSE CopiesOf(new, p)
               /\ CopiesOf(BagAdd(retry, m), p)
                    = IF m.payment = p THEN CopiesOf(retry, p) + 1 ELSE CopiesOf(retry, p)
    BY <1>1, AddCopies
  <1>4. ASSUME NEW d \in Message
        PROVE  CopiesOf(BagAdd(dlq, d), p)
                 = IF d.payment = p THEN CopiesOf(dlq, p) + 1 ELSE CopiesOf(dlq, p)
    BY <1>1, AddCopies
  <1>5. ASSUME NEW m \in DOMAIN new
        PROVE  CopiesOf(BagRemove(new, m), p)
                 = IF m.payment = p THEN CopiesOf(new, p) - 1 ELSE CopiesOf(new, p)
    BY <1>1, <1>2, RemoveCopies
  <1>6. ASSUME NEW m \in DOMAIN retry
        PROVE  CopiesOf(BagRemove(retry, m), p)
                 = IF m.payment = p THEN CopiesOf(retry, p) - 1 ELSE CopiesOf(retry, p)
    BY <1>1, <1>2, RemoveCopies
  <1>7. QED
    BY <1>2, <1>3, <1>4, <1>5, <1>6

\* The copies of the event of p: in the queues and with the handlers.
Copied(p) ==
  CopiesOf(new, p) + CopiesOf(retry, p) + CopiesOf(dlq, p) + Cardinality(Holders(p))

\* The inductive form of CopyNeedsFault: a handler about to reject a delivery
\* the broker still holds counts, one whose delivery was taken back does not.
CopyInv == \A p \in Payment : Copied(p) <= events[p] + faults

\* The retry policy turns a message into one copy.
LEMMA FailureCopies ==
  ASSUME TypeOK, FiniteInv, NEW m \in Message, OnFailure(m), NEW p \in Payment
  PROVE  LET before == CopiesOf(retry, p) + CopiesOf(dlq, p)
             after == CopiesOf(retry', p) + CopiesOf(dlq', p)
         IN  /\ after = IF m.payment = p THEN before + 1 ELSE before
             /\ CopiesOf(retry', p) \in Nat /\ CopiesOf(dlq', p) \in Nat
             /\ m.payment # p => CopiesOf(retry', p) = CopiesOf(retry, p)
             /\ CopiesOf(retry', p) <= CopiesOf(retry, p) + 1
             /\ CopiesOf(retry', p) >= CopiesOf(retry, p)
  <1> DEFINE next == Copy(m, m.attempt + 1)
             dead == Copy(m, m.attempt)
  <1>1. next \in Message /\ next.payment = m.payment
    BY ValueTypes DEF Copy
  <1>2. dead \in Message /\ dead.payment = m.payment
    BY ValueTypes DEF Copy
  <1>3. \/ retry' = BagAdd(retry, next) /\ dlq' = dlq
        \/ dlq' = BagAdd(dlq, dead) /\ retry' = retry
    BY DEF OnFailure, ToRetry, ToDlq
  <1> HIDE DEF next, dead
  <1>4. QED
    BY <1>1, <1>2, <1>3, CopiesChange

\* No step adds a copy, except a publication and a fault.
LEMMA NextCopied ==
  ASSUME TypeOK, FiniteInv, [Next]_vars, NEW p \in Payment
  PROVE  Copied(p)' + events[p] + faults <= Copied(p) + events'[p] + faults'
  <1> DEFINE Goal == Copied(p)' + events[p] + faults <= Copied(p) + events'[p] + faults'
  <1> USE WorkingMessage, CopiesChange
  <1>1. /\ events[p] \in Nat /\ faults \in Nat
        /\ Cardinality(Holders(p)) \in Nat
    BY HandlersCount, ProcessAssumption DEF TypeOK
  <1>2. ASSUME NEW h \in Handler, Deliver(h) \/ Step(h) \/ HandlerFault(h)
        PROVE  /\ Cardinality(Holders(p)') \in Nat
               /\ Holds(h, p) /\ ~Holds(h, p)' =>
                    Cardinality(Holders(p)) = Cardinality(Holders(p)') + 1
               /\ ~Holds(h, p) /\ Holds(h, p)' =>
                    Cardinality(Holders(p)') = Cardinality(Holders(p)) + 1
               /\ (Holds(h, p) <=> Holds(h, p)') =>
                    Cardinality(Holders(p)') = Cardinality(Holders(p))
    BY <1>2, OthersUntouched, HoldersMove
  <1>3. ASSUME NEW q \in Payment, Create(q) PROVE Goal
    <2>1. Holders(p)' = Holders(p)
      BY <1>3 DEF Create, Holders, Holds, Works, At, local
    <2>2. QED
      BY <1>1, <1>3, <2>1 DEF Create, Copied, broker, world
  <1>4. ASSUME NEW q \in Payment, Publish(q) PROVE Goal
    <2>1. Holders(p)' = Holders(p)
      BY <1>4 DEF Publish, Holders, Holds, Works, At, local
    <2>2. EventOf(q) \in Message /\ EventOf(q).payment = q
      BY ValueTypes DEF EventOf
    <2>3. events'[p] = IF p = q THEN events[p] + 1 ELSE events[p]
      BY <1>4 DEF Publish, TypeOK
    <2>4. QED
      BY <1>1, <1>4, <2>1, <2>2, <2>3 DEF Publish, Copied
  <1>5. ASSUME NEW h \in Handler, Deliver(h) PROVE Goal
    <2> PICK m \in DOMAIN new : /\ new' = BagRemove(new, m)
                                /\ msg' = [msg EXCEPT ![h] = m]
      BY <1>5 DEF Deliver
    <2>1. ~Holds(h, p) /\ (Holds(h, p)' <=> m.payment = p)
      BY <1>5 DEF Deliver, Holds, Works, At, Goto, TypeOK
    <2>2. Cardinality(Holders(p)')
            = IF m.payment = p THEN Cardinality(Holders(p)) + 1 ELSE Cardinality(Holders(p))
      BY <1>1, <1>2, <1>5, <2>1
    <2>3. CopiesOf(new', p)
            = IF m.payment = p THEN CopiesOf(new, p) - 1 ELSE CopiesOf(new, p)
      OBVIOUS
    <2>4. UNCHANGED <<retry, dlq, events, faults>>
      BY <1>5 DEF Deliver, world
    <2>5. QED
      BY <1>1, <2>2, <2>3, <2>4 DEF Copied
  <1>6. ASSUME NEW h \in Handler,
               \/ Get(h) \/ Charge(h) \/ UpdateStatus(h) \/ Commit(h) \/ Reread(h)
               \/ PostAccepted(h) \/ PostFailed(h) \/ PostRaises(h) \/ DatabaseError(h)
               \/ Ack(h)
        PROVE  Goal
    <2>1. UNCHANGED <<new, retry, dlq, events>> /\ faults' >= faults /\ faults' \in Nat
      BY <1>1, <1>6 DEF Get, Charge, UpdateStatus, Commit, Reread, PostAccepted,
        PostFailed, PostRaises, DatabaseError, Ack, Fault, broker, world
    <2>2. Holds(h, p)' => Holds(h, p)
      BY <1>6 DEF Get, Charge, UpdateStatus, Commit, Reread, PostAccepted, PostFailed,
        PostRaises, DatabaseError, Ack, Finish, Holds, Works, At, Goto, TypeOK, local
    <2>3. Step(h) \/ HandlerFault(h)
      BY <1>6 DEF Step, HandlerFault
    <2>4. Cardinality(Holders(p)') \in Nat /\ Cardinality(Holders(p)') <= Cardinality(Holders(p))
      BY <1>1, <1>2, <2>2, <2>3
    <2>5. QED
      BY <1>1, <2>1, <2>4 DEF Copied
  <1>7. ASSUME NEW h \in Handler, HandleFailure(h) PROVE Goal
    <2>1. /\ msg[h] \in Message /\ OnFailure(msg[h])
          /\ UNCHANGED <<new, events, faults>>
      BY <1>7 DEF HandleFailure, At, world
    <2>2. ~Holds(h, p)' /\ (Holds(h, p) <=> msg[h].payment = p)
      BY <1>7 DEF HandleFailure, Holds, Works, At, Goto, TypeOK, local
    <2>3. Step(h)
      BY <1>7 DEF Step
    <2>4. Cardinality(Holders(p)')
            = IF msg[h].payment = p THEN Cardinality(Holders(p)) - 1 ELSE Cardinality(Holders(p))
      BY <1>1, <1>2, <2>2, <2>3
    <2>5. QED
      BY <1>1, <2>1, <2>4, FailureCopies DEF Copied
  <1>8. ASSUME NEW h \in Handler, HandleFailureRaises(h) PROVE Goal
    <2>1. /\ msg[h] \in Message /\ (OnFailure(msg[h]) \/ UNCHANGED <<retry, dlq>>)
          /\ UNCHANGED <<new, events>> /\ faults' = faults + 1
      BY <1>8 DEF HandleFailureRaises, Fault, At, world
    <2>2. Holds(h, p)' => Holds(h, p)
      BY <1>8 DEF HandleFailureRaises, Holds, Works, At, Goto, TypeOK, local
    <2>3. HandlerFault(h)
      BY <1>8 DEF HandlerFault
    <2>4. Cardinality(Holders(p)') \in Nat /\ Cardinality(Holders(p)') <= Cardinality(Holders(p))
      BY <1>1, <1>2, <2>2, <2>3
    <2>5. /\ CopiesOf(retry', p) \in Nat /\ CopiesOf(dlq', p) \in Nat
          /\ CopiesOf(retry', p) + CopiesOf(dlq', p) <= CopiesOf(retry, p) + CopiesOf(dlq, p) + 1
      <3>1. CASE OnFailure(msg[h])
        BY <2>1, <3>1, FailureCopies
      <3>2. CASE UNCHANGED <<retry, dlq>>
        BY <3>2
      <3>3. QED
        BY <2>1, <3>1, <3>2
    <2>6. QED
      BY <1>1, <2>1, <2>4, <2>5 DEF Copied
  <1>9. ASSUME NEW h \in Handler, Reject(h) PROVE Goal
    <2>1. msg[h] \in Message
      BY <1>9 DEF Reject, At
    <2>2. /\ UNCHANGED <<new, retry, events, faults>>
          /\ dlq' = IF h \in owned THEN BagAdd(dlq, msg[h]) ELSE dlq
      BY <1>9 DEF Reject, world
    <2>3. ~Holds(h, p)' /\ (Holds(h, p) <=> msg[h].payment = p /\ h \in owned)
      BY <1>9 DEF Reject, Finish, Holds, Works, At, Goto, TypeOK
    <2>4. Step(h)
      BY <1>9 DEF Step
    <2>5. Cardinality(Holders(p)')
            = IF msg[h].payment = p /\ h \in owned THEN Cardinality(Holders(p)) - 1
                                                   ELSE Cardinality(Holders(p))
      BY <1>1, <1>2, <2>3, <2>4
    <2>6. CopiesOf(dlq', p)
            = IF msg[h].payment = p /\ h \in owned THEN CopiesOf(dlq, p) + 1
                                                   ELSE CopiesOf(dlq, p)
      <3>1. CopiesOf(BagAdd(dlq, msg[h]), p)
              = IF msg[h].payment = p THEN CopiesOf(dlq, p) + 1 ELSE CopiesOf(dlq, p)
        BY <2>1
      <3>2. QED
        BY <2>2, <3>1
    <2>7. QED
      BY <1>1, <2>2, <2>5, <2>6 DEF Copied
  <1>10. ASSUME Expire PROVE Goal
    <2> PICK m \in DOMAIN retry : retry' = BagRemove(retry, m) /\ new' = BagAdd(new, m)
      BY <1>10 DEF Expire
    <2>1. m \in Message
      BY DEF TypeOK, IsBagOver
    <2>2. Holders(p)' = Holders(p) /\ UNCHANGED <<dlq, events, faults>>
      BY <1>10 DEF Expire, Holders, Holds, Works, At, local, world
    <2>3. QED
      BY <1>1, <2>1, <2>2 DEF Copied
  <1>11. ASSUME NEW h \in Handler, ChannelLost(h) \/ Crash(h) PROVE Goal
    <2>1. /\ ~At(h, "idle") /\ msg[h] \in Message /\ Requeue(h)
          /\ UNCHANGED <<retry, dlq, events>> /\ faults' = faults + 1
      BY <1>11 DEF ChannelLost, Crash, Fault, TypeOK, world
    <2>2. Holds(h, p)' => Holds(h, p)
      BY <1>11 DEF ChannelLost, Crash, Finish, Holds, Works, At, Goto, TypeOK
    <2>3. HandlerFault(h)
      BY <1>11 DEF HandlerFault
    <2>4. Cardinality(Holders(p)') \in Nat /\ Cardinality(Holders(p)') <= Cardinality(Holders(p))
      BY <1>1, <1>2, <2>2, <2>3
    <2>5. CopiesOf(new', p) \in Nat /\ CopiesOf(new', p) <= CopiesOf(new, p) + 1
      BY <2>1 DEF Requeue
    <2>6. QED
      BY <1>1, <2>1, <2>4, <2>5 DEF Copied
  <1>12. CASE UNCHANGED vars
    <2>1. Holders(p)' = Holders(p) /\ UNCHANGED <<new, retry, dlq, events, faults>>
      BY <1>12 DEF vars, broker, Holders, Holds, Works, At, local, world
    <2>2. QED
      BY <1>1, <2>1 DEF Copied
  <1>13. QED
    BY <1>3, <1>4, <1>5, <1>6, <1>7, <1>8, <1>9, <1>10, <1>11, <1>12
    DEF Next, Step, HandlerFault

\* What is counted is a number.
Numbers ==
  \A p \in Payment : Copied(p) \in Nat

LEMMA CopiesAreNumbers == TypeOK /\ FiniteInv => Numbers
  BY HandlersCount, CopiesChange DEF Copied, Numbers

\* Nothing runs and nothing is queued at first.
LEMMA InitFinite ==
  ASSUME Init
  PROVE  FiniteInv /\ \A p \in Payment : Holders(p) = {} /\ Chargers(p) = {} /\ Charging(p) = {}
  BY NoCopies, FS_EmptySet
  DEF Init, FiniteInv, Busy, Holders, Holds, Chargers, MayCharge, Charging, Works, At

\* There is never a copy of an event more than publications and faults
\* explain, for any number of handlers, attempts and deliveries: republishing
\* and acknowledging is one decision, whatever order its two steps take.
THEOREM CopiesExplained == Spec => []CopyNeedsFault
  <1>1. Init => FiniteInv /\ CopyInv
    <2> SUFFICES ASSUME Init, NEW p \in Payment
                 PROVE  FiniteInv /\ Copied(p) <= events[p] + faults
      BY InitFinite DEF CopyInv
    <2>1. /\ Cardinality(Holders(p)) = 0 /\ CopiesOf(new, p) = 0
          /\ CopiesOf(retry, p) = 0 /\ CopiesOf(dlq, p) = 0
          /\ events[p] = 0 /\ faults = 0
      BY InitFinite, NoCopies, FS_EmptySet DEF Init
    <2>2. QED
      BY <2>1, InitFinite DEF Copied
  <1>2a. TypeOK' /\ FiniteInv' => Numbers'
    BY CopiesAreNumbers, PTL
  <1>2. TypeOK /\ FiniteInv /\ CopyInv /\ [Next]_vars => FiniteInv' /\ CopyInv'
    <2> SUFFICES ASSUME TypeOK, TypeOK', FiniteInv, CopyInv, [Next]_vars
                 PROVE  CopyInv'
      BY NextFinite, NextTypeOK
    <2>1. FiniteInv'
      BY NextFinite
    <2>2. ASSUME NEW p \in Payment PROVE Copied(p)' <= events'[p] + faults'
      <3>1. Copied(p) <= events[p] + faults
        BY DEF CopyInv
      <3>2. Copied(p)' + events[p] + faults <= Copied(p) + events'[p] + faults'
        BY NextCopied
      <3>3. Copied(p) \in Nat
        BY HandlersCount, CopiesChange DEF Copied
      <3>4. Copied(p)' \in Nat
        BY <1>2a, <2>1 DEF Numbers
      <3>5. /\ events[p] \in Nat /\ faults \in Nat
            /\ events'[p] \in Nat /\ faults' \in Nat
        BY ProcessAssumption DEF TypeOK
      <3>6. QED
        BY <3>1, <3>2, <3>3, <3>4, <3>5
    <2>3. QED
      BY <2>2 DEF CopyInv
  <1>3. TypeOK /\ FiniteInv /\ CopyInv => CopyNeedsFault
    <2> SUFFICES ASSUME TypeOK, FiniteInv, CopyInv, NEW p \in Payment
                 PROVE  CopiesOf(new, p) + CopiesOf(retry, p) + CopiesOf(dlq, p)
                          + Cardinality({h \in owned : Works(h, p) /\ ~At(h, "ack")})
                          <= events[p] + faults
      BY DEF CopyNeedsFault
    <2> DEFINE S == Holders(p)
               T == {h \in owned : Works(h, p) /\ ~At(h, "ack")}
    <2>1. T \subseteq S /\ IsFiniteSet(S)
      BY HandlersCount DEF Holders, Holds, TypeOK
    <2> HIDE DEF S, T
    <2>2. IsFiniteSet(T) /\ Cardinality(T) <= Cardinality(S)
      BY <2>1, FS_Subset
    <2>3. Cardinality(T) \in Nat /\ Cardinality(S) \in Nat
      BY <2>1, <2>2, FS_CardinalityType
    <2>4. CopiesOf(new, p) + CopiesOf(retry, p) + CopiesOf(dlq, p) + Cardinality(S)
            <= events[p] + faults
      BY DEF CopyInv, Copied, S
    <2>5. events[p] \in Nat /\ faults \in Nat
      BY ProcessAssumption DEF TypeOK
    <2>6. QED
      BY <2>2, <2>3, <2>4, <2>5, CopiesChange DEF T
  <1>4. QED
    BY <1>1, <1>2, <1>3, TypeCorrect, PTL DEF Spec

-----------------------------------------------------------------------------
(* The number of attempts.                                                 *)

WithinLimit(m) == m.attempt > 1 => m.attempt <= MaxDeliveryAttempts

\* The messages the handlers work on respect the limit too.
AttemptsInv ==
  /\ \A m \in DOMAIN new \cup DOMAIN retry : WithinLimit(m)
  /\ \A h \in Handler : ~At(h, "idle") => WithinLimit(msg[h])

\* The retry policy republishes only below the limit.
LEMMA FailureWithinLimit ==
  ASSUME TypeOK, NEW m \in Message, OnFailure(m),
         \A x \in DOMAIN retry : WithinLimit(x)
  PROVE  \A x \in DOMAIN retry' : WithinLimit(x)
  <1> DEFINE next == Copy(m, m.attempt + 1)
  <1>1. next \in Message /\ next.attempt = m.attempt + 1 /\ m.attempt \in Nat
    BY ValueTypes DEF Copy, Message
  <1>2. CASE m.attempt >= MaxDeliveryAttempts
    BY <1>2 DEF OnFailure, ToDlq
  <1>3. CASE ~(m.attempt >= MaxDeliveryAttempts)
    <2>1. retry' = BagAdd(retry, next)
      BY <1>3 DEF OnFailure, ToRetry
    <2> HIDE DEF next
    <2>2. IsBagOver(retry, Message)
      BY DEF TypeOK
    <2>3. DOMAIN BagAdd(retry, next) = DOMAIN retry \cup {next}
      BY ONLY <1>1, <2>2, BagAddLemma
    <2>4. WithinLimit(next)
      BY <1>1, <1>3, ProcessAssumption DEF WithinLimit
    <2>5. QED
      BY <2>1, <2>3, <2>4
  <1>4. QED
    BY <1>2, <1>3

\* Every step keeps the attempt counts below the limit: the retry policy
\* adds one only when the sum stays under it, and a redelivery adds none.
LEMMA NextAttempts == TypeOK /\ AttemptsInv /\ [Next]_vars => AttemptsInv'
  <1> SUFFICES ASSUME TypeOK, AttemptsInv, [Next]_vars PROVE AttemptsInv'
    OBVIOUS
  <1> USE DEF AttemptsInv, At, Goto
  <1>1. ASSUME NEW p \in Payment, Create(p) PROVE AttemptsInv'
    BY <1>1 DEF Create, broker, local
  <1>2. ASSUME NEW p \in Payment, Publish(p) PROVE AttemptsInv'
    <2>1. IsBagOver(new, Message) /\ EventOf(p) \in Message
      BY ValueTypes DEF TypeOK
    <2>2. DOMAIN BagAdd(new, EventOf(p)) = DOMAIN new \cup {EventOf(p)}
      BY ONLY <2>1, BagAddLemma
    <2>3. WithinLimit(EventOf(p))
      BY DEF WithinLimit, EventOf
    <2>4. QED
      BY <1>2, <2>2, <2>3 DEF Publish, local
  <1>3. ASSUME NEW h \in Handler, Deliver(h) PROVE AttemptsInv'
    <2> PICK m \in DOMAIN new : /\ new' = BagRemove(new, m)
                                /\ msg' = [msg EXCEPT ![h] = m]
      BY <1>3 DEF Deliver
    <2>1. DOMAIN new' \subseteq DOMAIN new
      BY BagRemoveLemma DEF TypeOK
    <2>2. QED
      BY <1>3, <2>1 DEF Deliver, TypeOK
  <1>4. ASSUME NEW h \in Handler,
               \/ Get(h) \/ Charge(h) \/ UpdateStatus(h) \/ Commit(h) \/ Reread(h)
               \/ PostAccepted(h) \/ PostFailed(h) \/ PostRaises(h) \/ DatabaseError(h)
        PROVE  AttemptsInv'
    <2>1. UNCHANGED <<new, retry, dlq, msg>> /\ ~At(h, "idle")
      BY <1>4 DEF Get, Charge, UpdateStatus, Commit, Reread, PostAccepted, PostFailed,
        PostRaises, DatabaseError, broker, local
    <2>2. \A g \in Handler \ {h} : pc'[g] = pc[g]
      BY <1>4 DEF Get, Charge, UpdateStatus, Commit, Reread, PostAccepted, PostFailed,
        PostRaises, DatabaseError, TypeOK
    <2>3. QED
      BY <2>1, <2>2
  <1>5. ASSUME NEW h \in Handler, HandleFailure(h) \/ HandleFailureRaises(h)
        PROVE  AttemptsInv'
    <2>1. msg[h] \in Message /\ ~At(h, "idle")
      BY <1>5, WorkingMessage DEF HandleFailure, HandleFailureRaises
    <2>2. \A x \in DOMAIN retry' : WithinLimit(x)
      BY <1>5, <2>1, FailureWithinLimit DEF HandleFailure, HandleFailureRaises
    <2>3. QED
      BY <1>5, <2>1, <2>2 DEF HandleFailure, HandleFailureRaises, TypeOK, local
  <1>6. ASSUME NEW h \in Handler, Ack(h) \/ Reject(h) PROVE AttemptsInv'
    BY <1>6 DEF Ack, Reject, Finish, TypeOK, broker
  <1>7. ASSUME Expire PROVE AttemptsInv'
    <2> PICK m \in DOMAIN retry : retry' = BagRemove(retry, m) /\ new' = BagAdd(new, m)
      BY <1>7 DEF Expire
    <2>1. IsBagOver(new, Message) /\ IsBagOver(retry, Message) /\ m \in Message
      BY DEF TypeOK, IsBagOver
    <2>2. DOMAIN BagAdd(new, m) = DOMAIN new \cup {m}
      BY ONLY <2>1, BagAddLemma
    <2>3. DOMAIN BagRemove(retry, m) \subseteq DOMAIN retry
      BY ONLY <2>1, m \in DOMAIN retry, BagRemoveLemma
    <2>4. QED
      BY <1>7, <2>2, <2>3 DEF Expire, local
  <1>8. ASSUME NEW h \in Handler, ~At(h, "idle"), Requeue(h)
        PROVE  \A m \in DOMAIN new' : WithinLimit(m)
    <2>1. IsBagOver(new, Message) /\ msg[h] \in Message
      BY <1>8, WorkingMessage DEF TypeOK
    <2>2. DOMAIN BagAdd(new, msg[h]) = DOMAIN new \cup {msg[h]}
      BY ONLY <2>1, BagAddLemma
    <2>3. QED
      BY <1>8, <2>2 DEF Requeue
  <1>9. ASSUME NEW h \in Handler, ChannelLost(h) PROVE AttemptsInv'
    <2>1. ~At(h, "idle")
      BY <1>9 DEF ChannelLost, TypeOK
    <2>2. QED
      BY <1>8, <1>9, <2>1 DEF ChannelLost
  <1>10. ASSUME NEW h \in Handler, Crash(h) PROVE AttemptsInv'
    BY <1>8, <1>10 DEF Crash, Finish, TypeOK
  <1>11. CASE UNCHANGED vars
    BY <1>11 DEF vars, broker, local
  <1>12. QED
    BY <1>1, <1>2, <1>3, <1>4, <1>5, <1>6, <1>7, <1>9, <1>10, <1>11
    DEF Next, Step, HandlerFault

\* The dead letters that GivesUpAtLimit calls explained: they carry the last
\* attempt number and the error that ended it.
Exhausted == {d \in Message : d.error /\ d.attempt >= MaxDeliveryAttempts}

\* The handlers about to reject a delivery, each of which may still add an
\* unexplained dead letter.
Rejecting == {h \in Handler : At(h, "reject")}

\* The inductive form of the second part of GivesUpAtLimit.
ExplainedInv ==
  /\ IsFiniteSet(Unexplained)
  /\ Cardinality(Unexplained) + Cardinality(Rejecting) <= faults

\* A message added to payments.dlq is one unexplained dead letter more, or
\* none if its attempts are used up.
LEMMA AddUnexplained ==
  ASSUME TypeOK, IsFiniteSet(Unexplained), NEW m \in Message, dlq' = BagAdd(dlq, m)
  PROVE  /\ IsFiniteSet(Unexplained') /\ Cardinality(Unexplained) \in Nat
         /\ Cardinality(Unexplained') = IF m \in Exhausted THEN Cardinality(Unexplained)
                                        ELSE Cardinality(Unexplained) + 1
  <1> DEFINE P == Message \ Exhausted
             c == BagAdd(dlq, m)
  <1>1. IsBagOver(dlq, Message) /\ DOMAIN dlq \subseteq Message /\ DOMAIN c \subseteq Message
    BY BagAddLemma DEF TypeOK, IsBagOver
  <1>2. m \in P <=> m \notin Exhausted
    OBVIOUS
  <1>3. Unexplained = Numbered(dlq, DOMAIN dlq \cap P)
    <2>1. {d \in DOMAIN dlq : ~(d.error /\ d.attempt >= MaxDeliveryAttempts)} = DOMAIN dlq \cap P
      BY <1>1 DEF Exhausted
    <2>2. QED
      BY <2>1 DEF Unexplained
  <1>4. Unexplained' = Numbered(c, DOMAIN c \cap P)
    <2>1. {d \in DOMAIN c : ~(d.error /\ d.attempt >= MaxDeliveryAttempts)} = DOMAIN c \cap P
      BY <1>1 DEF Exhausted
    <2>2. QED
      BY <2>1 DEF Unexplained, Numbered
  <1> HIDE DEF P
  <1>5. IsFiniteSet(Numbered(dlq, DOMAIN dlq \cap P))
    BY <1>3
  <1>6. /\ IsFiniteSet(Numbered(c, DOMAIN c \cap P))
        /\ Cardinality(Numbered(dlq, DOMAIN dlq \cap P)) \in Nat
        /\ Cardinality(Numbered(c, DOMAIN c \cap P))
             = IF m \in P THEN Cardinality(Numbered(dlq, DOMAIN dlq \cap P)) + 1
                          ELSE Cardinality(Numbered(dlq, DOMAIN dlq \cap P))
    BY ONLY <1>1, <1>5, m \in Message, AddNumbered
  <1> HIDE DEF c
  <1>7. QED
    BY ONLY <1>2, <1>3, <1>4, <1>6

\* The retry policy adds no unexplained dead letter.
LEMMA FailureExplained ==
  ASSUME TypeOK, IsFiniteSet(Unexplained), NEW m \in Message, OnFailure(m)
  PROVE  IsFiniteSet(Unexplained') /\ Cardinality(Unexplained') = Cardinality(Unexplained)
  <1> DEFINE dead == Copy(m, m.attempt)
  <1>1. dead \in Message /\ dead.error /\ dead.attempt = m.attempt
    BY ValueTypes DEF Copy
  <1> HIDE DEF dead
  <1>2. CASE m.attempt >= MaxDeliveryAttempts
    <2>1. dlq' = BagAdd(dlq, dead) /\ dead \in Exhausted
      BY <1>1, <1>2 DEF OnFailure, ToDlq, Exhausted, dead
    <2>2. QED
      BY <1>1, <2>1, AddUnexplained
  <1>3. CASE ~(m.attempt >= MaxDeliveryAttempts)
    BY <1>3 DEF OnFailure, ToRetry, Unexplained
  <1>4. QED
    BY <1>2, <1>3

\* A step of h changes the number of handlers about to reject by what becomes
\* of h.
LEMMA RejectingMove ==
  ASSUME FiniteInv, NEW h \in Handler, Others(h)
  PROVE  LET m == Cardinality(Rejecting)  n == Cardinality(Rejecting')
         IN  /\ m \in Nat /\ n \in Nat
             /\ At(h, "reject") /\ ~At(h, "reject")' => m = n + 1
             /\ ~At(h, "reject") /\ At(h, "reject")' => n = m + 1
             /\ (At(h, "reject") <=> At(h, "reject")') => n = m
  <1> DEFINE S == Rejecting  T == Rejecting'
  <1>1. IsFiniteSet(S)
    <2>1. S \subseteq Busy
      BY DEF Rejecting, Busy, At
    <2>2. QED
      BY <2>1, FS_Subset DEF FiniteInv
  <1>2. /\ S \ {h} = T \ {h}
        /\ h \in S <=> At(h, "reject")
        /\ h \in T <=> At(h, "reject")'
    BY DEF Others, Rejecting, At
  <1> HIDE DEF S, T
  <1>3. /\ Cardinality(S) \in Nat /\ Cardinality(T) \in Nat
        /\ h \in S /\ h \notin T => Cardinality(S) = Cardinality(T) + 1
        /\ h \notin S /\ h \in T => Cardinality(T) = Cardinality(S) + 1
        /\ (h \in S <=> h \in T) => Cardinality(S) = Cardinality(T)
    BY <1>1, <1>2, OneMember
  <1>4. QED
    BY <1>2, <1>3 DEF S, T

\* Each step leaves the unexplained dead letters paid for: a rejection follows
\* a failed publication, which was a fault.
LEMMA NextExplained ==
  TypeOK /\ FiniteInv /\ ExplainedInv /\ [Next]_vars => ExplainedInv'
  <1> SUFFICES ASSUME TypeOK, FiniteInv, ExplainedInv, [Next]_vars PROVE ExplainedInv'
    OBVIOUS
  <1>1. IsFiniteSet(Unexplained) /\ Cardinality(Unexplained) \in Nat /\ faults \in Nat
    BY FS_CardinalityType, ProcessAssumption DEF ExplainedInv, TypeOK
  <1>2. ASSUME NEW h \in Handler, Deliver(h) \/ Step(h) \/ HandlerFault(h)
        PROVE  /\ Cardinality(Rejecting) \in Nat /\ Cardinality(Rejecting') \in Nat
               /\ At(h, "reject") /\ ~At(h, "reject")'
                    => Cardinality(Rejecting) = Cardinality(Rejecting') + 1
               /\ ~At(h, "reject") /\ At(h, "reject")'
                    => Cardinality(Rejecting') = Cardinality(Rejecting) + 1
               /\ (At(h, "reject") <=> At(h, "reject")')
                    => Cardinality(Rejecting') = Cardinality(Rejecting)
    BY <1>2, OthersUntouched, RejectingMove
  <1>3. ASSUME \/ \E p \in Payment : Create(p) \/ Publish(p)
               \/ Expire \/ UNCHANGED vars
        PROVE  ExplainedInv'
    <2>1. UNCHANGED <<dlq, pc, faults>>
      BY <1>3 DEF Create, Publish, Expire, vars, broker
    <2>2. Unexplained' = Unexplained /\ Rejecting' = Rejecting
      BY <2>1 DEF Unexplained, Rejecting, At
    <2>3. QED
      BY <2>1, <2>2 DEF ExplainedInv
  <1>4. ASSUME NEW h \in Handler,
               \/ Deliver(h) \/ Get(h) \/ Charge(h) \/ UpdateStatus(h) \/ Commit(h)
               \/ Reread(h) \/ PostAccepted(h) \/ PostFailed(h) \/ PostRaises(h) \/ Ack(h)
        PROVE  ExplainedInv'
    <2>1. UNCHANGED <<dlq, faults>> /\ (Deliver(h) \/ Step(h))
      BY <1>4 DEF Deliver, Get, Charge, UpdateStatus, Commit, Reread, PostAccepted,
        PostFailed, PostRaises, Ack, broker, Step
    <2>2. ~At(h, "reject")'
      BY <1>4 DEF Deliver, Get, Charge, UpdateStatus, Commit, Reread, PostAccepted,
        PostFailed, PostRaises, Ack, Finish, At, Goto, TypeOK
    <2>3. Unexplained' = Unexplained
      BY <2>1 DEF Unexplained
    <2>4. Cardinality(Rejecting') \in Nat /\ Cardinality(Rejecting') <= Cardinality(Rejecting)
          /\ Cardinality(Rejecting) \in Nat
      BY <1>2, <2>1, <2>2
    <2>5. QED
      BY <1>1, <2>1, <2>3, <2>4 DEF ExplainedInv
  <1>5. ASSUME NEW h \in Handler, HandleFailure(h) PROVE ExplainedInv'
    <2>1. /\ OnFailure(msg[h]) /\ faults' = faults /\ Step(h)
          /\ ~At(h, "reject") /\ ~At(h, "reject")' /\ msg[h] \in Message
      BY <1>5, WorkingMessage DEF HandleFailure, Step, At, Goto, TypeOK
    <2>2. IsFiniteSet(Unexplained') /\ Cardinality(Unexplained') = Cardinality(Unexplained)
      BY <1>1, <2>1, FailureExplained
    <2>3. Cardinality(Rejecting') = Cardinality(Rejecting)
      BY <1>2, <2>1
    <2>4. QED
      BY <2>1, <2>2, <2>3 DEF ExplainedInv
  <1>6. ASSUME NEW h \in Handler, HandleFailureRaises(h) PROVE ExplainedInv'
    <2>1. /\ OnFailure(msg[h]) \/ UNCHANGED <<retry, dlq>>
          /\ faults' = faults + 1 /\ HandlerFault(h)
          /\ ~At(h, "reject") /\ At(h, "reject")' /\ msg[h] \in Message
      BY <1>6, WorkingMessage DEF HandleFailureRaises, Fault, HandlerFault, At, Goto, TypeOK
    <2>2. IsFiniteSet(Unexplained') /\ Cardinality(Unexplained') = Cardinality(Unexplained)
      <3>1. CASE OnFailure(msg[h])
        BY <1>1, <2>1, <3>1, FailureExplained
      <3>2. CASE UNCHANGED <<retry, dlq>>
        BY <1>1, <3>2 DEF Unexplained
      <3>3. QED
        BY <2>1, <3>1, <3>2
    <2>3. Cardinality(Rejecting') = Cardinality(Rejecting) + 1 /\ Cardinality(Rejecting) \in Nat
      BY <1>2, <2>1
    <2>4. QED
      BY <1>1, <2>1, <2>2, <2>3 DEF ExplainedInv
  <1>7. ASSUME NEW h \in Handler, Reject(h) PROVE ExplainedInv'
    <2>1. /\ dlq' = BagAdd(dlq, msg[h]) \/ dlq' = dlq
          /\ faults' = faults /\ Step(h)
          /\ At(h, "reject") /\ ~At(h, "reject")' /\ msg[h] \in Message
      BY <1>7, WorkingMessage DEF Reject, Finish, Step, At, Goto, TypeOK
    <2>2. /\ IsFiniteSet(Unexplained') /\ Cardinality(Unexplained') \in Nat
          /\ Cardinality(Unexplained') <= Cardinality(Unexplained) + 1
      <3>1. CASE dlq' = BagAdd(dlq, msg[h])
        BY <1>1, <2>1, <3>1, AddUnexplained
      <3>2. CASE dlq' = dlq
        BY <1>1, <3>2 DEF Unexplained
      <3>3. QED
        BY <2>1, <3>1, <3>2
    <2>3. Cardinality(Rejecting) = Cardinality(Rejecting') + 1 /\ Cardinality(Rejecting') \in Nat
      BY <1>2, <2>1
    <2>4. QED
      BY <1>1, <2>1, <2>2, <2>3 DEF ExplainedInv
  <1>8. ASSUME NEW h \in Handler, DatabaseError(h) \/ ChannelLost(h) \/ Crash(h)
        PROVE  ExplainedInv'
    <2>1. dlq' = dlq /\ faults' = faults + 1 /\ HandlerFault(h)
      BY <1>8 DEF DatabaseError, ChannelLost, Crash, Fault, HandlerFault, broker
    <2>2. At(h, "reject")' => At(h, "reject")
      BY <1>8 DEF DatabaseError, ChannelLost, Crash, Finish, At, Goto, TypeOK
    <2>3. Unexplained' = Unexplained
      BY <2>1 DEF Unexplained
    <2>4. Cardinality(Rejecting') \in Nat /\ Cardinality(Rejecting') <= Cardinality(Rejecting)
          /\ Cardinality(Rejecting) \in Nat
      BY <1>2, <2>1, <2>2
    <2>5. QED
      BY <1>1, <2>1, <2>3, <2>4 DEF ExplainedInv
  <1>9. QED
    BY <1>3, <1>4, <1>5, <1>6, <1>7, <1>8 DEF Next, Step, HandlerFault

\* No message is retried beyond the configured number of attempts, and every
\* dead letter that does not say, by its headers, that all attempts failed is
\* paid for by a fault, for any such number and any number of handlers.
THEOREM RetriesBounded == Spec => []GivesUpAtLimit
  <1>1. Init => AttemptsInv /\ FiniteInv /\ ExplainedInv
    <2> SUFFICES ASSUME Init PROVE AttemptsInv /\ FiniteInv /\ ExplainedInv
      OBVIOUS
    <2>1. AttemptsInv
      BY EmptyBagLemma DEF Init, AttemptsInv, At
    <2>2. Unexplained = {} /\ Rejecting = {} /\ faults = 0
      BY EmptyBagLemma DEF Init, Unexplained, Numbered, Rejecting, At
    <2>3. QED
      BY <2>1, <2>2, InitFinite, FS_EmptySet DEF ExplainedInv
  <1>2. TypeOK /\ FiniteInv /\ AttemptsInv /\ ExplainedInv => GivesUpAtLimit
    <2> SUFFICES ASSUME TypeOK, FiniteInv, AttemptsInv, ExplainedInv PROVE GivesUpAtLimit
      OBVIOUS
    <2>1. Cardinality(Unexplained) \in Nat /\ faults \in Nat
      BY FS_CardinalityType, ProcessAssumption DEF ExplainedInv, TypeOK
    <2>2. Cardinality(Rejecting) \in Nat
      <3>1. Rejecting \subseteq Busy
        BY DEF Rejecting, Busy, At
      <3>2. QED
        BY <3>1, FS_Subset, FS_CardinalityType DEF FiniteInv
    <2>3. Cardinality(Unexplained) <= faults
      BY <2>1, <2>2 DEF ExplainedInv
    <2>4. QED
      BY <2>3 DEF AttemptsInv, WithinLimit, GivesUpAtLimit
  <1>3. TypeOK /\ FiniteInv /\ [Next]_vars => FiniteInv'
    BY NextFinite
  <1>4. QED
    BY <1>1, <1>2, <1>3, NextAttempts, NextExplained, TypeCorrect, PTL DEF Spec

-----------------------------------------------------------------------------
(* Charges.                                                                *)

\* What the gateway may still be asked for p without another fault: before
\* the decision every waiting copy may lead to a charge, afterwards only the
\* handlers that did not see the decision.
Potential(p) ==
  IF IsFinal(p) THEN Cardinality(Charging(p))
  ELSE CopiesOf(new, p) + CopiesOf(retry, p) + Cardinality(Chargers(p))

\* The inductive form of ExtraChargeNeedsFault.
ChargeInv ==
  /\ \A p \in Payment : Len(charges[p]) + Potential(p) <= events[p] + faults
  /\ \A h \in Handler : At(h, "charge") => view[h].status = "pending"

\* A handler asks the gateway only with an entity it read as pending.
LEMMA ChargePending ==
  ASSUME TypeOK, ChargeInv, [Next]_vars
  PROVE  \A h \in Handler : At(h, "charge")' => view'[h].status = "pending"
  <1> SUFFICES ASSUME NEW g \in Handler, pc'[g] = "charge"
               PROVE  view'[g].status = "pending"
    BY DEF At
  <1>1. ASSUME NEW h \in Handler, Deliver(h) \/ Step(h) \/ HandlerFault(h), g # h
        PROVE  view'[g].status = "pending"
    <2>1. pc'[g] = pc[g] /\ view'[g] = view[g]
      BY <1>1, OthersUntouched DEF Others
    <2>2. QED
      BY <2>1 DEF ChargeInv, At
  <1>2. ASSUME Get(g) PROVE view'[g].status = "pending"
    <2>1. rows[msg[g].payment] \in Row \cup {NULL}
      BY <1>2, WorkingMessage DEF Get, TypeOK, At
    <2>2. /\ rows[msg[g].payment] # NULL /\ ~IsFinal(msg[g].payment)
          /\ view'[g] = rows[msg[g].payment]
      BY <1>2 DEF Get, Goto, At, TypeOK
    <2>3. QED
      BY <2>1, <2>2 DEF IsFinal, Outcome!IsFinal, Outcome!Exists, Row, Outcome!Row,
        Outcome!FinalStatus
  <1>3. ASSUME \/ Charge(g) \/ UpdateStatus(g) \/ Commit(g) \/ Reread(g) \/ PostAccepted(g)
               \/ PostFailed(g) \/ PostRaises(g) \/ HandleFailure(g) \/ Ack(g) \/ Reject(g)
               \/ Deliver(g) \/ DatabaseError(g) \/ HandleFailureRaises(g) \/ Crash(g)
        PROVE  FALSE
    <2>1. ASSUME Charge(g) \/ UpdateStatus(g) \/ Commit(g) \/ Reread(g) \/ PostAccepted(g)
          PROVE  FALSE
      BY <2>1 DEF Charge, UpdateStatus, Commit, Reread, PostAccepted, Goto, TypeOK
    <2>2. ASSUME PostFailed(g) \/ PostRaises(g) \/ HandleFailure(g) \/ Ack(g) \/ Reject(g)
          PROVE  FALSE
      BY <2>2 DEF PostFailed, PostRaises, HandleFailure, Ack, Reject, Finish, Goto, TypeOK
    <2>3. ASSUME Deliver(g) \/ DatabaseError(g) \/ HandleFailureRaises(g) \/ Crash(g)
          PROVE  FALSE
      BY <2>3 DEF Deliver, DatabaseError, HandleFailureRaises, Crash, Finish, Goto, TypeOK
    <2>4. QED
      BY <1>3, <2>1, <2>2, <2>3
  <1>4. ASSUME \/ \E p \in Payment : Create(p) \/ Publish(p)
               \/ Expire \/ ChannelLost(g) \/ UNCHANGED vars
        PROVE  view'[g].status = "pending"
    BY <1>4 DEF Create, Publish, Expire, ChannelLost, vars, local, ChargeInv, At
  <1>5. QED
    BY <1>1, <1>2, <1>3, <1>4 DEF Next, Step, HandlerFault

\* What Potential counts are numbers.
ChargeNumbers ==
  \A p \in Payment :
    /\ CopiesOf(new, p) \in Nat /\ CopiesOf(retry, p) \in Nat
    /\ Cardinality(Charging(p)) \in Nat /\ Cardinality(Chargers(p)) \in Nat
    /\ Cardinality(Charging(p)) <= Cardinality(Chargers(p))

LEMMA ChargesAreNumbers ==
  /\ TypeOK /\ FiniteInv => ChargeNumbers
  /\ TypeOK' /\ FiniteInv' => ChargeNumbers'
  <1>1. TypeOK /\ FiniteInv => ChargeNumbers
    BY HandlersCount, CopiesChange DEF ChargeNumbers
  <1>2. QED
    BY <1>1, PTL

\* A decided payment stays decided.
LEMMA FinalStays ==
  ASSUME TypeOK, OutcomeInv, [Next]_vars, NEW p \in Payment, IsFinal(p)
  PROVE  IsFinal(p)'
  <1>1. Outcome!Next \/ UNCHANGED <<rows, webhooks>>
    BY NextTypeOK, StepRefines
  <1>2. ASSUME NEW q \in Payment, Outcome!Accept(q) \/ Outcome!Decide(q) \/ Outcome!Notify(q)
        PROVE  rows'[p] = rows[p]
    <2>1. q = p \/ rows'[p] = rows[p]
      BY <1>2 DEF TypeOK, Outcome!Accept, Outcome!Decide, Outcome!Notify
    <2>2. ASSUME q = p PROVE Outcome!Notify(q)
      BY <1>2, <2>2 DEF IsFinal, Outcome!Accept, Outcome!Decide, Outcome!IsFinal
    <2>3. QED
      BY <2>1, <2>2 DEF Outcome!Notify
  <1>3. rows'[p] = rows[p]
    BY <1>1, <1>2 DEF Outcome!Next
  <1>4. QED
    BY <1>3 DEF IsFinal, Outcome!IsFinal, Outcome!Exists

\* What bounds the change of Potential: while p is undecided the copies and
\* the handlers that may charge, once it is decided the charging ones.
LEMMA PotentialChange ==
  ASSUME TypeOK, TypeOK', FiniteInv, FiniteInv', NEW p \in Payment,
         IsFinal(p) => IsFinal(p)', NEW d \in Int,
         IsFinal(p) => Cardinality(Charging(p))' <= Cardinality(Charging(p)) + d,
         ~IsFinal(p) =>
           CopiesOf(new', p) + CopiesOf(retry', p) + Cardinality(Chargers(p))'
             <= CopiesOf(new, p) + CopiesOf(retry, p) + Cardinality(Chargers(p)) + d
  PROVE  Potential(p)' <= Potential(p) + d
  <1>1. /\ CopiesOf(new, p) \in Nat /\ CopiesOf(retry, p) \in Nat
        /\ Cardinality(Charging(p)) \in Nat /\ Cardinality(Chargers(p)) \in Nat
    BY HandlersCount, CopiesChange
  <1>2. /\ CopiesOf(new', p) \in Nat /\ CopiesOf(retry', p) \in Nat
        /\ Cardinality(Charging(p))' \in Nat /\ Cardinality(Chargers(p))' \in Nat
        /\ Cardinality(Charging(p))' <= Cardinality(Chargers(p))'
    BY ChargesAreNumbers DEF ChargeNumbers
  <1>3. CASE IsFinal(p)
    BY <1>1, <1>2, <1>3 DEF Potential
  <1>4. CASE ~IsFinal(p)
    BY <1>1, <1>2, <1>4 DEF Potential
  <1>5. QED
    BY <1>3, <1>4

\* No step lets the gateway be asked once more, except a publication and a
\* fault: in particular a webhook that failed returns to a decided payment.
LEMMA NextCharges ==
  ASSUME TypeOK, TypeOK', FiniteInv, FiniteInv', OutcomeInv, ChargeInv, [Next]_vars,
         NEW p \in Payment
  PROVE  \E d \in Int :
           /\ Potential(p)' <= Potential(p) + d
           /\ Len(charges'[p]) + d + events[p] + faults
                <= Len(charges[p]) + events'[p] + faults'
  <1> DEFINE Bound(d) ==
        /\ d \in Int
        /\ IsFinal(p) => Cardinality(Charging(p))' <= Cardinality(Charging(p)) + d
        /\ ~IsFinal(p) =>
             CopiesOf(new', p) + CopiesOf(retry', p) + Cardinality(Chargers(p))'
               <= CopiesOf(new, p) + CopiesOf(retry, p) + Cardinality(Chargers(p)) + d
        /\ Len(charges'[p]) + d + events[p] + faults
             <= Len(charges[p]) + events'[p] + faults'
  <1> USE WorkingMessage, CopiesChange
  <1>1. /\ events[p] \in Nat /\ faults \in Nat /\ Len(charges[p]) \in Nat
        /\ Cardinality(Chargers(p)) \in Nat /\ Cardinality(Charging(p)) \in Nat
        /\ CopiesOf(new, p) \in Nat /\ CopiesOf(retry, p) \in Nat
    BY SMTT(60), HandlersCount, ProcessAssumption DEF TypeOK
  <1>2. ASSUME NEW h \in Handler, Deliver(h) \/ Step(h) \/ HandlerFault(h)
        PROVE  /\ Cardinality(Chargers(p)') \in Nat
               /\ MayCharge(h, p) /\ ~MayCharge(h, p)' =>
                    Cardinality(Chargers(p)) = Cardinality(Chargers(p)') + 1
               /\ ~MayCharge(h, p) /\ MayCharge(h, p)' =>
                    Cardinality(Chargers(p)') = Cardinality(Chargers(p)) + 1
               /\ (MayCharge(h, p) <=> MayCharge(h, p)') =>
                    Cardinality(Chargers(p)') = Cardinality(Chargers(p))
    BY <1>2, OthersUntouched, ChargersMove
  <1>3. ASSUME NEW h \in Handler, Deliver(h) \/ Step(h) \/ HandlerFault(h)
        PROVE  /\ Cardinality(Charging(p)') \in Nat
               /\ Works(h, p) /\ At(h, "charge") /\ ~At(h, "charge")' =>
                    Cardinality(Charging(p)') = Cardinality(Charging(p)) - 1
               /\ (Works(h, p)' /\ At(h, "charge")' => Works(h, p) /\ At(h, "charge")) =>
                    Cardinality(Charging(p)') <= Cardinality(Charging(p))
    BY <1>1, <1>3, OthersUntouched, ChargingMove
  <1>4. ASSUME NEW q \in Payment, Create(q) \/ Publish(q) PROVE \E d : Bound(d)
    <2>1. /\ Chargers(p)' = Chargers(p) /\ Charging(p)' = Charging(p)
          /\ UNCHANGED <<retry, charges, faults>>
      BY <1>4 DEF Create, Publish, Chargers, MayCharge, Charging, Works, At, broker, local, world
    <2>2. CASE Create(q)
      <3>1. Bound(0)
        BY SMTT(60), <1>1, <2>1, <2>2 DEF Create, broker, world
      <3>2. QED
        BY <3>1
    <2>3. CASE Publish(q)
      <3>1. EventOf(q) \in Message /\ EventOf(q).payment = q
        BY ValueTypes DEF EventOf
      <3>2. events'[p] = IF p = q THEN events[p] + 1 ELSE events[p]
        BY <2>3 DEF Publish, TypeOK
      <3>3. CopiesOf(new', p) = IF p = q THEN CopiesOf(new, p) + 1 ELSE CopiesOf(new, p)
        BY <2>3, <3>1 DEF Publish
      <3>4. ASSUME p = q PROVE Bound(1)
        <4>1. /\ CopiesOf(new', p) = CopiesOf(new, p) + 1
              /\ events'[p] = events[p] + 1
          BY ONLY <3>2, <3>3, <3>4
        <4>2. /\ CopiesOf(retry', p) = CopiesOf(retry, p)
              /\ charges'[p] = charges[p] /\ faults' = faults
              /\ Cardinality(Charging(p))' = Cardinality(Charging(p))
              /\ Cardinality(Chargers(p))' = Cardinality(Chargers(p))
          BY ONLY <2>1
        <4>3. 1 \in Int
          OBVIOUS
        <4>4. Cardinality(Charging(p))' <= Cardinality(Charging(p)) + 1
          BY ONLY <1>1, <4>2
        <4>5. CopiesOf(new', p) + CopiesOf(retry', p) + Cardinality(Chargers(p))'
               <= CopiesOf(new, p) + CopiesOf(retry, p) + Cardinality(Chargers(p)) + 1
          BY ONLY <1>1, <4>1, <4>2
        <4>6. Len(charges'[p]) + 1 + events[p] + faults
             <= Len(charges[p]) + events'[p] + faults'
          BY ONLY SMTT(60), <1>1, <4>1, <4>2
        <4>7. QED
          BY ONLY <4>3, <4>4, <4>5, <4>6
      <3>5. ASSUME p # q PROVE Bound(0)
        BY ONLY <1>1, <2>1, <3>2, <3>3, <3>5
      <3>6. QED
        BY <3>4, <3>5
    <2>4. QED
      BY <1>4, <2>2, <2>3
  <1>5. ASSUME NEW h \in Handler, Deliver(h) PROVE \E d : Bound(d)
    <2> PICK m \in DOMAIN new : /\ new' = BagRemove(new, m)
                                /\ msg' = [msg EXCEPT ![h] = m]
      BY <1>5 DEF Deliver
    <2>1. /\ ~MayCharge(h, p) /\ (MayCharge(h, p)' <=> m.payment = p)
          /\ ~At(h, "charge")'
      BY <1>5 DEF Deliver, MayCharge, Works, At, Goto, TypeOK
    <2>2. /\ Cardinality(Chargers(p)')
               = IF m.payment = p THEN Cardinality(Chargers(p)) + 1
                                  ELSE Cardinality(Chargers(p))
          /\ Cardinality(Charging(p)') <= Cardinality(Charging(p))
      BY <1>1, <1>2, <1>3, <1>5, <2>1
    <2>3. CopiesOf(new', p)
            = IF m.payment = p THEN CopiesOf(new, p) - 1 ELSE CopiesOf(new, p)
      OBVIOUS
    <2>4. UNCHANGED <<retry, events, charges, faults>>
      BY <1>5 DEF Deliver, world
    <2>5. Bound(0)
      BY SMTT(60), <1>1, <2>2, <2>3, <2>4
    <2>6. QED
      BY <2>5
  <1>6. ASSUME NEW h \in Handler, Charge(h) PROVE \E d : Bound(d)
    <2> DEFINE q == msg[h].payment
    <2>1. q \in Payment /\ view[h].status = "pending" /\ Works(h, q) /\ At(h, "charge")
      BY <1>6 DEF Charge, Works, ChargeInv, At
    <2>2. /\ UNCHANGED <<new, retry, events, faults, msg>>
          /\ pc' = [pc EXCEPT ![h] = "update_status"]
          /\ \E s \in FinalStatus : charges' = [charges EXCEPT ![q] = Append(@, s)]
      BY <1>6, <2>1 DEF Charge, Goto, broker
    <2>3. Len(charges'[p]) = IF p = q THEN Len(charges[p]) + 1 ELSE Len(charges[p])
      <3>1. charges \in [Payment -> Seq(FinalStatus)]
        BY DEF TypeOK
      <3>2. QED
        BY <2>1, <2>2, <3>1
    <2>4. /\ pc'[h] = "update_status" /\ msg'[h] = msg[h]
          /\ Step(h)
      BY <1>6, <2>2 DEF TypeOK, Step
    <2>5. CASE p = q
      <3>1. /\ Cardinality(Charging(p)') = Cardinality(Charging(p)) - 1
            /\ Cardinality(Chargers(p)') = Cardinality(Chargers(p)) - 1
        BY <1>1, <1>2, <1>3, <2>1, <2>4, <2>5 DEF MayCharge, At
      <3>2. /\ CopiesOf(new', p) = CopiesOf(new, p)
            /\ CopiesOf(retry', p) = CopiesOf(retry, p)
            /\ Len(charges'[p]) = Len(charges[p]) + 1
            /\ events' = events /\ faults' = faults
        BY ONLY <2>2, <2>3, <2>5
      <3>3. Bound(-1)
        <4>1. -1 \in Int
          OBVIOUS
        <4>2. Cardinality(Charging(p))' <= Cardinality(Charging(p)) + (-1)
          BY ONLY <1>1, <3>1, <3>2
        <4>3. CopiesOf(new', p) + CopiesOf(retry', p) + Cardinality(Chargers(p))'
               <= CopiesOf(new, p) + CopiesOf(retry, p) + Cardinality(Chargers(p)) + (-1)
          BY ONLY <1>1, <3>1, <3>2
        <4>4. Len(charges'[p]) + (-1) + events[p] + faults
               <= Len(charges[p]) + events'[p] + faults'
          BY ONLY SMTT(60), <1>1, <3>1, <3>2
        <4>5. QED
          BY ONLY <4>1, <4>2, <4>3, <4>4
      <3>4. QED
        BY <3>3
    <2>6. CASE p # q
      <3>1. /\ Cardinality(Charging(p)') <= Cardinality(Charging(p))
            /\ Cardinality(Chargers(p)') = Cardinality(Chargers(p))
        BY <1>1, <1>2, <1>3, <2>1, <2>4, <2>6 DEF MayCharge, Works, At
      <3>2. Bound(0)
        BY SMTT(60), <1>1, <2>2, <2>3, <2>6, <3>1
      <3>3. QED
        BY <3>2
    <2>7. QED
      BY <2>5, <2>6
  <1>7. ASSUME NEW h \in Handler,
               \/ Get(h) \/ UpdateStatus(h) \/ Commit(h) \/ Reread(h) \/ PostAccepted(h)
               \/ PostFailed(h) \/ PostRaises(h) \/ Ack(h) \/ Reject(h)
        PROVE  \E d : Bound(d)
    <2>1. /\ UNCHANGED <<new, retry, events, charges, faults>>
          /\ Step(h) /\ ~At(h, "idle")
      BY <1>7 DEF Get, UpdateStatus, Commit, Reread, PostAccepted, PostFailed, PostRaises,
        Ack, Reject, broker, world, Step, At
    <2>2. CASE IsFinal(p)
      <3>1. Works(h, p)' /\ At(h, "charge")' => Works(h, p) /\ At(h, "charge")
        BY <1>7, <2>2 DEF Get, UpdateStatus, Commit, Reread, PostAccepted, PostFailed,
          PostRaises, Ack, Reject, Finish, Works, At, Goto, TypeOK, local
      <3>2. Cardinality(Charging(p)') <= Cardinality(Charging(p))
        BY <1>3, <2>1, <3>1
      <3>3. Bound(0)
        BY <1>1, <2>1, <2>2, <3>2
      <3>4. QED
        BY <3>3
    <2>3. CASE ~IsFinal(p)
      <3>1. At(h, "send") => msg[h].payment # p
        BY <2>1, <2>3 DEF OutcomeInv, HandlersInformed, HandlerInformed
      <3>2. MayCharge(h, p)' => MayCharge(h, p)
        <4>1. CASE Get(h) \/ UpdateStatus(h) \/ Commit(h) \/ Reread(h) \/ PostAccepted(h)
          BY SMTT(60), <4>1 DEF Get, UpdateStatus, Commit, Reread, PostAccepted, MayCharge, Works,
            At, Goto, TypeOK, local
        <4>2. CASE PostFailed(h) \/ PostRaises(h)
          BY <3>1, <4>2 DEF PostFailed, PostRaises, MayCharge, Works, At, Goto, TypeOK, local
        <4>3. CASE Ack(h) \/ Reject(h)
          BY ZenonT(60), <4>3 DEF Ack, Reject, Finish, MayCharge, Works, At, Goto, TypeOK
        <4>4. QED
          BY <1>7, <4>1, <4>2, <4>3
      <3>3. Cardinality(Chargers(p)') <= Cardinality(Chargers(p)) /\ Cardinality(Chargers(p)') \in Nat
        BY <1>1, <1>2, <2>1, <3>2
      <3>4. Bound(0)
        BY SMTT(60), <1>1, <2>1, <2>3, <3>3
      <3>5. QED
        BY <3>4
    <2>4. QED
      BY <2>2, <2>3
  <1>8. ASSUME NEW h \in Handler, HandleFailure(h) PROVE \E d : Bound(d)
    <2>1. /\ msg[h] \in Message /\ OnFailure(msg[h]) /\ Step(h)
          /\ UNCHANGED <<new, events, charges, faults>>
      BY <1>8 DEF HandleFailure, At, world, Step
    <2>2. /\ ~MayCharge(h, p)' /\ (MayCharge(h, p) <=> msg[h].payment = p)
          /\ ~At(h, "charge")'
      BY <1>8 DEF HandleFailure, MayCharge, Works, At, Goto, TypeOK, local
    <2>3. /\ Cardinality(Chargers(p)')
               = IF msg[h].payment = p THEN Cardinality(Chargers(p)) - 1
                                       ELSE Cardinality(Chargers(p))
          /\ Cardinality(Charging(p)') <= Cardinality(Charging(p))
      BY <1>1, <1>2, <1>3, <2>1, <2>2
    <2>4. /\ CopiesOf(retry', p) \in Nat
          /\ CopiesOf(retry', p) <= IF msg[h].payment = p THEN CopiesOf(retry, p) + 1
                                                          ELSE CopiesOf(retry, p)
      BY <2>1, FailureCopies
    <2>5. Bound(0)
      BY SMTT(60), <1>1, <2>1, <2>3, <2>4
    <2>6. QED
      BY <2>5
  <1>9. ASSUME NEW h \in Handler, DatabaseError(h) \/ HandleFailureRaises(h)
        PROVE  \E d : Bound(d)
    <2>1. /\ HandlerFault(h) /\ ~At(h, "idle")
          /\ UNCHANGED <<new, events, charges>> /\ faults' = faults + 1
      BY <1>9 DEF HandlerFault, DatabaseError, HandleFailureRaises, Fault, At, broker, world
    <2>2. ~At(h, "charge")' /\ (HandleFailureRaises(h) => ~MayCharge(h, p)')
      BY <1>9 DEF DatabaseError, HandleFailureRaises, MayCharge, At, Goto, TypeOK
    <2>3. /\ Cardinality(Charging(p)') \in Nat
          /\ Cardinality(Charging(p)') <= Cardinality(Charging(p))
          /\ Cardinality(Chargers(p)') \in Nat
          /\ Cardinality(Chargers(p)') <= Cardinality(Chargers(p)) + 1
          /\ HandleFailureRaises(h) => Cardinality(Chargers(p)') <= Cardinality(Chargers(p))
      BY <1>1, <1>2, <1>3, <2>1, <2>2
    <2>4. CASE DatabaseError(h)
      <3>1. retry' = retry
        BY <2>4 DEF DatabaseError, broker
      <3>2. Bound(1)
        <4>1. 1 \in Int
          OBVIOUS
        <4>2. Cardinality(Charging(p))' <= Cardinality(Charging(p)) + 1
          BY ONLY <1>1, <2>1, <2>3, <3>1
        <4>3. CopiesOf(new', p) + CopiesOf(retry', p) + Cardinality(Chargers(p))'
               <= CopiesOf(new, p) + CopiesOf(retry, p) + Cardinality(Chargers(p)) + 1
          BY ONLY <1>1, <2>1, <2>3, <3>1
        <4>4. Len(charges'[p]) + 1 + events[p] + faults
               <= Len(charges[p]) + events'[p] + faults'
          BY ONLY SMTT(60), <1>1, <2>1, <2>3, <3>1
        <4>5. QED
          BY ONLY <4>1, <4>2, <4>3, <4>4
      <3>3. QED
        BY <3>2
    <2>5. CASE HandleFailureRaises(h)
      <3>1. msg[h] \in Message
        BY <2>1
      <3>2. CopiesOf(retry', p) \in Nat /\ CopiesOf(retry', p) <= CopiesOf(retry, p) + 1
        <4>1. CASE OnFailure(msg[h])
          BY <3>1, <4>1, FailureCopies
        <4>2. CASE UNCHANGED <<retry, dlq>>
          BY <4>2
        <4>3. QED
          BY <2>5, <4>1, <4>2 DEF HandleFailureRaises
      <3>3. Bound(1)
        <4>1. 1 \in Int
          OBVIOUS
        <4>2. Cardinality(Charging(p))' <= Cardinality(Charging(p)) + 1
          BY ONLY <1>1, <2>1, <2>3, <2>5, <3>2
        <4>3. CopiesOf(new', p) + CopiesOf(retry', p) + Cardinality(Chargers(p))'
               <= CopiesOf(new, p) + CopiesOf(retry, p) + Cardinality(Chargers(p)) + 1
          BY ONLY SMTT(60), <1>1, <2>1, <2>3, <2>5, <3>2
        <4>4. Len(charges'[p]) + 1 + events[p] + faults
               <= Len(charges[p]) + events'[p] + faults'
          BY ONLY SMTT(60), <1>1, <2>1, <2>3, <2>5, <3>2
        <4>5. QED
          BY ONLY <4>1, <4>2, <4>3, <4>4
      <3>4. QED
        BY <3>3
    <2>6. QED
      BY <1>9, <2>4, <2>5
  <1>10. ASSUME Expire PROVE \E d : Bound(d)
    <2> PICK m \in DOMAIN retry : retry' = BagRemove(retry, m) /\ new' = BagAdd(new, m)
      BY <1>10 DEF Expire
    <2>1. m \in Message
      BY DEF TypeOK, IsBagOver
    <2>2. /\ Chargers(p)' = Chargers(p) /\ Charging(p)' = Charging(p)
          /\ UNCHANGED <<charges, events, faults>>
      BY <1>10 DEF Expire, Chargers, MayCharge, Charging, Works, At, local, world
    <2>3. Bound(0)
      BY SMTT(60), <1>1, <2>1, <2>2
    <2>4. QED
      BY <2>3
  <1>11. ASSUME NEW h \in Handler, ChannelLost(h) \/ Crash(h) PROVE \E d : Bound(d)
    <2>1. /\ ~At(h, "idle") /\ msg[h] \in Message /\ Requeue(h) /\ HandlerFault(h)
          /\ UNCHANGED <<retry, events, charges>> /\ faults' = faults + 1
      BY <1>11 DEF ChannelLost, Crash, Fault, HandlerFault, TypeOK, world
    <2>2. /\ MayCharge(h, p)' => MayCharge(h, p)
          /\ Works(h, p)' /\ At(h, "charge")' => Works(h, p) /\ At(h, "charge")
      BY <1>11 DEF ChannelLost, Crash, Finish, MayCharge, Works, At, Goto, TypeOK
    <2>3. /\ Cardinality(Charging(p)') \in Nat
          /\ Cardinality(Charging(p)') <= Cardinality(Charging(p))
          /\ Cardinality(Chargers(p)') \in Nat
          /\ Cardinality(Chargers(p)') <= Cardinality(Chargers(p))
      BY <1>1, <1>2, <1>3, <2>1, <2>2
    <2>4. CopiesOf(new', p) \in Nat /\ CopiesOf(new', p) <= CopiesOf(new, p) + 1
      BY <2>1 DEF Requeue
    <2>5. Bound(1)
      <3>1. 1 \in Int
        OBVIOUS
      <3>2. Cardinality(Charging(p))' <= Cardinality(Charging(p)) + 1
        BY ONLY <1>1, <2>1, <2>3, <2>4
      <3>3. CopiesOf(new', p) + CopiesOf(retry', p) + Cardinality(Chargers(p))'
             <= CopiesOf(new, p) + CopiesOf(retry, p) + Cardinality(Chargers(p)) + 1
        BY ONLY <1>1, <2>1, <2>3, <2>4
      <3>4. Len(charges'[p]) + 1 + events[p] + faults
             <= Len(charges[p]) + events'[p] + faults'
        BY ONLY SMTT(60), <1>1, <2>1, <2>3, <2>4
      <3>5. QED
        BY ONLY <3>1, <3>2, <3>3, <3>4
    <2>6. QED
      BY <2>5
  <1>12. ASSUME UNCHANGED vars PROVE \E d : Bound(d)
    <2>1. /\ Chargers(p)' = Chargers(p) /\ Charging(p)' = Charging(p)
          /\ UNCHANGED <<new, retry, charges, events, faults>>
      BY <1>12 DEF vars, broker, Chargers, MayCharge, Charging, Works, At, local, world
    <2>2. Bound(0)
      BY SMTT(60), <1>1, <2>1
    <2>3. QED
      BY <2>2
  <1>13. PICK d : Bound(d)
    BY <1>4, <1>5, <1>6, <1>7, <1>8, <1>9, <1>10, <1>11, <1>12 DEF Next, Step, HandlerFault
  <1>14. Potential(p)' <= Potential(p) + d
    BY <1>13, FinalStays, PotentialChange
  <1>15. QED
    BY <1>13, <1>14

\* ChargeInv from the first state on.
LEMMA InitCharges == Init => ChargeInv
  <1> SUFFICES ASSUME Init PROVE ChargeInv
    OBVIOUS
  <1>1. ASSUME NEW p \in Payment
        PROVE  Len(charges[p]) + Potential(p) <= events[p] + faults
    <2>1. /\ Chargers(p) = {} /\ Charging(p) = {}
          /\ CopiesOf(new, p) = 0 /\ CopiesOf(retry, p) = 0
          /\ events[p] = 0 /\ faults = 0 /\ Len(charges[p]) = 0
      BY NoCopies DEF Init, Chargers, MayCharge, Charging, Works, At
    <2>2. Potential(p) = 0
      BY <2>1, FS_EmptySet DEF Potential
    <2>3. QED
      BY <2>1, <2>2
  <1>2. \A h \in Handler : ~At(h, "charge")
    BY DEF Init, At
  <1>3. QED
    BY <1>1, <1>2 DEF ChargeInv

\* A payment is charged once per publication of its event and once more per
\* infrastructure fault: failed webhooks and their retries alone never bring
\* the gateway a second charge.
THEOREM ChargesExplained == Spec => []ExtraChargeNeedsFault
  <1>1. Init => FiniteInv /\ ChargeInv
    BY InitFinite, InitCharges
  <1>2a. TypeOK' /\ FiniteInv' => ChargeNumbers'
    BY ChargesAreNumbers
  <1>2. TypeOK /\ TypeOK' /\ OutcomeInv /\ FiniteInv /\ ChargeInv /\ [Next]_vars
          => FiniteInv' /\ ChargeInv'
    <2> SUFFICES ASSUME TypeOK, TypeOK', OutcomeInv, FiniteInv, ChargeInv, [Next]_vars
                 PROVE  FiniteInv' /\ ChargeInv'
      OBVIOUS
    <2>1. FiniteInv'
      BY NextFinite
    <2>2. ASSUME NEW p \in Payment
          PROVE  Len(charges'[p]) + Potential(p)' <= events'[p] + faults'
      <3>1. Len(charges[p]) + Potential(p) <= events[p] + faults
        BY DEF ChargeInv
      <3>2. PICK d \in Int :
              /\ Potential(p)' <= Potential(p) + d
              /\ Len(charges'[p]) + d + events[p] + faults
                   <= Len(charges[p]) + events'[p] + faults'
        BY <2>1, NextCharges
      <3>3. Potential(p) \in Nat
        BY HandlersCount, CopiesChange DEF Potential
      <3>4. Potential(p)' \in Nat
        BY <1>2a, <2>1 DEF ChargeNumbers, Potential
      <3>5. /\ events[p] \in Nat /\ faults \in Nat /\ Len(charges[p]) \in Nat
            /\ events'[p] \in Nat /\ faults' \in Nat /\ Len(charges'[p]) \in Nat
        BY ProcessAssumption DEF TypeOK
      <3> DEFINE x == Len(charges[p])   x1 == Len(charges'[p])
                 y == Potential(p)      y1 == Potential(p)'
                 b == events[p]         b1 == events'[p]
                 c == faults            c1 == faults'
      <3>6. /\ x \in Nat /\ y \in Nat /\ b \in Nat /\ c \in Nat
            /\ x1 \in Nat /\ y1 \in Nat /\ b1 \in Nat /\ c1 \in Nat
            /\ x + y <= b + c /\ y1 <= y + d
            /\ x1 + d + b + c <= x + b1 + c1
        BY ONLY <3>1, <3>2, <3>3, <3>4, <3>5
      <3>7. x1 + y1 <= b1 + c1
        <4> HIDE DEF x, x1, y, y1, b, b1, c, c1
        <4>1. QED
          BY ONLY <3>6
      <3>8. QED
        BY <3>7
    <2>3. \A h \in Handler : At(h, "charge")' => view'[h].status = "pending"
      BY ChargePending
    <2>4. QED
      BY <2>1, <2>2, <2>3 DEF ChargeInv
  <1>3. TypeOK /\ FiniteInv /\ ChargeInv => ExtraChargeNeedsFault
    <2> SUFFICES ASSUME TypeOK, FiniteInv, ChargeInv, NEW p \in Payment
                 PROVE  Len(charges[p]) <= events[p] + faults
      BY DEF ExtraChargeNeedsFault
    <2>1. Potential(p) \in Nat
      BY HandlersCount, CopiesChange DEF Potential
    <2>2. /\ events[p] \in Nat /\ faults \in Nat /\ Len(charges[p]) \in Nat
      BY ProcessAssumption DEF TypeOK
    <2>3. Len(charges[p]) + Potential(p) <= events[p] + faults
      BY DEF ChargeInv
    <2>4. QED
      BY ONLY <2>1, <2>2, <2>3
  <1>4. QED
    BY <1>1, <1>2, <1>3, InitOutcome, NextOutcome, TypeCorrect, PTL DEF Spec
=============================================================================
