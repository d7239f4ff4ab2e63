------------------------- MODULE OutboxRelayProofs -------------------------
(***************************************************************************)
(* Theorems about OutboxRelay, for any events, relays, batch size and      *)
(* number of faults.                                                       *)
(***************************************************************************)
EXTENDS OutboxRelay, SequenceTheorems, FiniteSetTheorems, TLAPS

\* Inserting a row keeps the table a sequence of events, with that row more.
LEMMA InsertRows ==
  ASSUME outbox \in Seq(Event), NEW e \in Event, Insert(e)
  PROVE  outbox' \in Seq(Event) /\ Rows' = Rows \cup {e}
  <1> PICK i \in 1 .. Len(outbox) + 1 : outbox' = InsertAt(outbox, i, e)
    BY DEF Insert
  <1> DEFINE before == SubSeq(outbox, 1, i - 1)
             after == SubSeq(outbox, i, Len(outbox))
  <1>1. /\ before \in Seq(Event) /\ Len(before) = i - 1
        /\ \A j \in 1 .. i - 1 : before[j] = outbox[j]
    BY SubSeqProperties
  <1>2. /\ after \in Seq(Event) /\ Len(after) = Len(outbox) - i + 1
        /\ \A j \in 1 .. Len(outbox) - i + 1 : after[j] = outbox[i + j - 1]
    BY SubSeqProperties
  <1> DEFINE upto == before \o <<e>>
  <1>3. outbox' = upto \o after
    BY DEF InsertAt
  <1> HIDE DEF before, after
  <1>4u. /\ upto \in Seq(Event) /\ Len(upto) = i /\ upto[i] = e
         /\ \A j \in 1 .. i - 1 : upto[j] = before[j]
    BY <1>1
  <1> HIDE DEF upto
  <1>4c. /\ outbox' \in Seq(Event) /\ Len(outbox') = Len(upto) + Len(after)
         /\ \A j \in 1 .. Len(upto) : outbox'[j] = upto[j]
         /\ \A j \in 1 .. Len(after) : outbox'[Len(upto) + j] = after[j]
    <2>1. upto \in Seq(Event) /\ after \in Seq(Event)
      BY <1>2, <1>4u
    <2>2. QED
      BY <1>3, <2>1
  <1>4. /\ outbox' \in Seq(Event) /\ Len(outbox') = Len(outbox) + 1
        /\ \A j \in 1 .. i - 1 : outbox'[j] = before[j]
        /\ \A j \in 1 .. Len(outbox) - i + 1 : outbox'[i + j] = after[j]
    <2>1. Len(outbox') = Len(outbox) + 1
      BY ONLY <1>2, <1>4u, <1>4c, outbox \in Seq(Event), i \in 1 .. Len(outbox) + 1
    <2>2. \A j \in 1 .. i - 1 : outbox'[j] = before[j]
      BY <1>4u, <1>4c
    <2>3. \A j \in 1 .. Len(outbox) - i + 1 : outbox'[i + j] = after[j]
      <3>1. Len(upto) = i /\ Len(after) = Len(outbox) - i + 1
        BY <1>2, <1>4u
      <3>2. QED
        BY <1>4c, <3>1, Zenon
    <2>4. QED
      BY <1>4c, <2>1, <2>2, <2>3
  <1>4a. outbox'[i] = e
    BY <1>4u, <1>4c
  <1>5. ASSUME NEW j \in 1 .. Len(outbox) PROVE outbox[j] \in Rows'
    <2>1. CASE j < i
      BY SMTT(60), <1>1, <1>4, <2>1 DEF Rows
    <2>2. CASE j >= i
      <3>1. outbox'[j + 1] = outbox[j]
        <4>1. j - i + 1 \in 1 .. Len(outbox) - i + 1
          BY <2>2
        <4>2. after[j - i + 1] = outbox[j] /\ outbox'[j + 1] = after[j - i + 1]
          BY <1>2, <1>4, <4>1
        <4>3. QED
          BY <4>2
      <3>2. j + 1 \in 1 .. Len(outbox')
        BY <1>4
      <3>3. QED
        BY <3>1, <3>2 DEF Rows
    <2>3. QED
      BY <2>1, <2>2
  <1>6. ASSUME NEW j \in 1 .. Len(outbox') PROVE outbox'[j] \in Rows \cup {e}
    <2>1. CASE j < i
      BY <1>1, <1>4, <2>1 DEF Rows
    <2>2. CASE j = i
      BY <1>4a, <2>2
    <2>3. CASE j > i
      <3>1. j - i \in 1 .. Len(outbox) - i + 1 /\ j = i + (j - i)
        BY <1>4, <2>3
      <3>2. outbox'[j] = after[j - i] /\ after[j - i] = outbox[j - 1]
        <4>1. outbox'[i + (j - i)] = after[j - i]
          BY <1>4, <3>1
        <4>2. after[j - i] = outbox[i + (j - i) - 1]
          BY <1>2, <3>1
        <4>3. i + (j - i) - 1 = j - 1
          OBVIOUS
        <4>4. QED
          BY <3>1, <4>1, <4>2, <4>3
      <3>3. j - 1 \in 1 .. Len(outbox)
        BY <1>4, <2>3
      <3>4. QED
        BY <3>2, <3>3 DEF Rows
    <2>4. QED
      BY <2>1, <2>2, <2>3
  <1>7. e \in Rows'
    BY <1>4, <1>4a DEF Rows
  <1>8. QED
    BY <1>4, <1>5, <1>6, <1>7 DEF Rows

\* Every row of the table is an event.
LEMMA RowsAreEvents ==
  ASSUME TypeOK PROVE Rows \subseteq Event
  BY DEF TypeOK, Rows

\* Losing a session or a process keeps the types of the locks and batches.
LEMMA FaultTypeOK ==
  ASSUME TypeOK, Fault PROVE faults' \in 0 .. MaxFaults
  BY RelayAssumption DEF TypeOK, Fault

\* Before the first request every variable has its type.
LEMMA InitTypeOK == Init => TypeOK
  BY RelayAssumption DEF Init, TypeOK, At, Labels

\* No action of a writer, a relay or a fault takes a variable out of its type.
LEMMA NextTypeOK == TypeOK /\ [Next]_vars => TypeOK'
  <1> SUFFICES ASSUME TypeOK, [Next]_vars PROVE TypeOK'
    OBVIOUS
  <1> USE DEF TypeOK, At, Goto, Labels, pass
  <1>1. ASSUME NEW e \in Event, Insert(e) PROVE TypeOK'
    BY <1>1, InsertRows DEF Insert
  <1>2. ASSUME NEW r \in Relay, Start(r) \/ Wake(r) PROVE TypeOK'
    BY <1>2 DEF Start, Wake
  <1>3. ASSUME NEW r \in Relay, LockBatch(r) PROVE TypeOK'
    <2> PICK rows \in SUBSET Candidates :
          /\ batch' = [batch EXCEPT ![r] = rows]
          /\ locked' = [locked EXCEPT ![r] = rows]
          /\ pc' = [pc EXCEPT ![r] = IF rows = {} THEN "sleep" ELSE "publish"]
      BY <1>3 DEF LockBatch
    <2>1. rows \subseteq Event
      BY RowsAreEvents DEF Candidates, Free
    <2>2. QED
      BY <1>3, <2>1 DEF LockBatch
  <1>4. ASSUME NEW r \in Relay, NEW e \in Event, Advance(r, e)
        PROVE  /\ pc' \in [Relay -> Labels] /\ batch' \in [Relay -> SUBSET Event]
               /\ \A q \in Relay : pc'[q] = "publish" <=> batch'[q] # {}
    BY <1>4 DEF Advance, IsNext
  <1>5. ASSUME NEW r \in Relay, NEW e \in Event,
               PublishConfirmed(r, e) \/ PublishUnreachable(r, e)
        PROVE  TypeOK'
    <2>1. CASE PublishConfirmed(r, e)
      <3>1. sent' \in [Event -> Nat] /\ done' \in [Relay -> SUBSET Event]
        BY <2>1 DEF PublishConfirmed
      <3>2. QED
        BY <1>4, <2>1, <3>1 DEF PublishConfirmed, Advance
    <2>2. CASE PublishUnreachable(r, e)
      BY <1>4, <2>2 DEF PublishUnreachable, Advance
    <2>3. QED
      BY <1>5, <2>1, <2>2
  <1>6. ASSUME NEW r \in Relay, NEW e \in Event, PublishUnconfirmed(r, e) PROVE TypeOK'
    BY <1>4, <1>6, FaultTypeOK DEF PublishUnconfirmed, Advance
  <1>7. ASSUME NEW r \in Relay, Commit(r) PROVE TypeOK'
    BY <1>7 DEF Commit, EndPass
  <1>8. ASSUME NEW r \in Relay, PollError(r) \/ SessionLost(r) PROVE TypeOK'
    BY <1>8, FaultTypeOK DEF PollError, SessionLost
  <1>9. ASSUME NEW r \in Relay, CommitError(r) PROVE TypeOK'
    BY <1>9, FaultTypeOK DEF CommitError, EndPass
  <1>10. ASSUME NEW r \in Relay, Stop(r) PROVE TypeOK'
    BY <1>10, FaultTypeOK DEF Stop, EndPass
  <1>11. ASSUME BrokerFails \/ BrokerRecovers PROVE TypeOK'
    BY <1>11, FaultTypeOK DEF BrokerFails, BrokerRecovers
  <1>12. CASE UNCHANGED vars
    BY <1>12 DEF vars
  <1>13. QED
    BY <1>1, <1>2, <1>3, <1>5, <1>6, <1>7, <1>8, <1>9, <1>10, <1>11, <1>12
    DEF Next, Step, RelayFault

\* Type correctness: a relay is publishing exactly while its batch has rows.
THEOREM TypeCorrect == Spec => []TypeOK
  BY InitTypeOK, NextTypeOK, PTL DEF Spec

-----------------------------------------------------------------------------
(* No event is lost, and no row has two owners.                            *)

\* The inductive invariant: the two promises, and what a pass holds.
RelayInv == PassHoldsRows /\ PublishedWasSent /\ LocksExclusive

\* Rows are only ever added.
LEMMA RowsStay ==
  ASSUME TypeOK, [Next]_vars PROVE Rows \subseteq Rows'
  <1>1. CASE outbox' = outbox
    BY <1>1 DEF Rows
  <1>2. ASSUME NEW e \in Event, Insert(e) PROVE Rows \subseteq Rows'
    BY <1>2, InsertRows DEF TypeOK
  <1>3. QED
    BY <1>1, <1>2 DEF Next, Step, RelayFault, Start, Wake, LockBatch, Commit, Advance,
      PublishConfirmed, PublishUnreachable, PublishUnconfirmed, PollError, CommitError,
      SessionLost, Stop, BrokerFails, BrokerRecovers, vars

\* A pass that ends holds nothing, and disturbs no other pass.
LEMMA EndedPass ==
  ASSUME TypeOK, PassHoldsRows, NEW r \in Relay, EndPass(r), NEW l,
         pc' = [pc EXCEPT ![r] = l], Rows' = Rows, sent' = sent
  PROVE  PassHoldsRows'
  <1> SUFFICES ASSUME NEW q \in Relay
               PROVE  /\ batch'[q] \cup done'[q] \subseteq Rows'
                      /\ pc'[q] \in {"down", "poll", "sleep"} =>
                           batch'[q] = {} /\ done'[q] = {} /\ locked'[q] = {}
                      /\ locked'[q] # {} => batch'[q] \cup done'[q] \subseteq locked'[q]
                      /\ \A f \in done'[q] : sent'[f] > 0
    BY DEF PassHoldsRows
  <1>1. CASE q = r
    <2>1. batch'[r] = {} /\ done'[r] = {} /\ locked'[r] = {}
      BY DEF EndPass, TypeOK
    <2>2. QED
      BY <1>1, <2>1
  <1>2. CASE q # r
    <2>1. /\ pc'[q] = pc[q] /\ batch'[q] = batch[q]
          /\ done'[q] = done[q] /\ locked'[q] = locked[q]
      BY <1>2 DEF EndPass, TypeOK
    <2>2. QED
      BY <2>1 DEF PassHoldsRows
  <1>3. QED
    BY <1>1, <1>2

\* A pass whose session is lost still has its rows to publish, without locks.
LEMMA LostSession ==
  ASSUME TypeOK, PassHoldsRows, NEW r \in Relay, SessionLost(r)
  PROVE  PassHoldsRows'
  <1>1. \A q \in Relay : locked'[q] \in {locked[q], {}}
    BY DEF SessionLost, TypeOK
  <1>2. Rows' = Rows /\ UNCHANGED <<pc, batch, done, sent>>
    BY DEF SessionLost, Rows, pass
  <1>3. QED
    BY <1>1, <1>2 DEF PassHoldsRows

\* Every step keeps the invariant: a row is marked by the relay that sent
\* it, and locked by nobody else while the session lives.
LEMMA NextRelay == TypeOK /\ RelayInv /\ [Next]_vars => RelayInv'
  <1> SUFFICES ASSUME TypeOK, TypeOK', RelayInv, [Next]_vars PROVE RelayInv'
    BY NextTypeOK
  <1>0. Rows \subseteq Rows'
    BY RowsStay
  <1>a. PassHoldsRows
    BY DEF RelayInv
  <1>b. ASSUME NEW r \in Relay, Commit(r) \/ CommitError(r) \/ Stop(r)
        PROVE  PassHoldsRows'
    <2>1. Rows' = Rows /\ sent' = sent /\ EndPass(r)
      BY <1>b DEF Commit, CommitError, Stop, Rows
    <2>2. PICK l : pc' = [pc EXCEPT ![r] = l]
      BY <1>b DEF Commit, CommitError, Stop, Goto
    <2>3. QED
      BY <1>a, <2>1, <2>2, EndedPass
  <1>c. ASSUME NEW r \in Relay, SessionLost(r) PROVE PassHoldsRows'
    BY <1>a, <1>c, LostSession
  <1> USE <1>0 DEF RelayInv, PassHoldsRows, PublishedWasSent, LocksExclusive, TypeOK, At,
        Goto, pass
  <1>1. ASSUME NEW e \in Event, Insert(e) PROVE RelayInv'
    BY <1>1 DEF Insert
  <1>2. ASSUME NEW r \in Relay, Start(r) \/ Wake(r) PROVE RelayInv'
    BY <1>2 DEF Start, Wake
  <1>3. ASSUME NEW r \in Relay, LockBatch(r) PROVE RelayInv'
    <2> PICK rows \in SUBSET Candidates :
          /\ batch' = [batch EXCEPT ![r] = rows]
          /\ locked' = [locked EXCEPT ![r] = rows]
          /\ pc' = [pc EXCEPT ![r] = IF rows = {} THEN "sleep" ELSE "publish"]
      BY <1>3 DEF LockBatch
    <2>1. /\ rows \subseteq Rows \ published
          /\ \A q \in Relay : rows \cap locked[q] = {}
      BY DEF Candidates, Free
    <2>2. LocksExclusive'
      BY <1>3, <2>1 DEF LockBatch
    <2>3. PassHoldsRows' /\ PublishedWasSent'
      BY <1>3, <2>1 DEF LockBatch
    <2>4. QED
      BY <2>2, <2>3
  <1>4. ASSUME NEW r \in Relay, NEW e \in Event,
               PublishConfirmed(r, e) \/ PublishUnreachable(r, e) \/ PublishUnconfirmed(r, e)
        PROVE  RelayInv'
    <2>1. /\ pc[r] = "publish" /\ e \in batch[r]
          /\ pc' = [pc EXCEPT ![r] = IF batch[r] = {e} THEN "commit" ELSE "publish"]
          /\ batch' = [batch EXCEPT ![r] = @ \ {e}]
          /\ UNCHANGED <<published, locked>>
      BY <1>4 DEF PublishConfirmed, PublishUnreachable, PublishUnconfirmed, Advance, IsNext
    <2>2. /\ \A q \in Relay : done'[q] \subseteq done[q] \cup (IF q = r THEN {e} ELSE {})
          /\ e \in done'[r] => e \in done[r] \/ sent'[e] > 0
          /\ \A f \in Event : sent'[f] >= sent[f]
      <3>1. CASE PublishConfirmed(r, e)
        BY <3>1 DEF PublishConfirmed
      <3>2. CASE PublishUnreachable(r, e)
        BY <3>2 DEF PublishUnreachable
      <3>3. CASE PublishUnconfirmed(r, e)
        BY <3>3 DEF PublishUnconfirmed
      <3>4. QED
        BY <1>4, <3>1, <3>2, <3>3
    <2>3. PublishedWasSent' /\ LocksExclusive'
      BY SMTT(60), <2>1, <2>2
    <2>4. PassHoldsRows'
      <3> SUFFICES ASSUME NEW q \in Relay
                   PROVE  /\ batch'[q] \cup done'[q] \subseteq Rows'
                          /\ pc'[q] \in {"down", "poll", "sleep"} =>
                               batch'[q] = {} /\ done'[q] = {} /\ locked'[q] = {}
                          /\ locked'[q] # {} => batch'[q] \cup done'[q] \subseteq locked'[q]
                          /\ \A f \in done'[q] : sent'[f] > 0
        OBVIOUS
      <3>0. \A f \in done[q] : f \in Event /\ sent'[f] > 0
        BY <2>2
      <3>1. CASE q = r
        <4>1. pc'[r] \in {"commit", "publish"}
          BY <2>1
        <4>2. batch'[r] \subseteq batch[r] /\ done'[r] \subseteq done[r] \cup {e}
          BY <2>1, <2>2
        <4>3. \A f \in done'[r] : sent'[f] > 0
          BY <2>2, <3>0, <3>1
        <4>4. batch'[r] \cup done'[r] \subseteq batch[r] \cup done[r]
          BY <2>1, <4>2
        <4>5. QED
          BY <2>1, <3>1, <4>1, <4>3, <4>4
      <3>2. CASE q # r
        <4>1. /\ pc'[q] = pc[q] /\ batch'[q] = batch[q] /\ locked'[q] = locked[q]
              /\ done'[q] \subseteq done[q]
          BY <2>1, <2>2, <3>2
        <4>2. QED
          BY <3>0, <4>1
      <3>3. QED
        BY <3>1, <3>2
    <2>5. QED
      BY <2>3, <2>4
  <1>5. ASSUME NEW r \in Relay, Commit(r) PROVE RelayInv'
    <2>1. LocksExclusive'
      <3>1. /\ locked' = [locked EXCEPT ![r] = {}]
            /\ published' = IF locked[r] = {} THEN published ELSE published \cup done[r]
        BY <1>5 DEF Commit, EndPass
      <3>2. \A q \in Relay \ {r} : locked[r] # {} => locked[q] \cap done[r] = {}
        OBVIOUS
      <3>3. \A q \in Relay : locked'[q] = IF q = r THEN {} ELSE locked[q]
        BY <3>1
      <3>4. ASSUME NEW q \in Relay PROVE locked'[q] \cap published' = {}
        <4>1. locked[q] \cap published = {}
          OBVIOUS
        <4>2. CASE q = r
          BY <3>3, <4>2
        <4>3. CASE q # r
          BY <3>1, <3>2, <3>3, <4>1, <4>3
        <4>4. QED
          BY <4>2, <4>3
      <3>5. \A p, q \in Relay : p # q => locked'[p] \cap locked'[q] = {}
        BY <3>3
      <3>6. QED
        BY <3>4, <3>5
    <2>2. PublishedWasSent'
      BY <1>5 DEF Commit
    <2>3. PassHoldsRows'
      BY <1>5, <1>b
    <2>4. QED
      BY <2>1, <2>2, <2>3
  <1>6. ASSUME NEW r \in Relay, PollError(r) PROVE RelayInv'
    <2>1. LocksExclusive' /\ PublishedWasSent'
      BY <1>6 DEF PollError
    <2>2. PassHoldsRows'
      <3>1. /\ \A q \in Relay : pc'[q] = IF q = r THEN "sleep" ELSE pc[q]
            /\ batch[r] = {} /\ done[r] = {} /\ locked[r] = {}
        BY <1>6 DEF PollError
      <3>2. UNCHANGED <<batch, done, locked, sent>>
        BY <1>6 DEF PollError
      <3>3. QED
        BY <3>1, <3>2
    <2>3. QED
      BY <2>1, <2>2
  <1>7. ASSUME NEW r \in Relay, SessionLost(r) PROVE RelayInv'
    <2>1. LocksExclusive' /\ PublishedWasSent'
      BY <1>7 DEF SessionLost
    <2>2. PassHoldsRows'
      BY <1>7, <1>c
    <2>3. QED
      BY <2>1, <2>2
  <1>8. ASSUME NEW r \in Relay, CommitError(r) PROVE RelayInv'
    <2>1. LocksExclusive'
      <3>1. /\ locked' = [locked EXCEPT ![r] = {}]
            /\ published' \subseteq published \cup done[r]
            /\ done[r] \subseteq locked[r]
        BY <1>8 DEF CommitError, EndPass
      <3>2. \A q \in Relay \ {r} : locked[q] \cap locked[r] = {}
        OBVIOUS
      <3>3. \A q \in Relay : locked'[q] = IF q = r THEN {} ELSE locked[q]
        BY <3>1
      <3>4. \A q \in Relay : locked'[q] \cap published' = {}
        BY <3>1, <3>2, <3>3
      <3>5. \A p, q \in Relay : p # q => locked'[p] \cap locked'[q] = {}
        BY <3>3
      <3>6. QED
        BY <3>4, <3>5
    <2>2. PublishedWasSent'
      BY <1>8 DEF CommitError
    <2>3. PassHoldsRows'
      BY <1>8, <1>b
    <2>4. QED
      BY <2>1, <2>2, <2>3
  <1>9. ASSUME NEW r \in Relay, Stop(r) PROVE RelayInv'
    <2>1. LocksExclusive' /\ PublishedWasSent'
      BY <1>9 DEF Stop, EndPass
    <2>2. PassHoldsRows'
      BY <1>9, <1>b
    <2>3. QED
      BY <2>1, <2>2
  <1>10. ASSUME BrokerFails \/ BrokerRecovers PROVE RelayInv'
    BY <1>10 DEF BrokerFails, BrokerRecovers
  <1>11. CASE UNCHANGED vars
    BY <1>11 DEF vars
  <1>12. QED
    BY <1>1, <1>2, <1>3, <1>4, <1>5, <1>6, <1>7, <1>8, <1>9, <1>10, <1>11
    DEF Next, Step, RelayFault

\* With an empty table and idle relays the invariant holds.
LEMMA InitRelay == Init => RelayInv
  BY DEF Init, RelayInv, PassHoldsRows, PublishedWasSent, LocksExclusive, Rows

\* The relay never loses an event: published_at is committed only for rows of
\* the table whose event the broker has, through outages, lost confirms, lost
\* sessions and killed processes.
THEOREM NoEventLost == Spec => []PublishedWasSent
  <1>1. RelayInv => PublishedWasSent
    BY DEF RelayInv
  <1>2. QED
    BY <1>1, InitRelay, NextRelay, TypeCorrect, PTL DEF Spec

\* Any number of API processes can run a relay each: live passes never share a
\* row and never hold a published one.
THEOREM RelaysDisjoint == Spec => []LocksExclusive
  <1>1. RelayInv => LocksExclusive
    BY DEF RelayInv
  <1>2. QED
    BY <1>1, InitRelay, NextRelay, TypeCorrect, PTL DEF Spec

\* What a pass has still to publish or has published is in the table; locks go
\* with the transaction.
THEOREM PassesCorrect == Spec => []PassHoldsRows
  <1>1. RelayInv => PassHoldsRows
    BY DEF RelayInv
  <1>2. QED
    BY <1>1, InitRelay, NextRelay, TypeCorrect, PTL DEF Spec

-----------------------------------------------------------------------------
(* A duplicate costs a fault.                                              *)

\* The relays that will publish e although they no longer hold its lock.
Orphans(e) == {r \in Relay : locked[r] = {} /\ e \in batch[r]}

\* The publication of e is marked, or will be when its transaction commits.
Settled(e) ==
  e \in published \/ \E r \in Relay : e \in locked[r] /\ e \in done[r]

\* Every publication of an event but the settled one, made or still to come
\* from a relay without locks, is paid for by a fault.
PaidFor(e) ==
  sent[e] + Cardinality(Orphans(e)) <= faults + (IF Settled(e) THEN 1 ELSE 0)

DuplicateInv ==
  /\ \A r \in Relay : batch[r] \cap done[r] = {}
  /\ \A e \in Event : PaidFor(e)

\* The number of orphaned passes of an event is a number.
LEMMA OrphansFinite ==
  ASSUME NEW e PROVE IsFiniteSet(Orphans(e)) /\ Cardinality(Orphans(e)) \in Nat
  BY RelayAssumption, FS_Subset, FS_CardinalityType DEF Orphans

\* A step that orphans no pass, publishes nothing and settles no less keeps
\* every event paid for.
LEMMA QuietStep ==
  ASSUME TypeOK, TypeOK', NEW e \in Event, PaidFor(e), sent'[e] = sent[e],
         Orphans(e)' \subseteq Orphans(e),
         \/ faults' = faults /\ (Settled(e) => Settled(e)')
         \/ faults' = faults + 1
  PROVE  PaidFor(e)'
  <1>1. IsFiniteSet(Orphans(e)) /\ Cardinality(Orphans(e)) \in Nat
    BY OrphansFinite
  <1>2. Cardinality(Orphans(e)') \in Nat /\ Cardinality(Orphans(e)') <= Cardinality(Orphans(e))
    BY <1>1, FS_Subset, FS_CardinalityType
  <1> DEFINE n == Cardinality(Orphans(e))  m == Cardinality(Orphans(e)')
  <1>3. PaidFor(e)' <=> sent'[e] + m <= faults' + (IF Settled(e)' THEN 1 ELSE 0)
    BY DEF PaidFor
  <1>4. sent[e] + n <= faults + (IF Settled(e) THEN 1 ELSE 0)
    BY DEF PaidFor
  <1>5. sent[e] \in Nat /\ faults \in Nat /\ n \in Nat /\ m \in Nat /\ m <= n
    BY <1>1, <1>2 DEF TypeOK
  <1> HIDE DEF n, m
  <1>6. QED
    BY <1>3, <1>4, <1>5

\* A pass that loses its locks, or a publication that settles nothing, is paid
\* for by its fault.
LEMMA FaultStep ==
  ASSUME TypeOK, TypeOK', NEW e \in Event, PaidFor(e), NEW r \in Relay,
         faults' = faults + 1,
         \/ sent'[e] = sent[e] /\ Orphans(e)' \subseteq Orphans(e) \cup {r}
            /\ (Settled(e) => Settled(e)')
         \/ sent'[e] = sent[e] + 1 /\ Orphans(e)' \subseteq Orphans(e)
            /\ (Settled(e) => Settled(e)')
  PROVE  PaidFor(e)'
  <1>1. IsFiniteSet(Orphans(e)) /\ Cardinality(Orphans(e)) \in Nat
    BY OrphansFinite
  <1>2. /\ IsFiniteSet(Orphans(e) \cup {r})
        /\ Cardinality(Orphans(e) \cup {r}) <= Cardinality(Orphans(e)) + 1
    <2> DEFINE S == Orphans(e)
    <2> HIDE DEF S
    <2>1. /\ IsFiniteSet(S \cup {r})
          /\ Cardinality(S \cup {r}) = IF r \in S THEN Cardinality(S) ELSE Cardinality(S) + 1
      BY <1>1, FS_AddElement DEF S
    <2>2. Cardinality(S) \in Nat
      BY <1>1 DEF S
    <2>3. QED
      BY <2>1, <2>2 DEF S
  <1>3. /\ Orphans(e)' \subseteq Orphans(e) => Cardinality(Orphans(e)') <= Cardinality(Orphans(e))
        /\ Orphans(e)' \subseteq Orphans(e) \cup {r}
             => Cardinality(Orphans(e)') <= Cardinality(Orphans(e) \cup {r})
        /\ Orphans(e)' \subseteq Orphans(e) \cup {r} => Cardinality(Orphans(e)') \in Nat
    BY <1>1, <1>2, FS_Subset, FS_CardinalityType
  <1>4. Cardinality(Orphans(e) \cup {r}) \in Nat
    BY <1>2, FS_CardinalityType
  <1> DEFINE n == Cardinality(Orphans(e))  m == Cardinality(Orphans(e)')
  <1>5. PaidFor(e)' <=> sent'[e] + m <= faults' + (IF Settled(e)' THEN 1 ELSE 0)
    BY DEF PaidFor
  <1>6. sent[e] + n <= faults + (IF Settled(e) THEN 1 ELSE 0)
    BY DEF PaidFor
  <1>7. sent[e] \in Nat /\ faults \in Nat /\ n \in Nat /\ m \in Nat
    BY <1>1, <1>3 DEF TypeOK
  <1>8. \/ sent'[e] = sent[e] /\ m <= n + 1
        \/ sent'[e] = sent[e] + 1 /\ m <= n
    BY <1>1, <1>2, <1>3, <1>4, <1>7
  <1> HIDE DEF n, m
  <1>9. QED
    BY <1>5, <1>6, <1>7, <1>8

\* Publishing a row whose lock is still held settles it; publishing one whose
\* lock is lost uses up an orphan.
LEMMA PublishStep ==
  ASSUME TypeOK, TypeOK', RelayInv, DuplicateInv,
         NEW r \in Relay, NEW e \in Event, PublishConfirmed(r, e), NEW f \in Event
  PROVE  PaidFor(f)'
  <1>1. /\ e \in batch[r] /\ e \notin done[r]
        /\ batch' = [batch EXCEPT ![r] = @ \ {e}]
        /\ done' = [done EXCEPT ![r] = @ \cup {e}]
        /\ sent' = [sent EXCEPT ![e] = @ + 1]
        /\ UNCHANGED <<published, locked, faults>>
    BY DEF PublishConfirmed, Advance, IsNext, DuplicateInv
  <1> USE DEF TypeOK
  <1>2. /\ \A q \in Relay : batch'[q] = IF q = r THEN batch[r] \ {e} ELSE batch[q]
        /\ \A q \in Relay : done'[q] = IF q = r THEN done[r] \cup {e} ELSE done[q]
        /\ \A g \in Event : sent'[g] = IF g = e THEN sent[e] + 1 ELSE sent[g]
    BY <1>1
  <1>3. Settled(f) => Settled(f)'
    BY <1>1, <1>2 DEF Settled
  <1>4. Orphans(f)' = IF f = e THEN Orphans(e) \ {r} ELSE Orphans(f)
    BY <1>1, <1>2 DEF Orphans
  <1>5. PaidFor(f)
    BY DEF DuplicateInv
  <1>6. CASE f # e
    BY <1>1, <1>2, <1>3, <1>4, <1>5, <1>6, QuietStep
  <1>7. CASE f = e
    <2> DEFINE n == Cardinality(Orphans(e))  m == Cardinality(Orphans(e)')
    <2>1. IsFiniteSet(Orphans(e)) /\ n \in Nat
      BY OrphansFinite
    <2>2. m = IF r \in Orphans(e) THEN n - 1 ELSE n
      <3> DEFINE S == Orphans(e)  T == Orphans(e)'
      <3>1. T = S \ {r}
        BY <1>4, <1>7
      <3> HIDE DEF S, T
      <3>2. Cardinality(S \ {r}) = IF r \in S THEN Cardinality(S) - 1 ELSE Cardinality(S)
        BY <2>1, FS_RemoveElement DEF S
      <3>3. QED
        BY <3>1, <3>2 DEF S, T
    <2>3. /\ PaidFor(e)' <=> sent'[e] + m <= faults' + (IF Settled(e)' THEN 1 ELSE 0)
          /\ sent[e] + n <= faults + (IF Settled(e) THEN 1 ELSE 0)
      BY <1>5, <1>7 DEF PaidFor
    <2>4. sent[e] \in Nat /\ faults \in Nat /\ sent'[e] = sent[e] + 1 /\ faults' = faults
      BY <1>1, <1>2
    <2> HIDE DEF n, m
    <2>5. CASE locked[r] = {}
      <3>1. r \in Orphans(e)
        BY <1>1, <2>5 DEF Orphans
      <3>2. QED
        BY <3>1, <1>3, <1>7, <2>1, <2>2, <2>3, <2>4
    <2>6. CASE locked[r] # {}
      <3>1. e \in locked[r] /\ r \notin Orphans(e)
        BY <1>1, <2>6 DEF Orphans, RelayInv, PassHoldsRows
      <3>2. Settled(e)'
        BY <3>1, <1>1, <1>2 DEF Settled
      <3>3. ~Settled(e)
        BY <3>1, <1>1 DEF Settled, RelayInv, LocksExclusive
      <3>4. QED
        BY <3>1, <3>2, <3>3, <1>7, <2>1, <2>2, <2>3, <2>4
    <2>7. QED
      BY <2>5, <2>6
  <1>8. QED
    BY <1>6, <1>7

\* Every event stays paid for, and no pass publishes a row twice.
LEMMA NextDuplicate ==
  TypeOK /\ TypeOK' /\ RelayInv /\ DuplicateInv /\ [Next]_vars => DuplicateInv'
  <1> SUFFICES ASSUME TypeOK, TypeOK', RelayInv, DuplicateInv, [Next]_vars
               PROVE  DuplicateInv'
    OBVIOUS
  <1>1. \A r \in Relay : batch'[r] \cap done'[r] = {}
    <2> USE DEF TypeOK, DuplicateInv
    <2>1. ASSUME NEW r \in Relay, LockBatch(r)
          PROVE  \A q \in Relay : batch'[q] \cap done'[q] = {}
      <3>1. /\ \E rows : batch' = [batch EXCEPT ![r] = rows]
            /\ done' = done /\ done[r] = {}
        BY <2>1 DEF LockBatch, At, RelayInv, PassHoldsRows
      <3>2. QED
        BY <3>1
    <2>2. ASSUME NEW r \in Relay, NEW e \in Event,
                 PublishConfirmed(r, e) \/ PublishUnreachable(r, e) \/ PublishUnconfirmed(r, e)
          PROVE  \A q \in Relay : batch'[q] \cap done'[q] = {}
      BY ZenonT(60), <2>2 DEF PublishConfirmed, PublishUnreachable, PublishUnconfirmed, Advance
    <2>3. ASSUME NEW r \in Relay, Commit(r) \/ CommitError(r) \/ Stop(r)
          PROVE  \A q \in Relay : batch'[q] \cap done'[q] = {}
      BY <2>3 DEF Commit, CommitError, Stop, EndPass
    <2>4. ASSUME \/ UNCHANGED <<batch, done>>
          PROVE  \A q \in Relay : batch'[q] \cap done'[q] = {}
      BY <2>4
    <2>5. QED
      BY <2>1, <2>2, <2>3, <2>4 DEF Next, Step, RelayFault, Insert, Start, Wake, PollError,
        SessionLost, BrokerFails, BrokerRecovers, pass, vars
  <1>2. ASSUME NEW f \in Event PROVE PaidFor(f)'
    <2>0. PaidFor(f)
      BY DEF DuplicateInv
    <2>1. CASE UNCHANGED <<published, locked, batch, done, sent>> /\ faults' \in {faults, faults + 1}
      <3>1. Orphans(f)' = Orphans(f) /\ Settled(f)' = Settled(f) /\ sent'[f] = sent[f]
        BY <2>1 DEF Orphans, Settled
      <3>2. QED
        BY <3>1, <2>0, <2>1, QuietStep
    <2>2. ASSUME NEW r \in Relay, LockBatch(r) PROVE PaidFor(f)'
      <3>1. PICK rows : /\ batch' = [batch EXCEPT ![r] = rows]
                        /\ locked' = [locked EXCEPT ![r] = rows]
        BY <2>2 DEF LockBatch
      <3>2. /\ batch[r] = {} /\ locked[r] = {} /\ UNCHANGED <<published, done, sent, faults>>
        BY <2>2 DEF LockBatch, At, RelayInv, PassHoldsRows
      <3>3. \A q \in Relay : /\ batch'[q] = IF q = r THEN rows ELSE batch[q]
                             /\ locked'[q] = IF q = r THEN rows ELSE locked[q]
        BY <3>1 DEF TypeOK
      <3>4. Orphans(f)' \subseteq Orphans(f)
        BY <3>2, <3>3 DEF Orphans
      <3>5. Settled(f) => Settled(f)'
        BY <3>2, <3>3 DEF Settled
      <3>6. QED
        BY <3>2, <3>4, <3>5, <2>0, QuietStep
    <2>3. ASSUME NEW r \in Relay, NEW e \in Event, PublishConfirmed(r, e) PROVE PaidFor(f)'
      BY <2>3, PublishStep
    <2>4. ASSUME NEW r \in Relay, NEW e \in Event, PublishUnreachable(r, e) PROVE PaidFor(f)'
      <3>1. /\ batch' = [batch EXCEPT ![r] = @ \ {e}]
            /\ UNCHANGED <<published, locked, done, sent, faults>>
        BY <2>4 DEF PublishUnreachable, Advance
      <3>2. Orphans(f)' \subseteq Orphans(f) /\ (Settled(f) => Settled(f)')
        BY <3>1 DEF Orphans, Settled, TypeOK
      <3>3. QED
        BY <3>1, <3>2, <2>0, QuietStep
    <2>5. ASSUME NEW r \in Relay, NEW e \in Event, PublishUnconfirmed(r, e) PROVE PaidFor(f)'
      <3>1. /\ batch' = [batch EXCEPT ![r] = @ \ {e}]
            /\ UNCHANGED <<published, locked, done>>
            /\ faults' = faults + 1
            /\ sent'[f] = IF f = e THEN sent[f] + 1 ELSE sent[f]
        BY <2>5 DEF PublishUnconfirmed, Advance, Fault, TypeOK
      <3>2. Orphans(f)' \subseteq Orphans(f) /\ (Settled(f) => Settled(f)')
        BY <3>1 DEF Orphans, Settled, TypeOK
      <3>3. CASE f = e
        BY <3>1, <3>2, <3>3, <2>0, FaultStep
      <3>4. CASE f # e
        BY <3>1, <3>2, <3>4, <2>0, QuietStep
      <3>5. QED
        BY <3>3, <3>4
    <2>6. ASSUME NEW r \in Relay, Commit(r) PROVE PaidFor(f)'
      <3>1. /\ published' = IF locked[r] = {} THEN published ELSE published \cup done[r]
            /\ batch' = [batch EXCEPT ![r] = {}]
            /\ done' = [done EXCEPT ![r] = {}]
            /\ locked' = [locked EXCEPT ![r] = {}]
            /\ UNCHANGED <<sent, faults>>
        BY <2>6 DEF Commit, EndPass
      <3>2. Orphans(f)' \subseteq Orphans(f)
        BY <3>1 DEF Orphans, TypeOK
      <3>3. Settled(f) => Settled(f)'
        BY <3>1 DEF Settled, TypeOK
      <3>4. QED
        BY <3>1, <3>2, <3>3, <2>0, QuietStep
    <2>7. ASSUME NEW r \in Relay, CommitError(r) \/ Stop(r) PROVE PaidFor(f)'
      <3>1. /\ batch' = [batch EXCEPT ![r] = {}]
            /\ locked' = [locked EXCEPT ![r] = {}]
            /\ sent' = sent /\ faults' = faults + 1
        BY <2>7 DEF CommitError, Stop, EndPass, Fault
      <3>2. Orphans(f)' \subseteq Orphans(f)
        BY <3>1 DEF Orphans, TypeOK
      <3>3. QED
        BY <3>1, <3>2, <2>0, QuietStep
    <2>8. ASSUME NEW r \in Relay, SessionLost(r) PROVE PaidFor(f)'
      <3>1. /\ locked' = [locked EXCEPT ![r] = {}]
            /\ UNCHANGED <<published, batch, done, sent>> /\ faults' = faults + 1
        BY <2>8 DEF SessionLost, Fault, pass
      <3>2. \A q \in Relay : locked'[q] = IF q = r THEN {} ELSE locked[q]
        BY <3>1 DEF TypeOK
      <3>3. CASE f \in batch[r]
        <4>1. f \notin done[r]
          BY <3>3 DEF DuplicateInv
        <4>2. Settled(f) => Settled(f)'
          BY <3>1, <3>2, <4>1 DEF Settled
        <4>3. Orphans(f)' \subseteq Orphans(f) \cup {r}
          BY <3>1, <3>2 DEF Orphans
        <4>4. QED
          BY <3>1, <4>2, <4>3, <2>0, FaultStep
      <3>4. CASE f \notin batch[r]
        <4>1. Orphans(f)' \subseteq Orphans(f)
          BY <3>1, <3>2, <3>4 DEF Orphans
        <4>2. QED
          BY <3>1, <4>1, <2>0, QuietStep
      <3>5. QED
        BY <3>3, <3>4
    <2>9. \/ UNCHANGED <<published, locked, batch, done, sent>> /\ faults' \in {faults, faults + 1}
          \/ \E r \in Relay : \/ LockBatch(r) \/ Commit(r) \/ CommitError(r) \/ Stop(r)
                              \/ SessionLost(r)
                              \/ \E e \in Event : \/ PublishConfirmed(r, e)
                                                  \/ PublishUnreachable(r, e)
                                                  \/ PublishUnconfirmed(r, e)
      BY DEF Next, Step, RelayFault, Insert, Start, Wake, PollError, BrokerFails,
        BrokerRecovers, Fault, pass, vars
    <2>10. QED
      BY <2>1, <2>2, <2>3, <2>4, <2>5, <2>6, <2>7, <2>8, <2>9
  <1>3. QED
    BY <1>1, <1>2 DEF DuplicateInv

\* With no pass under way nothing was published yet.
LEMMA InitDuplicate == Init => DuplicateInv
  <1> SUFFICES ASSUME Init PROVE DuplicateInv
    OBVIOUS
  <1>1. \A e \in Event : Orphans(e) = {}
    BY DEF Init, Orphans
  <1>2. \A e \in Event : Cardinality(Orphans(e)) = 0 /\ sent[e] = 0 /\ faults = 0
    BY <1>1, FS_EmptySet DEF Init
  <1>3. \A e \in Event : PaidFor(e)
    BY <1>2 DEF PaidFor
  <1>4. QED
    BY <1>3 DEF Init, DuplicateInv

\* What is paid for is bounded by the faults.
LEMMA PaidForBounds == TypeOK /\ DuplicateInv => DuplicateNeedsFault
  <1> SUFFICES ASSUME TypeOK, DuplicateInv, NEW e \in Event PROVE sent[e] <= 1 + faults
    BY DEF DuplicateNeedsFault
  <1>1. PaidFor(e) /\ Cardinality(Orphans(e)) \in Nat /\ sent[e] \in Nat /\ faults \in Nat
    BY OrphansFinite DEF DuplicateInv, TypeOK
  <1> DEFINE n == Cardinality(Orphans(e))
  <1>2. sent[e] + n <= faults + (IF Settled(e) THEN 1 ELSE 0)
    BY <1>1 DEF PaidFor
  <1> HIDE DEF n
  <1>3. QED
    BY <1>1, <1>2 DEF n

\* However many relays run side by side, an event is published once, and once
\* more at most for every fault.
THEOREM DuplicatesCostFaults == Spec => []DuplicateNeedsFault
  BY InitRelay, NextRelay, InitDuplicate, NextDuplicate, PaidForBounds, TypeCorrect, PTL
  DEF Spec
=============================================================================
