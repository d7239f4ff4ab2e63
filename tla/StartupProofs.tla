--------------------------- MODULE StartupProofs ---------------------------
(***************************************************************************)
(* Theorems about Startup, for any processes, events and number of faults. *)
(***************************************************************************)
EXTENDS Startup, TLAPS

\* The topology has eight objects, and its declaration names each.
LEMMA TopologyObjects ==
  Len(Topology) = 8 /\ Object = {Topology[i] : i \in 1 .. 8}
  BY DEF Topology, Object

\* The routes of the three keys are objects of the topology.
LEMMA RoutesDeclared ==
  /\ RoutingKey \subseteq Object
  /\ \A key \in RoutingKey : Exchange(key) \in Object /\ Queue(key) \in Places \ {"lost", "outbox"}
  /\ "payments" \in Object
  <1>1. /\ Topology[1] = "payments" /\ Topology[2] = "payments.dlx"
        /\ Topology[6] = "payment.new" /\ Topology[7] = "payment.retry"
        /\ Topology[8] = "payment.dead"
    BY DEF Topology
  <1>2. Object = {Topology[i] : i \in 1 .. 8}
    BY TopologyObjects
  <1> HIDE DEF Topology
  <1>3. \A i \in 1 .. 8 : Topology[i] \in Object
    BY <1>2
  <1>4. {"payments", "payments.dlx", "payment.new", "payment.retry", "payment.dead"} \subseteq Object
    BY <1>1, <1>3
  <1>5. QED
    BY <1>4 DEF RoutingKey, Exchange, Queue, Places

\* The inductive invariant: what is declared stays, so the first API process
\* that is up has made the topology complete for good.
StartupInv == DeclaredStays /\ TopologyFirst /\ NothingLost

\* With the topology complete every publication reaches its queue.
LEMMA RoutedArrives ==
  ASSUME NEW key \in RoutingKey, \A o \in Object : Exists(o)
  PROVE  Routed(key) = Queue(key) /\ Routed(key) \in Places \ {"lost", "outbox"}
  BY RoutesDeclared DEF Routed

\* The relay of a process runs only with the topology complete.
LEMMA RelayingComplete ==
  ASSUME DeclaredStays, NEW p \in Process, Relaying(p)
  PROVE  \A o \in Object : Exists(o)
  <1>1. step[p] = 8 /\ Startup(p) = Topology
    BY TopologyObjects DEF Relaying, Up, Startup, ApiStartup
  <1>2. \A i \in 1 .. 8 : Topology[i] \in Object => Exists(Topology[i])
    BY <1>1 DEF DeclaredStays
  <1>3. QED
    BY <1>2, TopologyObjects

\* No step takes a variable out of its type.
LEMMA NextTypeOK == TypeOK /\ StartupInv /\ [Next]_vars => TypeOK'
  <1> SUFFICES ASSUME TypeOK, StartupInv, [Next]_vars PROVE TypeOK'
    OBVIOUS
  <1> USE DEF TypeOK
  <1>1. CASE Migrate \/ MigrationFails
    <2>1. Len(Ddl) = 4 /\ DOMAIN Ddl = 1 .. 4
      BY DEF Ddl
    <2> HIDE DEF Ddl
    <2>2. (schema' = {} \/ Migrated') /\ ddl' \in 0 .. Len(Ddl)
      BY <1>1, <2>1 DEF Migrate, RunDdl, CommitMigration, MigrationFails, Migrated
    <2>3. faults' \in 0 .. MaxFaults /\ UNCHANGED <<declared, step, place>>
      BY <1>1, StartupAssumption DEF Migrate, RunDdl, CommitMigration, MigrationFails, Fault
    <2>4. QED
      BY <2>2, <2>3
  <1>2. ASSUME NEW p \in Process, Start(p) PROVE TypeOK'
    <2> DEFINE o == Startup(p)[step[p] + 1]
    <2>1. /\ step' = [step EXCEPT ![p] = 0] /\ declared' = declared
          \/ /\ step' = [step EXCEPT ![p] = @ + 1]
             /\ declared' = [x \in Object |-> IF x = o THEN "fixed" ELSE declared[x]]
      BY <1>2 DEF Start, Declare, Arguments
    <2> HIDE DEF o
    <2>2. step[p] # Len(Startup(p)) /\ Len(Startup(p)) \in Nat
      BY <1>2 DEF Start, Up, Startup, ApiStartup, ConsumerStartup, Topology
    <2>3. step[p] + 1 <= Len(Startup(p)) /\ step[p] + 1 \in Nat
      BY <2>2
    <2>4. declared' \in [Object -> {NULL, "fixed"}] /\ step' \in [Process -> Nat]
      BY <2>1
    <2>5. \A q \in Process : step'[q] <= Len(Startup(q))
      <3>1. \A q \in Process : step'[q] = IF q = p THEN step'[p] ELSE step[q]
        BY <2>1
      <3>2. step'[p] \in {0, step[p] + 1} /\ step'[p] <= Len(Startup(p))
        BY <2>1, <2>2, <2>3
      <3>3. QED
        BY <3>1, <3>2
    <2>6. QED
      BY <1>2, <2>4, <2>5 DEF Start, Migrated
  <1>3. ASSUME NEW e \in Event,
               \/ Expire(e)
               \/ \E p \in Process : Publish(p, e) \/ Deliver(p, e) \/ Succeed(p, e) \/ Fail(p, e)
        PROVE  TypeOK'
    <2>1. PICK where : place' = [place EXCEPT ![e] = where] /\ where \in Places
      <3>1. \A key \in RoutingKey : Routed(key) \in Places
        BY RoutesDeclared DEF Routed, Places
      <3>2. {"payment.new", "payment.retry", "payment.dead"} = RoutingKey
        BY DEF RoutingKey
      <3>3. CASE \E p \in Process : Deliver(p, e)
        BY <3>3 DEF Deliver, Consuming, Goto, Places
      <3>4. QED
        BY <1>3, <3>1, <3>2, <3>3 DEF Publish, Succeed, Fail, Expire, Goto, Places
    <2>2. UNCHANGED <<schema, ddl, declared, step, faults>>
      BY <1>3 DEF Publish, Deliver, Succeed, Fail, Expire
    <2>3. QED
      BY <2>1, <2>2 DEF Migrated
  <1>4. ASSUME NEW p \in Process, Stop(p) PROVE TypeOK'
    <2>1. Len(Startup(p)) \in Nat
      BY DEF Startup, ApiStartup, ConsumerStartup, Topology
    <2>2. QED
      BY <1>4, <2>1, StartupAssumption DEF Stop, Fault, Places, Migrated
  <1>5. CASE BrokerRestarts
    <2>1. \A e \in Event : AfterRestart(e) \in Places
      BY DEF AfterRestart, Places
    <2>2. QED
      BY <1>5, <2>1, StartupAssumption DEF BrokerRestarts, Fault, Durable, Migrated
  <1>6. CASE UNCHANGED vars
    BY <1>6 DEF vars, Migrated
  <1>7. QED
    BY <1>1, <1>2, <1>3, <1>4, <1>5, <1>6 DEF Next, Work


\* No step loses a declaration or an event.
LEMMA NextStartup == TypeOK /\ TypeOK' /\ StartupInv /\ [Next]_vars => StartupInv'
  <1> SUFFICES ASSUME TypeOK, TypeOK', StartupInv, [Next]_vars PROVE StartupInv'
    OBVIOUS
  <1> USE DEF StartupInv
  <1>a. \A p \in Process : step[p] \in Nat
    BY DEF TypeOK
  <1>1. CASE Migrate \/ MigrationFails
    <2>1. UNCHANGED <<declared, step, place>>
      BY <1>1 DEF Migrate, RunDdl, CommitMigration, MigrationFails
    <2>2. QED
      BY <2>1 DEF DeclaredStays, TopologyFirst, NothingLost, Exists
  <1>2. ASSUME NEW p \in Process, Start(p) PROVE StartupInv'
    <2> DEFINE o == Startup(p)[step[p] + 1]
    <2>0. UNCHANGED place /\ Declare(p, o)
      BY <1>2 DEF Start
    <2> HIDE DEF o
    <2>1. \/ step' = [step EXCEPT ![p] = 0] /\ declared' = declared
          \/ /\ step' = [step EXCEPT ![p] = @ + 1]
             /\ declared' = [x \in Object |-> IF x = o THEN "fixed" ELSE declared[x]]
      BY <2>0 DEF Declare, Arguments
    <2>2. \A x : Exists(x) => Exists(x)'
      BY <2>1, StartupAssumption DEF Exists, TypeOK
    <2>3. step' = [step EXCEPT ![p] = @ + 1] => (o \in Object => declared'[o] # NULL)
      <3>1. step[p] + 1 # 0 /\ step \in [Process -> Nat]
        BY <1>a DEF TypeOK
      <3>2. CASE step' = [step EXCEPT ![p] = 0]
        BY <3>1, <3>2
      <3>3. CASE declared' = [x \in Object |-> IF x = o THEN "fixed" ELSE declared[x]]
        <4>1. o \in Object => declared'[o] = "fixed"
          BY <3>3
        <4>2. NULL # "fixed"
          BY StartupAssumption
        <4>3. QED
          BY <4>1, <4>2
      <3>4. QED
        BY <2>1, <3>2, <3>3
    <2>4. ASSUME NEW q \in Process, NEW i \in 1 .. step'[q], Startup(q)[i] \in Object
          PROVE  Exists(Startup(q)[i])'
      <3>1. i \in 1 .. step[q] \/ (q = p /\ i = step[p] + 1 /\ step' = [step EXCEPT ![p] = @ + 1])
        <4>1. \A n \in 1 .. step[p] + 1 : n \in 1 .. step[p] \/ n = step[p] + 1
          BY <1>a
        <4>2. step'[q] = step[q] \/ (q = p /\ step'[q] \in {0, step[p] + 1})
          BY <2>1 DEF TypeOK
        <4>3. step[p] + 1 = step'[p] => step' = [step EXCEPT ![p] = @ + 1]
          BY <1>a, <2>1 DEF TypeOK
        <4>4. 1 .. 0 = {}
          OBVIOUS
        <4>5. QED
          BY <4>1, <4>2, <4>3, <4>4
      <3>2. CASE i \in 1 .. step[q]
        BY <2>2, <2>4, <3>2 DEF DeclaredStays
      <3>3. CASE q = p /\ i = step[p] + 1 /\ step' = [step EXCEPT ![p] = @ + 1]
        <4>1. Startup(p)[i] = o /\ o \in Object
          BY <2>4, <3>3 DEF o
        <4>2. QED
          BY <2>3, <3>3, <4>1 DEF Exists
      <3>4. QED
        BY <3>1, <3>2, <3>3
    <2>5. DeclaredStays'
      BY <2>4 DEF DeclaredStays
    <2>6. QED
      BY <2>0, <2>2, <2>5 DEF TopologyFirst, NothingLost
  <1>3. ASSUME NEW e \in Event,
               \/ Expire(e)
               \/ \E p \in Process : Publish(p, e) \/ Deliver(p, e) \/ Succeed(p, e) \/ Fail(p, e)
        PROVE  StartupInv'
    <2>1. UNCHANGED <<declared, step>>
      BY <1>3 DEF Publish, Deliver, Succeed, Fail, Expire
    <2>2. \A x \in Object : Exists(x)
      <3>1. CASE \E p \in Process : Publish(p, e)
        BY <3>1, RelayingComplete DEF Publish
      <3>2. CASE place[e] # "outbox"
        BY <3>2 DEF TopologyFirst
      <3>3. ASSUME NEW p \in Process, Succeed(p, e) \/ Fail(p, e) PROVE place[e] # "outbox"
        BY <3>3, StartupAssumption DEF Succeed, Fail
      <3>4. QED
        BY <1>3, <3>1, <3>2, <3>3 DEF Deliver, Expire
    <2>3. PICK where : place' = [place EXCEPT ![e] = where] /\ where # "lost"
      <3>1. \A key \in RoutingKey : Routed(key) # "lost"
        BY <2>2, RoutedArrives
      <3>2. {"payment.new", "payment.retry", "payment.dead"} = RoutingKey
        BY DEF RoutingKey
      <3>3. CASE \E p \in Process : Deliver(p, e)
        BY <3>3, StartupAssumption DEF Deliver, Goto, Process
      <3>4. QED
        BY <1>3, <3>1, <3>2, <3>3 DEF Publish, Succeed, Fail, Expire, Goto
    <2>4. QED
      BY <2>1, <2>2, <2>3 DEF DeclaredStays, TopologyFirst, NothingLost, Exists, TypeOK
  <1>4. ASSUME NEW p \in Process, Stop(p) PROVE StartupInv'
    <2>1. /\ step' = [step EXCEPT ![p] = 0] /\ declared' = declared
          /\ place' = [e \in Event |-> IF place[e] = p THEN "payments.new" ELSE place[e]]
      BY <1>4 DEF Stop
    <2>2. \A e \in Event : place[e] = "outbox" => place'[e] = "outbox"
      BY <2>1, StartupAssumption
    <2>3. DeclaredStays'
      BY <1>a, <2>1 DEF DeclaredStays, Exists, TypeOK
    <2>4. QED
      BY <2>1, <2>2, <2>3 DEF TopologyFirst, NothingLost, Exists
  <1>5. CASE BrokerRestarts
    <2>1. /\ step' = step /\ declared' = declared
          /\ place' = [e \in Event |-> IF place[e] \in Consumer THEN "payments.new" ELSE place[e]]
      BY <1>5 DEF BrokerRestarts, AfterRestart, Persisted, Durable, TypeOK
    <2>2. \A e \in Event : place[e] = "outbox" => place'[e] = "outbox"
      BY <2>1, StartupAssumption DEF Process
    <2>3. QED
      BY <2>1, <2>2 DEF DeclaredStays, TopologyFirst, NothingLost, Exists
  <1>6. CASE UNCHANGED vars
    BY <1>6 DEF vars, DeclaredStays, TopologyFirst, NothingLost, Exists
  <1>7. QED
    BY <1>1, <1>2, <1>3, <1>4, <1>5, <1>6 DEF Next, Work

\* With nothing declared and every event in the outbox the invariant holds.
LEMMA InitStartup == Init => TypeOK /\ StartupInv
  BY StartupAssumption
  DEF Init, TypeOK, Places, StartupInv, DeclaredStays, TopologyFirst, NothingLost

\* Startup's inductive invariant holds throughout.
LEMMA StartupCorrect == Spec => [](TypeOK /\ StartupInv)
  BY InitStartup, NextTypeOK, NextStartup, PTL DEF Spec

\* The schema is committed as a whole, declarations have one form, and no
\* process is beyond the end of its startup.
THEOREM TypeCorrect == Spec => []TypeOK
  BY StartupCorrect, PTL

\* Whatever a process has declared stays declared as long as it runs.
THEOREM DeclarationsStay == Spec => []DeclaredStays
  BY StartupCorrect, PTL DEF StartupInv

\* No broker object is missing when a message needs it: whatever the order in
\* which processes start, fail and start again, no event is dropped.
THEOREM NoMessageDropped == Spec => []NothingLost
  BY StartupCorrect, PTL DEF StartupInv

\* The first event leaves the outbox after the whole topology was declared.
THEOREM TopologyPrecedesEvents == Spec => []TopologyFirst
  BY StartupCorrect, PTL DEF StartupInv
=============================================================================
