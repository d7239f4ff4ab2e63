------------------------------ MODULE Startup ------------------------------
(***************************************************************************)
(* Bringing the service up: the migration, then API and consumer processes *)
(* side by side, each declaring the exchanges, queues and bindings it      *)
(* needs while others may already publish and consume.  The broker is      *)
(* modelled by what the code relies on: declaring is idempotent for equal  *)
(* arguments, a message without a binding is confirmed and dropped, and a  *)
(* restart keeps what is durable.                                          *)
(***************************************************************************)
EXTENDS Naturals, Sequences

CONSTANTS Api, Consumer,  \* processes
          Event,          \* events of committed payments
          MaxFaults,      \* bound: faults in a behaviour
          NULL            \* not declared

VARIABLES
  schema,    \* committed objects of the database schema
  ddl,       \* statements the migration's open transaction has executed
  declared,  \* arguments of each object the broker has, or NULL
  step,      \* steps of its startup each process has completed
  place,     \* where each event is: a queue, a consumer, ...
  faults     \* history: faults so far

vars == <<schema, ddl, declared, step, place, faults>>

Process == Api \cup Consumer

\* The order of declare_topology; a binding is named by its routing key.
Topology == <<"payments", "payments.dlx",
              "payments.new", "payments.retry", "payments.dlq",
              "payment.new", "payment.retry", "payment.dead">>

RoutingKey == {"payment.new", "payment.retry", "payment.dead"}
Object == {Topology[i] : i \in DOMAIN Topology}

Exchange(key) == IF key = "payment.new" THEN "payments" ELSE "payments.dlx"
Queue(key) ==
  CASE key = "payment.new" -> "payments.new"
    [] key = "payment.retry" -> "payments.retry"
    [] key = "payment.dead" -> "payments.dlq"

\* (mutant) An API process declares only what it publishes to itself.
ApiStartupOwn == <<"payments", "payments.new", "payment.new">>

\* lifespan: declare_topology; then the relay and the requests.
ApiStartup == Topology

\* FastStream: the subscriber declares its queue and exchange and consumes;
\* declare_topology follows as an after_startup hook.
ConsumerStartup ==
  <<"payments.new", "payments", "payment.new", "consume">> \o Topology

Startup(p) == IF p \in Api THEN ApiStartup ELSE ConsumerStartup

Up(p) == step[p] = Len(Startup(p))

\* (mutant) The relay is started before the topology is declared.
RelayingEarly(p) == p \in Api /\ step[p] > 0

Relaying(p) == p \in Api /\ Up(p)
Consuming(c) == c \in Consumer /\ \E i \in 1 .. step[c] : Startup(c)[i] = "consume"

ASSUME StartupAssumption ==
  /\ Api \cap Consumer = {}
  /\ MaxFaults \in Nat
  /\ Process \cap {"outbox", "done", "lost", "fixed"} = {}
  /\ Process \cap {Queue(key) : key \in RoutingKey} = {}
  /\ NULL \notin Process \cup {"fixed"}

Fault == faults < MaxFaults /\ faults' = faults + 1

Init ==
  /\ schema = {} /\ ddl = 0
  /\ declared = [o \in Object |-> NULL]
  /\ step = [p \in Process |-> 0]
  /\ place = [e \in Event |-> "outbox"]
  /\ faults = 0

-----------------------------------------------------------------------------
(* alembic upgrade head.                                                   *)

Ddl == <<"outbox", "ix_outbox_unpublished", "payments", "ix_payments_status">>
Migrated == schema = {Ddl[i] : i \in DOMAIN Ddl}

\* One CREATE, which raises if the object exists.
RunDdl ==
  /\ ~Migrated /\ ddl < Len(Ddl)
  /\ Ddl[ddl + 1] \notin schema
  /\ ddl' = ddl + 1
  /\ UNCHANGED <<schema, declared, step, place, faults>>

\* All of the migration is one transaction.
CommitMigration ==
  /\ ddl = Len(Ddl)
  /\ schema' = schema \cup {Ddl[i] : i \in 1 .. ddl}
  /\ ddl' = 0
  /\ UNCHANGED <<declared, step, place, faults>>

MigrationFails ==
  /\ ddl > 0
  /\ Fault
  /\ ddl' = 0
  /\ UNCHANGED <<schema, declared, step, place>>

-----------------------------------------------------------------------------
(* Startup of a process, one call to the broker at a time.                 *)

\* (mutant) The TTL of payments.retry is taken from the process's settings.
ArgumentsOfEnv(p, o) == IF o = "payments.retry" THEN p ELSE "fixed"

\* Types and arguments are constants of the code, the same in every process.
Arguments(p, o) == "fixed"

Exists(o) == o \in Object /\ declared[o] # NULL

\* The broker refuses other arguments, and a binding without its two ends.
Refused(p, o) ==
  \/ Exists(o) /\ declared[o] # Arguments(p, o)
  \/ o \in RoutingKey /\ ~(Exists(Exchange(o)) /\ Exists(Queue(o)))

Declare(p, o) ==
  IF Refused(p, o)
  THEN step' = [step EXCEPT ![p] = 0] /\ UNCHANGED declared
  ELSE /\ step' = [step EXCEPT ![p] = @ + 1]
       /\ declared' = [x \in Object |-> IF x = o THEN Arguments(p, o) ELSE declared[x]]

\* The next step of the startup; compose starts a process after the migration.
Start(p) ==
  /\ Migrated
  /\ ~Up(p)
  /\ Declare(p, Startup(p)[step[p] + 1])
  /\ UNCHANGED <<schema, ddl, place, faults>>

-----------------------------------------------------------------------------
(* Messages.                                                               *)

Goto(e, where) == place' = [place EXCEPT ![e] = where]

\* An exchange routes by key; without a binding, or without the exchange a
\* queue dead-letters to, the message is gone.
Routed(key) == IF Exists(Exchange(key)) /\ Exists(key) THEN Queue(key) ELSE "lost"

\* The relay publishes; without the exchange the call raises.
Publish(p, e) ==
  /\ Relaying(p)
  /\ place[e] = "outbox"
  /\ Exists("payments")
  /\ Goto(e, Routed("payment.new"))
  /\ UNCHANGED <<schema, ddl, declared, step, faults>>

Deliver(c, e) ==
  /\ Consuming(c)
  /\ place[e] = "payments.new"
  /\ Goto(e, c)
  /\ UNCHANGED <<schema, ddl, declared, step, faults>>

Succeed(c, e) ==
  /\ place[e] = c
  /\ Goto(e, "done")
  /\ UNCHANGED <<schema, ddl, declared, step, faults>>

\* The retry policy publishes to payments.dlx.  Without the exchange that
\* raises: the delivery is rejected, and payments.new dead-letters it.
Fail(c, e) ==
  /\ place[e] = c
  /\ \E key \in {"payment.retry", "payment.dead"} :
       Goto(e, Routed(IF Exists(Exchange(key)) THEN key ELSE "payment.dead"))
  /\ UNCHANGED <<schema, ddl, declared, step, faults>>

\* payments.retry dead-letters to payments.
Expire(e) ==
  /\ place[e] = "payments.retry"
  /\ Goto(e, Routed("payment.new"))
  /\ UNCHANGED <<schema, ddl, declared, step, faults>>

-----------------------------------------------------------------------------
(* Faults.                                                                 *)

\* A process stops, in its startup or later; the broker takes its unfinished
\* deliveries back.
Stop(p) ==
  /\ step[p] > 0
  /\ Fault
  /\ step' = [step EXCEPT ![p] = 0]
  /\ place' = [e \in Event |-> IF place[e] = p THEN "payments.new" ELSE place[e]]
  /\ UNCHANGED <<schema, ddl, declared>>

\* Exchanges and queues, and hence the bindings between them, are durable.
Durable == Object

\* (mutant) The retry policy publishes transient messages.
PersistedButRetry == {"payment.new", "payment.dead"}

\* Routing keys whose messages are published with persist=True.
Persisted == RoutingKey

\* What an event becomes of when the broker restarts.
AfterRestart(e) ==
  IF place[e] \in Consumer THEN "payments.new"
  ELSE IF \E key \in RoutingKey \ Persisted : place[e] = Queue(key) THEN "lost"
  ELSE place[e]

\* The broker restarts; the clients reconnect by themselves.
BrokerRestarts ==
  /\ Fault
  /\ declared' = [o \in Object |-> IF o \in Durable THEN declared[o] ELSE NULL]
  /\ place' = [e \in Event |-> AfterRestart(e)]
  /\ UNCHANGED <<schema, ddl, step>>

-----------------------------------------------------------------------------
Migrate == RunDdl \/ CommitMigration
Work(p) ==
  \E e \in Event : Publish(p, e) \/ Deliver(p, e) \/ Succeed(p, e) \/ Fail(p, e)

Next ==
  \/ Migrate \/ MigrationFails \/ BrokerRestarts
  \/ \E p \in Process : Start(p) \/ Work(p) \/ Stop(p)
  \/ \E e \in Event : Expire(e)

\* A failed migration is run again and a stopped process started again.
Fairness ==
  /\ WF_vars(Migrate)
  /\ \A p \in Process : WF_vars(Start(p))

Spec == Init /\ [][Next]_vars
FairSpec == Spec /\ Fairness

-----------------------------------------------------------------------------
Places == {"outbox", "payments.new", "payments.retry", "payments.dlq", "done", "lost"} \cup Consumer

\* Every variable has its type; the schema is committed as a whole.
TypeOK ==
  /\ schema = {} \/ Migrated
  /\ ddl \in 0 .. Len(Ddl)
  /\ declared \in [Object -> {NULL, "fixed"}]
  /\ step \in [Process -> Nat]
  /\ \A p \in Process : step[p] <= Len(Startup(p))
  /\ place \in [Event -> Places]
  /\ faults \in 0 .. MaxFaults

\* What a process has declared stays declared as long as it runs, through
\* restarts of the broker: nobody has to declare anything twice.
DeclaredStays ==
  \A p \in Process : \A i \in 1 .. step[p] :
    Startup(p)[i] \in Object => Exists(Startup(p)[i])

\* No event is dropped by the broker: no process publishes to, rejects into or
\* lets expire into a missing exchange or binding, not even the consumer that
\* handles messages before it has declared payments.dlx, and what the broker
\* has accepted survives its restarts.
NothingLost == \A e \in Event : place[e] # "lost"

\* An event that has left the outbox has found the whole topology in place.
TopologyFirst ==
  (\E e \in Event : place[e] # "outbox") => \A o \in Object : Exists(o)

\* However often the migration or a process fails while it starts, in the end
\* every process is up: an interrupted migration can be repeated, and no
\* process refuses what another one has declared.
ServiceComesUp == <>[](\A p \in Process : Up(p))
=============================================================================
