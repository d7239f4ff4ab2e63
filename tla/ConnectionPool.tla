--------------------------- MODULE ConnectionPool ---------------------------
(***************************************************************************)
(* Who waits for whom in one process: jobs share the connections of its    *)
(* engine (pool_size + max_overflow of them), and in the database they     *)
(* wait for each other's uncommitted rows.  A job is a message handled by  *)
(* the consumer, a POST or a pass of the relay; each opens a session of    *)
(* its own, which takes a connection at its first statement and gives it   *)
(* back at the end of each transaction.                                    *)
(*                                                                         *)
(* Jobs run through the same steps:                                        *)
(*   step    consumer                POST                  relay           *)
(*   lookup  get                     get_by_idempotency_key lock a batch   *)
(*   work    gateway.charge          build the entity      publish         *)
(*   write   UPDATE                  INSERT                -               *)
(*   commit  commit                  commit or rollback    commit          *)
(*   again   get, if it has lost     get_by_..., likewise  -               *)
(*   finish  webhooks.send           answer                -               *)
(***************************************************************************)
EXTENDS FiniteSets, Integers

CONSTANTS
  Job,
  Row,      \* payments, by id or by key
  Target,   \* the row each job writes, NULL for a pass of the relay
  Capacity, \* pool_size + max_overflow
  NULL

ASSUME PoolAssumption ==
  /\ IsFiniteSet(Job)
  /\ NULL \notin Row \cup Job
  /\ Target \in [Job -> Row \cup {NULL}]
  /\ Capacity \in Nat \ {0}

VARIABLES
  pc,       \* the step each job is at
  conn,     \* connections each job has checked out
  holder,   \* the job whose transaction has written each row
  written   \* rows whose first write is committed

vars == <<pc, conn, holder, written>>

Init ==
  /\ pc = [j \in Job |-> "new"]
  /\ conn = [j \in Job |-> 0]
  /\ holder = [r \in Row |-> NULL]
  /\ written = {}

\* The connections checked out, numbered per job.
CheckedOut == UNION {{j} \X (1 .. conn[j]) : j \in Job}
InUse == Cardinality(CheckedOut)
Waiting == {j \in Job : pc[j] \in {"lookup", "again"}}
Active == {j \in Job : pc[j] \notin {"new", "done"}}

Goto(j, step) == pc' = [pc EXCEPT ![j] = step]

\* (mutant) The session is not closed.
CloseNothing(j) == UNCHANGED conn

\* What leaving `async with session_factory()` gives back, on every path.
Close(j) == conn' = [conn EXCEPT ![j] = 0]

\* The end of a transaction unlocks what it has written.
Unlock(j) == holder' = [r \in Row |-> IF holder[r] = j THEN NULL ELSE holder[r]]

-----------------------------------------------------------------------------
\* A message is delivered (the consumer sets no prefetch limit), a request
\* arrives, the relay's sleep ends.
Arrive(j) ==
  /\ pc[j] = "new"
  /\ Goto(j, "lookup")
  /\ UNCHANGED <<conn, holder, written>>

\* The pool hands out a connection, to any of the jobs that wait.
Connect(j) ==
  /\ InUse < Capacity
  /\ conn' = [conn EXCEPT ![j] = @ + 1]

\* A row that is already final, or a repeated key, needs no write; the
\* transaction of the read stays open until the session is closed.
Lookup(j) ==
  /\ pc[j] = "lookup"
  /\ Connect(j)
  /\ Goto(j, IF Target[j] \in written THEN "finish" ELSE "work")
  /\ UNCHANGED <<holder, written>>

\* The connection stays with the job while the gateway takes its seconds.
Work(j) ==
  /\ pc[j] = "work"
  /\ Goto(j, IF Target[j] = NULL THEN "commit" ELSE "write")
  /\ UNCHANGED <<conn, holder, written>>

\* The statement waits for the transaction that has written the row.
Write(j) ==
  /\ pc[j] = "write"
  /\ holder[Target[j]] = NULL
  /\ holder' = [holder EXCEPT ![Target[j]] = IF Target[j] \in written THEN NULL ELSE j]
  /\ Goto(j, "commit")
  /\ UNCHANGED <<conn, written>>

\* (mutant) The row is read again through a second session, while the first
\* one is still in its transaction.
CommitLate(j) ==
  LET lost == Target[j] # NULL /\ holder[Target[j]] # j
  IN /\ pc[j] = "commit"
     /\ conn' = IF lost THEN conn ELSE [conn EXCEPT ![j] = 0]
     /\ written' = written \cup {r \in Row : holder[r] = j}
     /\ Unlock(j)
     /\ Goto(j, IF lost THEN "again" ELSE "finish")

\* A job that has lost the race ends its transaction before it reads again.
Commit(j) ==
  LET lost == Target[j] # NULL /\ holder[Target[j]] # j
  IN /\ pc[j] = "commit"
     /\ conn' = [conn EXCEPT ![j] = 0]
     /\ written' = written \cup {r \in Row : holder[r] = j}
     /\ Unlock(j)
     /\ Goto(j, IF lost THEN "again" ELSE "finish")

Again(j) ==
  /\ pc[j] = "again"
  /\ Connect(j)
  /\ Goto(j, "finish")
  /\ UNCHANGED <<holder, written>>

Finish(j) ==
  /\ pc[j] = "finish"
  /\ Close(j)
  /\ Goto(j, "done")
  /\ UNCHANGED <<holder, written>>

\* Any await may raise, opening a connection too; the transaction is rolled
\* back.
Fail(j) ==
  /\ j \in Active
  /\ j \in Waiting => InUse < Capacity
  /\ Close(j) /\ Unlock(j)
  /\ Goto(j, "done")
  /\ UNCHANGED written

\* After 30 seconds the pool gives up on a job that still waits.
Timeout(j) ==
  /\ j \in Waiting
  /\ InUse >= Capacity
  /\ Close(j)
  /\ Goto(j, "done")
  /\ UNCHANGED <<holder, written>>

-----------------------------------------------------------------------------
Step(j) == Lookup(j) \/ Work(j) \/ Write(j) \/ Commit(j) \/ Again(j) \/ Finish(j)
Next == \E j \in Job : Arrive(j) \/ Step(j) \/ Fail(j) \/ Timeout(j)

\* Jobs run on; nothing is assumed of failures, timeouts or arrivals.
Spec == Init /\ [][Next]_vars
FairSpec == Spec /\ \A j \in Job : WF_vars(Step(j))

-----------------------------------------------------------------------------
\* Every variable has its type.
TypeOK ==
  /\ pc \in [Job -> {"new", "lookup", "work", "write", "commit", "again", "finish", "done"}]
  /\ conn \in [Job -> 0 .. 1]
  /\ holder \in [Row -> Job \cup {NULL}]
  /\ written \subseteq Row

\* A job that waits for a connection holds neither a connection nor a row,
\* so nobody can be waiting for it: there is no cycle through the pool.
NoHoldAndWait ==
  \A j \in Waiting : conn[j] = 0 /\ \A r \in Row : holder[r] # j

\* Connections are only with jobs that are running; a transaction that has
\* written a row has one, so that it is able to end.
NoLeak ==
  /\ \A j \in Job : conn[j] > 0 => j \in Active
  /\ \A r \in Row : holder[r] # NULL => conn[holder[r]] > 0

\* A job finds the pool empty only while more jobs are running than it has
\* connections: a process that runs no more than that never sees a timeout.
TimeoutNeedsLoad ==
  InUse >= Capacity /\ Waiting # {} => Cardinality(Active) > Capacity

\* Every job that has arrived ends, and none needs a timeout for it.
JobsEnd == \A j \in Job : pc[j] = "lookup" ~> pc[j] = "done"
=============================================================================
