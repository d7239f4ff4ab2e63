---------------------------- MODULE OutboxRelay ----------------------------
(***************************************************************************)
(* The outbox relays, one background task per API process.  Each pass is   *)
(* one transaction: lock a batch of unpublished rows, publish them one by  *)
(* one with publisher confirms, mark the confirmed ones, commit.           *)
(* The outbox columns `attempts` and `last_error` are written and never    *)
(* read, and are left out.                                                 *)
(***************************************************************************)
EXTENDS Naturals, Sequences, FiniteSets, FiniteSetsExt, SequencesExt

CONSTANTS Event,      \* events the API may write
          Relay,      \* API processes, each with its relay task
          BatchSize,  \* OUTBOX_BATCH_SIZE
          MaxFaults   \* bound: infrastructure faults in a behaviour

ASSUME RelayAssumption ==
  /\ BatchSize \in Nat \ {0}
  /\ MaxFaults \in Nat
  /\ IsFiniteSet(Relay)

VARIABLES
  outbox,     \* committed rows, oldest created_at first
  published,  \* rows whose published_at is committed
  locked,     \* rows each relay's live transaction holds FOR UPDATE
  pc,         \* where each relay is
  batch,      \* rows of the pass still to publish
  done,       \* rows of the pass whose publication was confirmed
  sent,       \* history: copies of each event stored by the broker
  brokerUp,   \* is RabbitMQ reachable
  faults      \* history: infrastructure faults so far

pass == <<batch, done>>
vars == <<outbox, published, locked, pc, pass, sent, brokerUp, faults>>

Rows == {outbox[i] : i \in 1 .. Len(outbox)}

Goto(r, label) == pc' = [pc EXCEPT ![r] = label]
At(r, label) == pc[r] = label

Fault == faults < MaxFaults /\ faults' = faults + 1

Init ==
  /\ outbox = <<>> /\ published = {}
  /\ locked = [r \in Relay |-> {}]
  /\ pc = [r \in Relay |-> "down"]
  /\ batch = [r \in Relay |-> {}]
  /\ done = [r \in Relay |-> {}]
  /\ sent = [e \in Event |-> 0]
  /\ brokerUp = TRUE
  /\ faults = 0

\* A request commits its event.  created_at is the start of its transaction,
\* so a row may appear before rows committed earlier.
Insert(e) ==
  /\ e \notin Rows
  /\ \E i \in 1 .. Len(outbox) + 1 : outbox' = InsertAt(outbox, i, e)
  /\ UNCHANGED <<published, locked, pc, pass, sent, brokerUp, faults>>

\* The API process starts: it needs the broker, then spawns the relay.
Start(r) ==
  /\ At(r, "down")
  /\ brokerUp
  /\ Goto(r, "poll")
  /\ UNCHANGED <<outbox, published, locked, pass, sent, brokerUp, faults>>

\* (mutant) Plain SELECT, without FOR UPDATE SKIP LOCKED.
FreeIgnoringLocks == Rows \ published

\* Rows still to publish that no other transaction holds.
Free == {e \in Rows \ published : \A r \in Relay : e \notin locked[r]}

\* ORDER BY created_at.
Before(e, f) ==
  \E i, j \in 1 .. Len(outbox) : i < j /\ outbox[i] = e /\ outbox[j] = f

\* (mutant) Polling from the last published created_at onwards.
CandidatesPastWatermark == {e \in Free : \A f \in published : Before(f, e)}

\* WHERE published_at IS NULL, without the rows others hold.
Candidates == Free

\* The oldest candidates, at most BatchSize.
IsBatch(rows) ==
  /\ Cardinality(rows) = Min({BatchSize, Cardinality(Candidates)})
  /\ \A e \in rows, f \in Candidates \ rows : Before(e, f)

\* The transaction and the local list of a pass begin empty.
EndPass(r) ==
  /\ batch' = [batch EXCEPT ![r] = {}]
  /\ done' = [done EXCEPT ![r] = {}]
  /\ locked' = [locked EXCEPT ![r] = {}]

\* SELECT ... FOR UPDATE SKIP LOCKED; with no rows the pass ends and the loop
\* sleeps.
LockBatch(r) ==
  /\ At(r, "poll")
  /\ \E rows \in SUBSET Candidates :
       /\ IsBatch(rows)
       /\ batch' = [batch EXCEPT ![r] = rows]
       /\ locked' = [locked EXCEPT ![r] = rows]
       /\ Goto(r, IF rows = {} THEN "sleep" ELSE "publish")
  /\ UNCHANGED <<outbox, published, done, sent, brokerUp, faults>>

\* The loop over the batch has come to e.
IsNext(r, e) == e \in batch[r] /\ \A f \in batch[r] \ {e} : Before(e, f)

\* (mutant) The loop runs once more after the last row.
AdvanceLate(r, e) ==
  /\ At(r, "publish") /\ IsNext(r, e)
  /\ batch' = [batch EXCEPT ![r] = @ \ {e}]
  /\ Goto(r, IF batch[r] = {} THEN "commit" ELSE "publish")
  /\ UNCHANGED <<outbox, published, locked, brokerUp>>

\* On to the next row of the batch, or to the end of the pass.
Advance(r, e) ==
  /\ At(r, "publish") /\ IsNext(r, e)
  /\ batch' = [batch EXCEPT ![r] = @ \ {e}]
  /\ Goto(r, IF batch[r] = {e} THEN "commit" ELSE "publish")
  /\ UNCHANGED <<outbox, published, locked, brokerUp>>

\* The broker stores the event and confirms it.
PublishConfirmed(r, e) ==
  /\ Advance(r, e)
  /\ brokerUp
  /\ sent' = [sent EXCEPT ![e] = @ + 1]
  /\ done' = [done EXCEPT ![r] = @ \cup {e}]
  /\ UNCHANGED faults

\* (mutant) A failed publication is marked like a confirmed one.
PublishUnreachableMarked(r, e) ==
  /\ Advance(r, e)
  /\ ~brokerUp
  /\ done' = [done EXCEPT ![r] = @ \cup {e}]
  /\ UNCHANGED <<sent, faults>>

\* Without a broker the publication raises; the row stays unpublished.
PublishUnreachable(r, e) ==
  /\ Advance(r, e)
  /\ ~brokerUp
  /\ UNCHANGED <<sent, done, faults>>

\* The broker stores the event but its confirm is lost: the call raises.
PublishUnconfirmed(r, e) ==
  /\ Advance(r, e)
  /\ brokerUp
  /\ Fault
  /\ sent' = [sent EXCEPT ![e] = @ + 1]
  /\ UNCHANGED done

\* COMMIT of the pass, which the server refuses when it has already rolled
\* the transaction back.  Nothing published, or an exception: sleep.
Commit(r) ==
  /\ At(r, "commit")
  /\ published' = IF locked[r] = {} THEN published ELSE published \cup done[r]
  /\ Goto(r, IF locked[r] = {} \/ done[r] = {} THEN "sleep" ELSE "poll")
  /\ EndPass(r)
  /\ UNCHANGED <<outbox, sent, brokerUp, faults>>

\* poll_interval_seconds pass.
Wake(r) ==
  /\ At(r, "sleep")
  /\ Goto(r, "poll")
  /\ UNCHANGED <<outbox, published, locked, pass, sent, brokerUp, faults>>

-----------------------------------------------------------------------------
\* The SELECT raises; run() logs the exception and sleeps.
PollError(r) ==
  /\ At(r, "poll")
  /\ Fault
  /\ Goto(r, "sleep")
  /\ UNCHANGED <<outbox, published, locked, pass, sent, brokerUp>>

\* COMMIT raises, applied or not; run() logs the exception and sleeps.
CommitError(r) ==
  /\ At(r, "commit") /\ locked[r] # {}
  /\ Fault
  /\ published' \in {published, published \cup done[r]}
  /\ Goto(r, "sleep")
  /\ EndPass(r)
  /\ UNCHANGED <<outbox, sent, brokerUp>>

\* The server loses the connection and rolls back, releasing the row locks;
\* the relay goes on publishing and finds out when it commits.
SessionLost(r) ==
  /\ locked[r] # {}
  /\ Fault
  /\ locked' = [locked EXCEPT ![r] = {}]
  /\ UNCHANGED <<outbox, published, pc, pass, sent, brokerUp>>

\* The API process is killed, or shuts down and cancels the relay task.
Stop(r) ==
  /\ ~At(r, "down")
  /\ Fault
  /\ Goto(r, "down")
  /\ EndPass(r)
  /\ UNCHANGED <<outbox, published, sent, brokerUp>>

BrokerFails ==
  /\ brokerUp /\ Fault
  /\ brokerUp' = FALSE
  /\ UNCHANGED <<outbox, published, locked, pc, pass, sent>>

BrokerRecovers ==
  /\ ~brokerUp
  /\ brokerUp' = TRUE
  /\ UNCHANGED <<outbox, published, locked, pc, pass, sent, faults>>

-----------------------------------------------------------------------------
Step(r) ==
  \/ Start(r) \/ LockBatch(r) \/ Wake(r) \/ Commit(r)
  \/ \E e \in Event : PublishConfirmed(r, e) \/ PublishUnreachable(r, e)

RelayFault(r) ==
  \/ \E e \in Event : PublishUnconfirmed(r, e)
  \/ PollError(r) \/ CommitError(r) \/ SessionLost(r) \/ Stop(r)

Next ==
  \/ \E e \in Event : Insert(e)
  \/ \E r \in Relay : Step(r) \/ RelayFault(r)
  \/ BrokerFails \/ BrokerRecovers

\* The event loop runs every relay, stopped processes are started again and
\* the broker comes back.
Fairness ==
  /\ \A r \in Relay : WF_vars(Step(r))
  /\ WF_vars(BrokerRecovers)

Spec == Init /\ [][Next]_vars
FairSpec == Spec /\ Fairness

-----------------------------------------------------------------------------
Labels == {"down", "poll", "publish", "commit", "sleep"}

\* Every variable has its type.
TypeOK ==
  /\ outbox \in Seq(Event)
  /\ published \subseteq Event
  /\ locked \in [Relay -> SUBSET Event]
  /\ pc \in [Relay -> Labels]
  /\ batch \in [Relay -> SUBSET Event]
  /\ \A r \in Relay : At(r, "publish") <=> batch[r] # {}
  /\ done \in [Relay -> SUBSET Event]
  /\ sent \in [Event -> Nat]
  /\ brokerUp \in BOOLEAN
  /\ faults \in 0 .. MaxFaults

\* published_at is committed only for an event the broker has: an outage, a
\* failed publication or a lost transaction never loses an event.
PublishedWasSent ==
  \A e \in published : e \in Rows /\ sent[e] > 0

\* What a pass holds: every row it still has to publish or has published is a
\* committed row; between passes nothing is held, and as long as the
\* transaction lives its rows stay locked until it ends.
PassHoldsRows ==
  \A r \in Relay :
    /\ batch[r] \cup done[r] \subseteq Rows
    /\ pc[r] \in {"down", "poll", "sleep"} =>
         batch[r] = {} /\ done[r] = {} /\ locked[r] = {}
    /\ locked[r] # {} => batch[r] \cup done[r] \subseteq locked[r]
    /\ \A e \in done[r] : sent[e] > 0

\* No row belongs to two passes at a time, and a locked row is unpublished.
LocksExclusive ==
  \A r \in Relay : /\ locked[r] \cap published = {}
                   /\ \A q \in Relay \ {r} : locked[r] \cap locked[q] = {}

\* An event reaches the broker again only if the infrastructure failed:
\* relays running side by side never publish a row twice by themselves.
DuplicateNeedsFault ==
  \A e \in Event : sent[e] <= 1 + faults

\* A committed event is eventually marked published (hence sent).
EventPublished ==
  \A e \in Event : e \in Rows ~> e \in published
=============================================================================
