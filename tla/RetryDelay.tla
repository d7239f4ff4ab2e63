---------------------------- MODULE RetryDelay ----------------------------
(***************************************************************************)
(* payments.retry in time.  The retry policy gives each message a delay    *)
(* that doubles with the attempt; the broker takes messages out of the     *)
(* queue when their time to live has run out, but only ever looks at the   *)
(* head of the queue.  Time passes in ticks.                               *)
(***************************************************************************)
EXTENDS Naturals, Sequences, FiniteSetsExt

CONSTANTS Event,               \* events of payments
          MaxDeliveryAttempts, \* RABBITMQ_MAX_DELIVERY_ATTEMPTS
          BaseDelay,           \* RABBITMQ_RETRY_BASE_DELAY_SECONDS
          QueueTtl             \* RETRY_QUEUE_TTL_MS

ASSUME DelayAssumption ==
  /\ MaxDeliveryAttempts \in Nat
  /\ BaseDelay \in Nat
  /\ QueueTtl \in Nat

VARIABLES
  place,   \* where each event is
  attempt, \* x-attempt of each event's message
  retry,   \* payments.retry, first in first out
  waited   \* ticks each event has spent in payments.retry this time

vars == <<place, attempt, retry, waited>>

Goto(e, where) == place' = [place EXCEPT ![e] = where]
At(e, where) == place[e] = where

Init ==
  /\ place = [e \in Event |-> "outbox"]
  /\ attempt = [e \in Event |-> 1]
  /\ retry = <<>>
  /\ waited = [e \in Event |-> 0]

\* The relay publishes the event.
Publish(e) ==
  /\ At(e, "outbox")
  /\ Goto(e, "new")
  /\ UNCHANGED <<attempt, retry, waited>>

\* (mutant) The delay doubles once too often.
DelayDoubledEarly(n) == BaseDelay * 2 ^ n

\* The delay after the n-th attempt.
Delay(n) == BaseDelay * 2 ^ (n - 1)

\* (mutant) The message carries no expiration: only the queue's own applies.
TtlOfQueue(e) == QueueTtl

\* The message carries the number of the attempt to come, and lives as long
\* as its expiration or the queue's, whichever is shorter.
Ttl(e) == Min({Delay(attempt[e] - 1), QueueTtl})

\* (mutant) No limit on the attempts.
FailForEver(e) ==
  /\ At(e, "new")
  /\ attempt' = [attempt EXCEPT ![e] = IF @ < MaxDeliveryAttempts THEN @ + 1 ELSE @]
  /\ retry' = Append(retry, e)
  /\ waited' = [waited EXCEPT ![e] = 0]
  /\ Goto(e, "retry")

\* Processing raised: to payments.retry for another attempt, or given up.
Fail(e) ==
  /\ At(e, "new")
  /\ IF attempt[e] >= MaxDeliveryAttempts
     THEN Goto(e, "dlq") /\ UNCHANGED <<attempt, retry, waited>>
     ELSE /\ attempt' = [attempt EXCEPT ![e] = @ + 1]
          /\ retry' = Append(retry, e)
          /\ waited' = [waited EXCEPT ![e] = 0]
          /\ Goto(e, "retry")

Succeed(e) ==
  /\ At(e, "new")
  /\ Goto(e, "done")
  /\ UNCHANGED <<attempt, retry, waited>>

HeadExpired == retry # <<>> /\ waited[Head(retry)] >= Ttl(Head(retry))

\* The head's time is up: the queue dead-letters it to payments.new.
Expire ==
  /\ HeadExpired
  /\ Goto(Head(retry), "new")
  /\ retry' = Tail(retry)
  /\ UNCHANGED <<attempt, waited>>

\* Time passes, but not beyond the moment the broker drops the head.
Tick ==
  /\ retry # <<>> /\ ~HeadExpired
  /\ waited' = [e \in Event |-> IF At(e, "retry") THEN waited[e] + 1 ELSE waited[e]]
  /\ UNCHANGED <<place, attempt, retry>>

Next ==
  \/ \E e \in Event : Publish(e) \/ Fail(e) \/ Succeed(e)
  \/ Expire \/ Tick

Spec == Init /\ [][Next]_vars

\* Every delivered event is processed, time passes and the broker follows.
Fairness ==
  /\ \A e \in Event : WF_vars(Fail(e) \/ Succeed(e))
  /\ WF_vars(Expire) /\ WF_vars(Tick)

FairSpec == Spec /\ Fairness

-----------------------------------------------------------------------------
Places == {"outbox", "new", "retry", "done", "dlq"}

\* Every variable has its type; the queue holds the waiting events, once each.
TypeOK ==
  /\ place \in [Event -> Places]
  /\ attempt \in [Event -> Nat \ {0}]
  /\ retry \in Seq(Event)
  /\ waited \in [Event -> Nat]
  /\ \A i, j \in DOMAIN retry : retry[i] = retry[j] => i = j
  /\ \A e \in Event : At(e, "retry") <=> \E i \in DOMAIN retry : retry[i] = e
  /\ \A e \in Event : At(e, "retry") => attempt[e] \in 2 .. MaxDeliveryAttempts

\* The delay README promises the message before its attempt.
PromisedDelay(e) == BaseDelay * 2 ^ (attempt[e] - 2)

\* A retry never comes before the delay of its attempt is over (or the
\* queue's own limit, when the delay is longer than that).
NeverEarly ==
  [][\A e \in Event : At(e, "retry") /\ place'[e] # "retry" =>
       waited[e] >= Min({PromisedDelay(e), QueueTtl})]_vars

\* Time passes for a message beyond its own delay only behind one with a
\* longer delay that came before it, never behind equal or shorter ones.
OverdueNeedsLongerAhead ==
  [][\A i \in DOMAIN retry :
       LET e == retry[i] IN
       waited'[e] > waited[e] /\ waited'[e] > PromisedDelay(e) =>
         \E j \in 1 .. i - 1 : PromisedDelay(retry[j]) > PromisedDelay(e)]_vars

\* However many messages queue up, none waits longer than the delay of the
\* last attempt: waiting times do not add up along the queue.
WaitBounded ==
  \A e \in Event : At(e, "retry") =>
    waited[e] <= BaseDelay * 2 ^ (MaxDeliveryAttempts - 2)

\* README and retry.py: the message comes back when its TTL has run out.
ReturnsWhenExpired ==
  \A e \in Event : At(e, "retry") => waited[e] <= PromisedDelay(e)

\* Every published event is processed for good or given up: no message is
\* left in payments.retry, and retrying ends.
RetriesEnd == \A e \in Event : At(e, "new") ~> (At(e, "done") \/ At(e, "dlq"))
=============================================================================
