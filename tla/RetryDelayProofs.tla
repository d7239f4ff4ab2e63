-------------------------- MODULE RetryDelayProofs --------------------------
(* What payments.retry promises for any delays, any limit of attempts and  *)
(* any number of messages in the queue.                                    *)
EXTENDS RetryDelay, FiniteSetTheorems, TLAPS

\* Powers of two are counts of subsets, which is how the library knows them.
LEMMA PowersCount ==
  ASSUME NEW n \in Nat
  PROVE  /\ 2 ^ n \in Nat
         /\ IsFiniteSet(SUBSET (1 .. n)) /\ Cardinality(SUBSET (1 .. n)) = 2 ^ n
  <1>1. IsFiniteSet(1 .. n) /\ Cardinality(1 .. n) = n
    BY FS_Interval
  <1>2. IsFiniteSet(SUBSET (1 .. n)) /\ Cardinality(SUBSET (1 .. n)) = 2 ^ n
    BY <1>1, FS_SUBSET
  <1> QED
    BY <1>2, FS_CardinalityType

LEMMA PowersGrow ==
  ASSUME NEW m \in Nat, NEW n \in Nat, m <= n
  PROVE  2 ^ m <= 2 ^ n
  <1>1. SUBSET (1 .. m) \subseteq SUBSET (1 .. n)
    OBVIOUS
  <1>2. Cardinality(SUBSET (1 .. m)) <= Cardinality(SUBSET (1 .. n))
    BY <1>1, PowersCount, FS_Subset
  <1> QED
    BY <1>2, PowersCount

\* Delays are numbers, and no delay exceeds that of the last attempt.
LEMMA DelaysGrow ==
  ASSUME NEW m \in Nat, NEW n \in Nat, m <= n
  PROVE  /\ BaseDelay * 2 ^ m \in Nat
         /\ BaseDelay * 2 ^ m <= BaseDelay * 2 ^ n
  <1>1. 2 ^ m \in Nat /\ 2 ^ n \in Nat /\ 2 ^ m <= 2 ^ n
    BY PowersCount, PowersGrow
  <1>2. \A a, x, y \in Nat : x <= y => a * x \in Nat /\ a * x <= a * y
    OBVIOUS
  <1> QED
    BY <1>1, <1>2, DelayAssumption

\* Types as far as the order of the queue needs them.
QueueType ==
  /\ place \in [Event -> Places]
  /\ retry \in Seq(Event)
  /\ waited \in [Event -> Nat]
  /\ \A i \in 1 .. Len(retry) : At(retry[i], "retry")
  /\ \A i, j \in 1 .. Len(retry) : retry[i] = retry[j] => i = j

\* Who is ahead in the queue has waited at least as long.
FirstInFirstOut ==
  \A i, j \in 1 .. Len(retry) : i < j => waited[retry[j]] <= waited[retry[i]]

QueueInv == QueueType /\ FirstInFirstOut

LEMMA InitQueue == Init => QueueInv
  BY DEF Init, QueueInv, QueueType, FirstInFirstOut, Places

LEMMA NextQueue == QueueInv /\ [Next]_vars => QueueInv'
  <1> SUFFICES ASSUME QueueInv, [Next]_vars PROVE QueueInv'
    OBVIOUS
  <1> USE DEF QueueInv, QueueType, FirstInFirstOut, At, Goto, Places
  <1>0. \A i \in 1 .. Len(retry) : retry[i] \in Event
    OBVIOUS
  <1>1. CASE UNCHANGED vars
    BY <1>1 DEF vars
  <1>2. ASSUME NEW e \in Event, Publish(e) \/ Succeed(e) PROVE QueueInv'
    <2>1. /\ UNCHANGED <<retry, waited>>
          /\ place' \in [Event -> Places]
          /\ \A i \in 1 .. Len(retry) : place'[retry[i]] = "retry"
      BY <1>0, <1>2 DEF Publish, Succeed
    <2> QED
      BY <2>1
  <1>3. ASSUME NEW e \in Event, Fail(e) PROVE QueueInv'
    <2>1. place' \in [Event -> Places] /\ \A i \in 1 .. Len(retry) : retry[i] # e
      BY <1>3, <1>0 DEF Fail
    <2>2. CASE UNCHANGED <<attempt, retry, waited>>
      <3>1. \A i \in 1 .. Len(retry) : place'[retry[i]] = "retry"
        BY <2>1, <2>2, <1>0, <1>3 DEF Fail
      <3> QED
        BY <2>1, <2>2, <3>1
    <2>3. CASE /\ retry' = Append(retry, e)
               /\ waited' = [waited EXCEPT ![e] = 0]
               /\ place' = [place EXCEPT ![e] = "retry"]
      <3>1. /\ retry' \in Seq(Event) /\ Len(retry') = Len(retry) + 1
            /\ retry'[Len(retry) + 1] = e
            /\ \A i \in 1 .. Len(retry) : retry'[i] = retry[i]
        BY <2>3
      <3>2. /\ waited' \in [Event -> Nat] /\ waited'[e] = 0
            /\ \A i \in 1 .. Len(retry) : waited'[retry[i]] = waited[retry[i]]
        BY <2>1, <2>3, <1>0
      <3>3. place'[e] = "retry" /\ \A i \in 1 .. Len(retry) : place'[retry[i]] = "retry"
        BY <2>1, <2>3, <1>0
      <3>4. \A i \in 1 .. Len(retry') : i \in 1 .. Len(retry) \/ i = Len(retry) + 1
        BY <3>1
      <3>5. \A i \in 1 .. Len(retry') : place'[retry'[i]] = "retry"
        <4>1. ASSUME NEW i \in 1 .. Len(retry') PROVE place'[retry'[i]] = "retry"
          <5>1. CASE i \in 1 .. Len(retry)
            <6>1. retry'[i] = retry[i] /\ place'[retry[i]] = "retry"
              BY <5>1, <3>1, <3>3
            <6> QED
              BY <6>1, Zenon
          <5>2. CASE i = Len(retry) + 1
            BY <5>2, <3>1, <3>3, Zenon
          <5> QED
            BY <4>1, <5>1, <5>2, <3>4
        <4> QED
          BY <4>1
      <3>6. \A i, j \in 1 .. Len(retry') : retry'[i] = retry'[j] => i = j
        BY SMTT(60), <3>1, <3>4, <2>1
      <3>7. \A i, j \in 1 .. Len(retry') : i < j => waited'[retry'[j]] <= waited'[retry'[i]]
        <4>1. ASSUME NEW i \in 1 .. Len(retry'), NEW j \in 1 .. Len(retry'), i < j
              PROVE  waited'[retry'[j]] <= waited'[retry'[i]]
          <5>0. i \in 1 .. Len(retry)
            <6>1. Len(retry') = Len(retry) + 1 /\ Len(retry) \in Nat
              BY <3>1
            <6> QED
              BY <4>1, <6>1
          <5>1. i \in 1 .. Len(retry) /\ retry'[i] = retry[i] /\ waited'[retry[i]] \in Nat
            BY <5>0, <3>1, <3>2, <1>0
          <5>2. CASE j = Len(retry) + 1
            BY <5>1, <5>2, <3>1, <3>2
          <5>3. CASE j \in 1 .. Len(retry)
            BY <5>1, <5>3, <4>1, <3>1, <3>2
          <5> QED
            BY <5>2, <5>3, <3>4
        <4> QED
          BY <4>1
      <3> QED
        BY <2>1, <3>1, <3>2, <3>5, <3>6, <3>7
    <2> QED
      BY <1>3, <2>2, <2>3 DEF Fail
  <1>4. CASE Expire
    <2>1. /\ retry # <<>> /\ retry' = Tail(retry) /\ UNCHANGED waited
          /\ place' = [place EXCEPT ![Head(retry)] = "new"]
      BY <1>4 DEF Expire, HeadExpired
    <2>2. /\ retry' \in Seq(Event) /\ Len(retry') = Len(retry) - 1
          /\ Head(retry) = retry[1] /\ 1 \in 1 .. Len(retry)
          /\ \A i \in 1 .. Len(retry') : retry'[i] = retry[i + 1] /\ i + 1 \in 1 .. Len(retry)
      BY <2>1
    <2>3. \A i \in 1 .. Len(retry') : retry[i + 1] # Head(retry)
      BY <2>2
    <2>4. \A i \in 1 .. Len(retry') : place'[retry'[i]] = "retry"
      BY <2>1, <2>2, <2>3, <1>0
    <2>5. place' \in [Event -> Places]
      BY <2>1
    <2>6. ASSUME NEW i \in 1 .. Len(retry'), NEW j \in 1 .. Len(retry'), retry'[i] = retry'[j]
          PROVE  i = j
      <3>1. retry[i + 1] = retry[j + 1] /\ i + 1 \in 1 .. Len(retry) /\ j + 1 \in 1 .. Len(retry)
        BY <2>2, <2>6
      <3>2. i + 1 = j + 1
        BY <3>1
      <3> QED
        BY <3>2
    <2>7. \A i, j \in 1 .. Len(retry') : i < j => waited'[retry'[j]] <= waited'[retry'[i]]
      BY <2>1, <2>2
    <2> QED
      BY <2>1, <2>2, <2>4, <2>5, <2>6, <2>7
  <1>5. CASE Tick
    <2>1. UNCHANGED <<place, retry>> /\ waited' \in [Event -> Nat]
      BY <1>5 DEF Tick
    <2>2. \A i \in 1 .. Len(retry) : waited'[retry[i]] = waited[retry[i]] + 1
      BY <1>5, <1>0 DEF Tick
    <2> QED
      BY <2>1, <2>2, <1>0
  <1> QED
    BY <1>1, <1>2, <1>3, <1>4, <1>5 DEF Next

\* Who is at payments.retry is in the queue, with the number of an attempt to
\* come.
AttemptInv ==
  /\ attempt \in [Event -> Nat \ {0}]
  /\ \A e \in Event : At(e, "retry") =>
       attempt[e] \in 2 .. MaxDeliveryAttempts /\ \E i \in 1 .. Len(retry) : retry[i] = e

LEMMA InitAttempt == Init => AttemptInv
  BY DEF Init, AttemptInv, At

LEMMA NextAttempt == QueueInv /\ AttemptInv /\ [Next]_vars => AttemptInv'
  <1> SUFFICES ASSUME QueueInv, AttemptInv, [Next]_vars PROVE AttemptInv'
    OBVIOUS
  <1> USE DelayAssumption DEF AttemptInv, QueueInv, QueueType, At, Goto, Places
  <1>1. CASE UNCHANGED vars
    BY <1>1 DEF vars
  <1>2. ASSUME NEW e \in Event, Publish(e) \/ Succeed(e) PROVE AttemptInv'
    BY ZenonT(60), <1>2 DEF Publish, Succeed
  <1>3. ASSUME NEW e \in Event, Fail(e) PROVE AttemptInv'
    <2>1. CASE attempt[e] >= MaxDeliveryAttempts
      BY <1>3, <2>1 DEF Fail
    <2>2. CASE ~(attempt[e] >= MaxDeliveryAttempts)
      <3>1. /\ attempt' = [attempt EXCEPT ![e] = @ + 1] /\ retry' = Append(retry, e)
            /\ place' = [place EXCEPT ![e] = "retry"]
        BY <1>3, <2>2 DEF Fail
      <3>2. /\ Len(retry') = Len(retry) + 1 /\ Len(retry) \in Nat
            /\ retry'[Len(retry) + 1] = e
            /\ \A i \in 1 .. Len(retry) : retry'[i] = retry[i]
        BY <3>1
      <3>3. attempt' \in [Event -> Nat \ {0}] /\ attempt'[e] \in 2 .. MaxDeliveryAttempts
        BY SMTT(60), <2>2, <3>1
      <3>4. ASSUME NEW f \in Event, place'[f] = "retry"
            PROVE  /\ attempt'[f] \in 2 .. MaxDeliveryAttempts
                   /\ \E i \in 1 .. Len(retry') : retry'[i] = f
        <4>1. CASE f = e
          <5>1. Len(retry) + 1 \in 1 .. Len(retry') /\ retry'[Len(retry) + 1] = f
            BY <3>2, <4>1
          <5> QED
            BY <3>3, <4>1, <5>1
        <4>2. CASE f # e
          <5>1. place[f] = "retry" /\ attempt'[f] = attempt[f]
            BY <3>1, <3>4, <4>2
          <5>2. PICK i \in 1 .. Len(retry) : retry[i] = f
            BY <5>1
          <5>3. i \in 1 .. Len(retry') /\ retry'[i] = f
            BY <5>2, <3>2
          <5> QED
            BY <5>1, <5>3
        <4> QED
          BY <4>1, <4>2
      <3> QED
        BY <3>3, <3>4
    <2> QED
      BY <2>1, <2>2
  <1>4. CASE Expire
    <2>1. /\ retry # <<>> /\ retry' = Tail(retry) /\ UNCHANGED attempt
          /\ place' = [place EXCEPT ![Head(retry)] = "new"]
      BY <1>4 DEF Expire, HeadExpired
    <2>2. /\ Len(retry') = Len(retry) - 1 /\ Len(retry) \in Nat /\ Head(retry) = retry[1]
          /\ \A i \in 1 .. Len(retry') : retry'[i] = retry[i + 1]
      BY <2>1
    <2>3. ASSUME NEW f \in Event, place'[f] = "retry"
          PROVE  attempt[f] \in 2 .. MaxDeliveryAttempts /\ \E i \in 1 .. Len(retry') : retry'[i] = f
      <3>1. place[f] = "retry" /\ f # retry[1]
        BY <2>1, <2>2, <2>3
      <3>2. PICK i \in 1 .. Len(retry) : retry[i] = f
        BY <3>1
      <3>3. i # 1
        BY <3>1, <3>2
      <3>4. i - 1 \in 1 .. Len(retry') /\ i - 1 + 1 = i
        BY <2>2, <3>3
      <3>5. retry'[i - 1] = retry[i]
        BY <2>2, <3>4
      <3> QED
        BY <3>1, <3>2, <3>4, <3>5
    <2> QED
      BY <2>1, <2>3
  <1>5. CASE Tick
    BY <1>5 DEF Tick
  <1> QED
    BY <1>1, <1>2, <1>3, <1>4, <1>5 DEF Next

\* The broker never keeps a message for longer than its own expiration says.
LEMMA TtlIsPromised ==
  ASSUME AttemptInv, NEW e \in Event, At(e, "retry")
  PROVE  /\ PromisedDelay(e) \in Nat
         /\ PromisedDelay(e) <= BaseDelay * 2 ^ (MaxDeliveryAttempts - 2)
         /\ Ttl(e) = Min({PromisedDelay(e), QueueTtl}) /\ Ttl(e) \in Nat
         /\ Ttl(e) <= PromisedDelay(e)
  <1>0. attempt[e] - 2 \in Nat /\ MaxDeliveryAttempts - 2 \in Nat
        /\ attempt[e] - 2 <= MaxDeliveryAttempts - 2 /\ attempt[e] - 1 - 1 = attempt[e] - 2
    BY DelayAssumption DEF AttemptInv
  <1>1. PromisedDelay(e) \in Nat /\ PromisedDelay(e) <= BaseDelay * 2 ^ (MaxDeliveryAttempts - 2)
    BY <1>0, DelaysGrow DEF PromisedDelay
  <1>2. Delay(attempt[e] - 1) = PromisedDelay(e)
    BY <1>0 DEF Delay, PromisedDelay
  <1>3. LET m == Min({PromisedDelay(e), QueueTtl}) IN m \in Nat /\ m <= PromisedDelay(e)
    <2>1. \E x \in {PromisedDelay(e), QueueTtl} : \A y \in {PromisedDelay(e), QueueTtl} : x <= y
      BY <1>1, DelayAssumption
    <2> QED
      BY <1>1, <2>1, DelayAssumption DEF Min
  <1> QED
    BY <1>1, <1>2, <1>3 DEF Ttl

\* Time passes only while the head has some left, and the head has waited
\* longest: nobody's waiting exceeds what the head was promised.
LEMMA TickWithinHead ==
  ASSUME QueueInv, AttemptInv, Tick, NEW e \in Event, At(e, "retry")
  PROVE  /\ 1 \in 1 .. Len(retry) /\ retry[1] \in Event /\ At(retry[1], "retry")
         /\ waited'[e] = waited[e] + 1
         /\ waited'[e] <= PromisedDelay(retry[1])
  <1> USE DEF QueueInv, QueueType, FirstInFirstOut, At
  <1>1. /\ 1 \in 1 .. Len(retry) /\ retry[1] \in Event /\ At(retry[1], "retry")
        /\ Head(retry) = retry[1]
    BY DEF Tick
  <1>2. waited'[e] = waited[e] + 1 /\ waited[e] \in Nat /\ waited[retry[1]] \in Nat
    BY <1>1 DEF Tick
  <1>3. PICK i \in 1 .. Len(retry) : retry[i] = e
    BY DEF AttemptInv
  <1>4. waited[e] <= waited[retry[1]]
    <2>1. CASE i = 1
      BY <2>1, <1>2, <1>3
    <2>2. CASE 1 < i
      BY <2>2, <1>1, <1>3
    <2> QED
      BY <2>1, <2>2, <1>3
  <1>5. /\ Ttl(retry[1]) \in Nat /\ PromisedDelay(retry[1]) \in Nat
        /\ Ttl(retry[1]) <= PromisedDelay(retry[1])
    BY <1>1, TtlIsPromised
  <1>6. waited[retry[1]] < Ttl(retry[1])
    BY <1>1, <1>2, <1>5 DEF Tick, HeadExpired
  <1> QED
    BY <1>1, <1>2, <1>4, <1>5, <1>6

LEMMA InitWait == Init => WaitBounded
  BY DEF Init, WaitBounded, At

LEMMA NextWait == QueueInv /\ AttemptInv /\ AttemptInv' /\ WaitBounded /\ [Next]_vars => WaitBounded'
  <1> SUFFICES ASSUME QueueInv, AttemptInv, AttemptInv', WaitBounded, [Next]_vars,
                      NEW e \in Event, At(e, "retry")'
               PROVE  waited'[e] <= BaseDelay * 2 ^ (MaxDeliveryAttempts - 2)
    BY DEF WaitBounded
  <1> USE DEF At, Goto
  <1>1. MaxDeliveryAttempts - 2 \in Nat /\ BaseDelay * 2 ^ (MaxDeliveryAttempts - 2) \in Nat
    <2>1. MaxDeliveryAttempts - 2 \in Nat
      BY DelayAssumption DEF AttemptInv
    <2> QED
      BY <2>1, DelaysGrow
  <1>2. CASE Tick
    <2>1. At(e, "retry")
      BY <1>2 DEF Tick
    <2>2. /\ waited'[e] <= PromisedDelay(retry[1]) /\ waited'[e] \in Nat
          /\ retry[1] \in Event /\ At(retry[1], "retry")
      BY <1>2, <2>1, TickWithinHead DEF QueueInv, QueueType
    <2>3. /\ PromisedDelay(retry[1]) \in Nat
          /\ PromisedDelay(retry[1]) <= BaseDelay * 2 ^ (MaxDeliveryAttempts - 2)
      BY <2>2, TtlIsPromised
    <2> QED
      BY <1>1, <2>2, <2>3
  <1>3. ASSUME NEW f \in Event, Fail(f) PROVE waited'[e] <= BaseDelay * 2 ^ (MaxDeliveryAttempts - 2)
    BY <1>1, <1>3 DEF Fail, WaitBounded, QueueInv, QueueType
  <1>4. CASE Expire \/ (\E f \in Event : Publish(f) \/ Succeed(f)) \/ UNCHANGED vars
    BY <1>4 DEF Expire, Publish, Succeed, vars, WaitBounded, QueueInv, QueueType
  <1> QED
    BY <1>2, <1>3, <1>4 DEF Next

DelayInv == QueueInv /\ AttemptInv /\ WaitBounded

LEMMA DelayCorrect == Spec => []DelayInv
  <1>1. Init => DelayInv
    BY InitQueue, InitAttempt, InitWait DEF DelayInv
  <1>2. DelayInv /\ [Next]_vars => DelayInv'
    BY NextQueue, NextAttempt, NextWait DEF DelayInv
  <1> QED
    BY <1>1, <1>2, PTL DEF Spec

\* The state of the queue has its type; payments.retry holds exactly the
\* messages that wait, once each.
THEOREM TypeCorrect == Spec => []TypeOK
  <1>1. DelayInv => TypeOK
    <2> SUFFICES ASSUME DelayInv PROVE TypeOK
      OBVIOUS
    <2>1. retry \in Seq(Event) /\ DOMAIN retry = 1 .. Len(retry)
      BY DEF DelayInv, QueueInv, QueueType
    <2>2. \A e \in Event : At(e, "retry") <=> \E i \in DOMAIN retry : retry[i] = e
      <3>1. \A e \in Event : At(e, "retry") => \E i \in DOMAIN retry : retry[i] = e
        BY <2>1 DEF DelayInv, AttemptInv
      <3>2. \A i \in DOMAIN retry : At(retry[i], "retry")
        BY <2>1 DEF DelayInv, QueueInv, QueueType
      <3> QED
        BY <3>1, <3>2
    <2>3. \A e \in Event : At(e, "retry") => attempt[e] \in 2 .. MaxDeliveryAttempts
      BY DEF DelayInv, AttemptInv
    <2>4. \A i, j \in DOMAIN retry : retry[i] = retry[j] => i = j
      BY <2>1 DEF DelayInv, QueueInv, QueueType
    <2>5. place \in [Event -> Places] /\ waited \in [Event -> Nat] /\ attempt \in [Event -> Nat \ {0}]
      BY DEF DelayInv, QueueInv, QueueType, AttemptInv
    <2> QED
      BY <2>1, <2>2, <2>3, <2>4, <2>5 DEF TypeOK
  <1> QED
    BY <1>1, DelayCorrect, PTL

\* No message waits in payments.retry for longer than the delay of the last
\* attempt, whatever the limit, the delays and the length of the queue.
THEOREM WaitsBounded == Spec => []WaitBounded
  <1>1. DelayInv => WaitBounded
    BY DEF DelayInv
  <1> QED
    BY <1>1, DelayCorrect, PTL

\* No retry comes before the delay retry.py computes for it is over.
THEOREM NoRetryEarly == Spec => NeverEarly
  <1>1. DelayInv /\ [Next]_vars =>
          [\A e \in Event : At(e, "retry") /\ place'[e] # "retry" =>
             waited[e] >= Min({PromisedDelay(e), QueueTtl})]_vars
    <2> SUFFICES ASSUME DelayInv, Next, NEW e \in Event, At(e, "retry"), place'[e] # "retry"
                 PROVE  waited[e] >= Min({PromisedDelay(e), QueueTtl})
      OBVIOUS
    <2>1. Expire /\ e = Head(retry)
      BY DEF Next, Publish, Fail, Succeed, Expire, HeadExpired, Tick, At, Goto,
             DelayInv, QueueInv, QueueType
    <2> QED
      BY <2>1, TtlIsPromised DEF Expire, HeadExpired, DelayInv
  <1> QED
    BY <1>1, DelayCorrect, PTL DEF Spec, NeverEarly

\* A message is late only because of a longer delay ahead of it.
THEOREM LateOnlyBehindLonger == Spec => OverdueNeedsLongerAhead
  <1>1. DelayInv /\ [Next]_vars =>
          [\A i \in DOMAIN retry :
             LET e == retry[i] IN
             waited'[e] > waited[e] /\ waited'[e] > PromisedDelay(e) =>
               \E j \in 1 .. i - 1 : PromisedDelay(retry[j]) > PromisedDelay(e)]_vars
    <2> SUFFICES ASSUME DelayInv, Next, NEW i \in 1 .. Len(retry),
                        waited'[retry[i]] > waited[retry[i]],
                        waited'[retry[i]] > PromisedDelay(retry[i])
                 PROVE  \E j \in 1 .. i - 1 : PromisedDelay(retry[j]) > PromisedDelay(retry[i])
      BY DEF DelayInv, QueueInv, QueueType
    <2> USE DEF DelayInv, QueueInv, QueueType
    <2>1. retry[i] \in Event /\ At(retry[i], "retry") /\ waited[retry[i]] \in Nat
      OBVIOUS
    <2>2. Tick
      <3>1. ASSUME NEW e \in Event, Fail(e) PROVE ~(waited'[retry[i]] > waited[retry[i]])
        <4>1. retry[i] # e
          BY <2>1, <3>1 DEF Fail, At
        <4>2. \/ waited' = waited
              \/ waited' = [waited EXCEPT ![e] = 0]
          BY <3>1 DEF Fail
        <4>3. waited'[retry[i]] = waited[retry[i]]
          BY <2>1, <4>1, <4>2
        <4> QED
          BY <2>1, <4>3
      <3>2. ASSUME NEW e \in Event, Publish(e) \/ Succeed(e) PROVE waited' = waited
        BY <3>2 DEF Publish, Succeed
      <3> QED
        BY <2>1, <3>1, <3>2 DEF Next, Expire
    <2>3. /\ retry[1] \in Event /\ At(retry[1], "retry")
          /\ waited'[retry[i]] = waited[retry[i]] + 1
          /\ waited'[retry[i]] <= PromisedDelay(retry[1])
      BY <2>1, <2>2, TickWithinHead
    <2>4. PromisedDelay(retry[i]) \in Nat /\ PromisedDelay(retry[1]) \in Nat
      BY <2>1, <2>3, TtlIsPromised
    <2>5. PromisedDelay(retry[1]) > PromisedDelay(retry[i])
      BY <2>1, <2>3, <2>4
    <2>6. 1 \in 1 .. i - 1
      BY <2>4, <2>5
    <2> QED
      BY <2>5, <2>6
  <1> QED
    BY <1>1, DelayCorrect, PTL DEF Spec, OverdueNeedsLongerAhead
=============================================================================
