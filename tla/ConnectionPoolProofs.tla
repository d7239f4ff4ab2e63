------------------------ MODULE ConnectionPoolProofs ------------------------
(* What a job holds at each step, proved for any number of jobs, rows and  *)
(* connections.                                                            *)
EXTENDS ConnectionPool, FiniteSetTheorems, TLAPS

\* A job has a connection exactly while it works in its transaction, and has
\* written a row only while it is about to commit.
HeldByStep ==
  /\ \A j \in Job : pc[j] \in {"work", "write", "commit"} => conn[j] = 1
  /\ \A j \in Job : pc[j] \in {"new", "lookup", "again", "done"} => conn[j] = 0
  /\ \A r \in Row : holder[r] # NULL => pc[holder[r]] = "commit"

PoolInv == TypeOK /\ HeldByStep

LEMMA InitPool == Init => PoolInv
  BY PoolAssumption DEF Init, PoolInv, TypeOK, HeldByStep

LEMMA InvariantHoldsNothing == PoolInv => NoHoldAndWait /\ NoLeak
  <1> SUFFICES ASSUME PoolInv PROVE NoHoldAndWait /\ NoLeak OBVIOUS
  <1> USE PoolAssumption DEF PoolInv, TypeOK, HeldByStep, Waiting, Active
  <1>1. NoHoldAndWait
    <2>1. ASSUME NEW j \in Waiting PROVE conn[j] = 0 /\ \A r \in Row : holder[r] # j
      OBVIOUS
    <2> QED BY <2>1 DEF NoHoldAndWait
  <1>2. \A j \in Job : conn[j] > 0 => j \in Active
    OBVIOUS
  <1>3. \A r \in Row : holder[r] # NULL => conn[holder[r]] > 0
    <2>1. ASSUME NEW r \in Row, holder[r] # NULL PROVE conn[holder[r]] > 0
      <3>1. holder[r] \in Job /\ pc[holder[r]] = "commit" BY <2>1
      <3> QED BY <3>1
    <2> QED BY <2>1
  <1> QED BY <1>1, <1>2, <1>3 DEF NoLeak

\* A step keeps what every other job holds; of the job itself only what it
\* holds afterwards matters.
LEMMA NextPool == PoolInv /\ [Next]_vars => PoolInv'
  <1> SUFFICES ASSUME PoolInv, [Next]_vars PROVE PoolInv' OBVIOUS
  <1> USE PoolAssumption DEF PoolInv, TypeOK, HeldByStep
  <1>1. CASE UNCHANGED vars
    BY <1>1 DEF vars
  <1>2. ASSUME NEW j \in Job, Arrive(j) PROVE PoolInv'
    BY <1>2 DEF Arrive, Goto
  <1>3. ASSUME NEW j \in Job, Lookup(j) PROVE PoolInv'
    BY <1>3 DEF Lookup, Connect, Goto
  <1>4. ASSUME NEW j \in Job, Work(j) PROVE PoolInv'
    BY <1>4 DEF Work, Goto
  <1>5. ASSUME NEW j \in Job, Write(j) PROVE PoolInv'
    BY <1>5 DEF Write, Goto
  <1>6. ASSUME NEW j \in Job, Commit(j) PROVE PoolInv'
    BY <1>6 DEF Commit, Goto, Unlock
  <1>7. ASSUME NEW j \in Job, Again(j) PROVE PoolInv'
    BY <1>7 DEF Again, Connect, Goto
  <1>8. ASSUME NEW j \in Job, Finish(j) PROVE PoolInv'
    BY <1>8 DEF Finish, Close, Goto
  <1>9. ASSUME NEW j \in Job, Fail(j) PROVE PoolInv'
    BY <1>9 DEF Fail, Close, Unlock, Goto, Active, Waiting
  <1>10. ASSUME NEW j \in Job, Timeout(j) PROVE PoolInv'
    BY <1>10 DEF Timeout, Close, Goto, Waiting
  <1> QED
    BY <1>1, <1>2, <1>3, <1>4, <1>5, <1>6, <1>7, <1>8, <1>9, <1>10 DEF Next, Step

LEMMA PoolCorrect == Spec => []PoolInv
  BY InitPool, NextPool, PTL DEF Spec

\* The pool's state has its type: no job ever has two connections.
THEOREM TypeCorrect == Spec => []TypeOK
  <1>1. PoolInv => TypeOK BY DEF PoolInv
  <1> QED BY <1>1, PoolCorrect, PTL

\* No job waits for a connection while it holds one, or a row that others
\* wait for: session.py's pool is never part of a cycle of waiting jobs.
THEOREM NoCycleThroughPool == Spec => []NoHoldAndWait
  <1>1. PoolInv => NoHoldAndWait BY InvariantHoldsNothing
  <1> QED BY <1>1, PoolCorrect, PTL

\* Sessions give their connections back on every path, and whoever has
\* written a row is able to end its transaction.
THEOREM ConnectionsReturned == Spec => []NoLeak
  <1>1. PoolInv => NoLeak BY InvariantHoldsNothing
  <1> QED BY <1>1, PoolCorrect, PTL

\* One connection per job at most: they are as many as the jobs that have one,
\* and none of those is waiting.
LEMMA OneConnectionEach ==
  ASSUME PoolInv
  PROVE  /\ IsFiniteSet(Active) /\ Waiting \subseteq Active
         /\ InUse \in Nat
         /\ InUse <= Cardinality(Active \ Waiting)
  <1> DEFINE S == Active \ Waiting
             f == [j \in S |-> <<j, 1>>]
             T == {f[j] : j \in S}
  <1> USE PoolAssumption DEF PoolInv, TypeOK, HeldByStep
  <1>1. IsFiniteSet(Active) /\ Waiting \subseteq Active /\ IsFiniteSet(S)
    BY FS_Subset DEF Active, Waiting
  <1>2. f \in Surjection(S, T)
    BY DEF Surjection
  <1>3. IsFiniteSet(T) /\ Cardinality(T) <= Cardinality(S)
    BY <1>1, <1>2, FS_Surjection
  <1>4. CheckedOut \subseteq T
    <2> SUFFICES ASSUME NEW c \in CheckedOut PROVE c \in T
      OBVIOUS
    <2>1. PICK j \in Job : c \in {j} \X (1 .. conn[j])
      BY DEF CheckedOut
    <2>2. PICK k \in 1 .. conn[j] : c = <<j, k>>
      BY <2>1
    <2>3. conn[j] = 1 /\ c = <<j, 1>>
      BY <2>2
    <2>4. j \in S
      BY <2>3 DEF Active, Waiting
    <2>5. QED
      BY <2>3, <2>4
  <1>5. /\ IsFiniteSet(CheckedOut) /\ Cardinality(CheckedOut) <= Cardinality(T)
        /\ Cardinality(CheckedOut) \in Nat /\ Cardinality(T) \in Nat /\ Cardinality(S) \in Nat
    BY <1>1, <1>3, <1>4, FS_Subset, FS_CardinalityType
  <1>6. QED
    BY <1>1, <1>3, <1>5 DEF InUse

\* A job waits for the pool in vain only while more jobs run than it has
\* connections: no session keeps one it does not use.
THEOREM TimeoutsNeedLoad == Spec => []TimeoutNeedsLoad
  <1>1. PoolInv => TimeoutNeedsLoad
    <2> SUFFICES ASSUME PoolInv, InUse >= Capacity, NEW j \in Waiting
                 PROVE  Cardinality(Active) > Capacity
      BY DEF TimeoutNeedsLoad
    <2>1. /\ IsFiniteSet(Active) /\ j \in Active /\ InUse \in Nat
          /\ InUse <= Cardinality(Active \ Waiting)
      BY OneConnectionEach
    <2>2. /\ Cardinality(Active \ {j}) = Cardinality(Active) - 1
          /\ IsFiniteSet(Active \ {j}) /\ Cardinality(Active) \in Nat
      BY <2>1, FS_RemoveElement, FS_CardinalityType
    <2>3. Active \ Waiting \subseteq Active \ {j}
      OBVIOUS
    <2>4. /\ Cardinality(Active \ Waiting) <= Cardinality(Active \ {j})
          /\ Cardinality(Active \ Waiting) \in Nat
      BY <2>2, <2>3, FS_Subset, FS_CardinalityType
    <2>5. QED
      BY <2>1, <2>2, <2>4, PoolAssumption
  <1>2. QED
    BY <1>1, PoolCorrect, PTL
=============================================================================
