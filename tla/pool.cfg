SPECIFICATION FairSpec
CONSTANTS
  j1 = j1  j2 = j2  j3 = j3  j4 = j4  relay = relay  r1 = r1  r2 = r2
  Job = {j1, j2, j3, j4, relay}
  Row = {r1, r2}
  Target <- Targets
  Capacity = 2
  NULL = NULL
INVARIANTS NoHoldAndWait NoLeak TimeoutNeedsLoad
PROPERTY JobsEnd
\* The system stops when every job has ended.
CHECK_DEADLOCK FALSE
