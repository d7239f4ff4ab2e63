SPECIFICATION FairSpec
CONSTANTS
  Api = {a1, a2}
  Consumer = {c1, c2}
  Event = {e1}
  MaxFaults = 2
  NULL = NULL
INVARIANTS TopologyFirst NothingLost
PROPERTY ServiceComesUp
\* The system stops when every event is settled and no fault is left.
CHECK_DEADLOCK FALSE
