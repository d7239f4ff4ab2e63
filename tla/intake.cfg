SPECIFICATION FairSpec
CONSTANTS
  Request = {r1, r2, r3, r4}
  Key = {k1, k2, blank}
  Body = {b1, b2}
  InvalidKey = {blank}
  MaxFaults = 1
  NULL = NULL
INVARIANTS
  IndexGuardsKey
  AcceptedIsStored
  EventIffPayment
  ErrorNeedsFault
PROPERTIES
  ImplementsIntake
  RequestAnswered
\* The system stops when every request is answered.
CHECK_DEADLOCK FALSE
