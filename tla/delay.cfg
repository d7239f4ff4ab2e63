SPECIFICATION FairSpec
CONSTANTS
  Event = {e1, e2, e3}
  MaxDeliveryAttempts = 4
  BaseDelay = 1
  QueueTtl = 5
INVARIANTS
  WaitBounded
PROPERTIES
  OverdueNeedsLongerAhead
  RetriesEnd
\* The system stops when every event is settled.
CHECK_DEADLOCK FALSE
