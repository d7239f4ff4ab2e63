SPECIFICATION Spec
CONSTANTS
  Event = {e1, e2}
  MaxDeliveryAttempts = 3
  BaseDelay = 1
  QueueTtl = 8
SYMMETRY Symmetry
INVARIANT ReturnsWhenExpired
\* The system stops when every event is settled.
CHECK_DEADLOCK FALSE
