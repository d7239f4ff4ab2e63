SPECIFICATION Spec
CONSTANTS
  Payment = {p1}
  Handler = {h1, h2}
  MaxDeliveryAttempts = 2
  MaxWebhookAttempts = 1
  MaxPublications = 2
  MaxFaults = 1
  NULL = NULL
INVARIANT ChargedAtMostOnce
\* The system stops when every event is settled.
CHECK_DEADLOCK FALSE
