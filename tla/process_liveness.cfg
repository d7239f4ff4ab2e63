SPECIFICATION FairSpec
CONSTANTS
  Payment = {p1}
  Handler = {h1, h2}
  MaxDeliveryAttempts = 3
  MaxWebhookAttempts = 1
  MaxPublications = 1
  MaxFaults = 1
  NULL = NULL
INVARIANT GivesUpAtLimit
PROPERTIES
  EventSettled
  Quiesces
\* The system stops when every event is settled.
CHECK_DEADLOCK FALSE
