SPECIFICATION Spec
CONSTANTS
  Payment = {p1}
  Handler = {h1, h2}
  MaxDeliveryAttempts = 2
  MaxWebhookAttempts = 2
  MaxPublications = 2
  MaxFaults = 2
  NULL = NULL
SYMMETRY Symmetry
INVARIANTS
  NotificationsMatchStore
  EventInCustody
  StoredOutcomeWasCharged
  HandlersInformed
  ExtraChargeNeedsFault
  CopyNeedsFault
PROPERTY ImplementsOutcome
\* The system stops when every event is settled.
CHECK_DEADLOCK FALSE
