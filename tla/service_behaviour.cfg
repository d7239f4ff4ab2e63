SPECIFICATION FairServiceSpec
CONSTANTS
  Payment = {p1, p2}
  Key = {k1, k2}
  Body = {b1}
  InvalidKey = {}
  Process = {a1}
  BatchSize = 2
  Handler = {h1}
  MaxDeliveryAttempts = 1
  MaxWebhookAttempts = 1
  MaxApiFaults = 0
  MaxRelayFaults = 1
  MaxPublications = 2
  MaxFaults = 0
  NULL = NULL
PROPERTIES
  IsConsumersEnvironment
  AcceptedSettled
\* The service stops when every event is settled.
CHECK_DEADLOCK FALSE
