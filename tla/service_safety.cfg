SPECIFICATION ServiceSpec
CONSTANTS
  Payment = {p1, p2}
  Key = {k1}
  Body = {b1}
  InvalidKey = {}
  Process = {a1}
  BatchSize = 1
  Handler = {h1, h2}
  MaxDeliveryAttempts = 2
  MaxWebhookAttempts = 1
  MaxApiFaults = 1
  MaxRelayFaults = 0
  MaxPublications = 1
  MaxFaults = 1
  NULL = NULL
SYMMETRY Symmetry
INVARIANTS
  ServiceTypeOK
  AcceptedInCustody
  OneOutcomePerKey
