SPECIFICATION FairSpec
CONSTANTS
  Event = {e1, e2, e3}
  Relay = {r1, r2}
  BatchSize = 2
  MaxFaults = 2
INVARIANTS
  PublishedWasSent
  LocksExclusive
  DuplicateNeedsFault
PROPERTY EventPublished
