SPECIFICATION FairSpec
CONSTANTS
  Heartbeat = 2
  Stable = 1
  MaxMissed = 1
  Retries = 2
  Reinit = 1
  Positions <- EmptyOrFull

PROPERTY RadioRetried
