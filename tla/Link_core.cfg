SPECIFICATION FairSpec
CONSTANTS
  Heartbeat = 3
  Stable = 2
  MaxMissed = 2
  Retries = 2
  Reinit = 1
  Positions <- EmptyOrFull
INVARIANTS LinkTypeOK HeartbeatKept
PROPERTIES TankSpec NoStaleLevel SendsSteady LevelSettles
