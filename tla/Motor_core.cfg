SPECIFICATION Spec
CONSTANTS
  BootGrace = 1
  StartDelay = 1
  BuzzerMax = 2
  MinRun = 1
  MaxRun = 2
  LoraTimeout = 1
  Choices <- Toggled
  OHReadings = {1, 2, 4}
  UGReadings = {2, 4}
  Operated = {"OH"}
INVARIANTS TypeOK SourceOwnsMotor CountdownExcludesRun FullStopsOverhead RuntimeLimited
PROPERTIES WarnedWhileCounting NoUnwarnedStart AutoStartJustified IntentFollowsRun
