SPECIFICATION ScheduleSpec
CONSTANTS
  BootGrace = 1
  StartDelay = 1
  BuzzerMax = 2
  MinRun = 1
  MaxRun = 3
  LoraTimeout = 1
  Choices <- FactoryOnly
  OHReadings = {}
  UGReadings = {}
  Operated = {"OH"}
  LastSlot = 1
  Minute = 1
  Day = 4
  MaxDuration = 2
  Entries <- TwoOverlapping
INVARIANT ScheduleTypeOK
PROPERTIES MotorSpec OverlapKeepsRunning OrphansByEdits
