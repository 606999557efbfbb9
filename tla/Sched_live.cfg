SPECIFICATION FairScheduleSpec
CONSTANTS
  BootGrace = 1
  StartDelay = 2
  BuzzerMax = 3
  MinRun = 1
  MaxRun = 3
  LoraTimeout = 1
  Choices <- FactoryOnly
  OHReadings = {1}
  UGReadings = {}
  Operated = {"OH"}
  LastSlot = 0
  Minute = 2
  Day = 4
  MaxDuration = 2
  Entries <- ShortOrLong
PROPERTIES RunsEnd CountdownsEnd SlotRunsEnd
