SPECIFICATION FairSpec
CONSTANTS
  WatchdogLimit = 7
  Retry = 1
  FailLimit = 2
  WireMax = 2
  Updates = 1
INVARIANTS MqttTypeOK SlotFree
PROPERTIES WatchdogActs Recovers
