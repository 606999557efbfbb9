SPECIFICATION Spec
CONSTANTS
  Taps = 3
  OnWait = 1
  OffWait = 2
  AckTimeout = 4
  WatchWindow = 7
  FailClear = 2
  RejectClear = 3
  Latency = 1
INVARIANTS CommandTypeOK FailureFinal
PROPERTY FailsUnanswered
