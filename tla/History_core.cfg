SPECIFICATION HistorySpec
CONSTANTS
  Size = 4
  Listed = 2
  Last = 9
  Failures = 2
INVARIANTS HistoryTypeOK NewestFirst
PROPERTY LogSpec
CHECK_DEADLOCK FALSE
