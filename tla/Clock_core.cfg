SPECIFICATION ClockSpec
CONSTANTS
  Now = 7
  SavePeriod = 2
INVARIANT ClockTypeOK
PROPERTY ClockResumes
CHECK_DEADLOCK FALSE
