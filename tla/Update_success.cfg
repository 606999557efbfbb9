SPECIFICATION FairSpec
CONSTANTS
  Versions = {"v1", "v2"}
  Timeout = 2
  ReportsMax = 2
PROPERTY SuccessMeansFlashed
