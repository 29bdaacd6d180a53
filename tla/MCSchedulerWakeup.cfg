SPECIFICATION FairSpec
CONSTANTS
  a = a  b = b  c = c
  Apps = {a, b}
  NULL = NULL
  Period <- PeriodAB
  Computation <- LightAB
  Times <- Jobs22
  HZ = 100
  USER_HZ = 100
  INT_MAX = 1000
  UINT <- Word16
  ULONG <- Word30
  Preemptible = FALSE
  LastStart = 1
  MaxJiffies = 5
PROPERTIES
  ReleasedJobRuns
CHECK_DEADLOCK FALSE
