SPECIFICATION Spec
CONSTANTS
  a = a  b = b  c = c
  Apps = {a, b, c}
  NULL = NULL
  Period <- PeriodABC
  Computation <- LoadABC
  Times <- Jobs322
  HZ = 100
  USER_HZ = 100
  INT_MAX = 1000
  UINT <- Word16
  ULONG <- Word30
  Preemptible = FALSE
  LastStart = 2
  MaxJiffies = 4
INVARIANTS
  NoDangling
  RunningIsCurrent
  NoOrphanSleeper
  OnlyCurrentAtRTPriority
  UtilizationBound
  Inv
PROPERTIES
  PreemptsByPriority
  NotBeforePeriod
CHECK_DEADLOCK FALSE
