SPECIFICATION Spec
CONSTANTS
  Pids = {p1, p2, p3}
  Periods = {3, 5}
  Computations = {1, 2}
  None = None
  UINT <- Word16
  ULONG <- Word20
  MaxCalls = 14
SYMMETRY Symmetry
INVARIANT UtilizationBound
CHECK_DEADLOCK FALSE
