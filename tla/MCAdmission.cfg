SPECIFICATION Spec
CONSTANTS
  Pids = {p1, p2, p3}
  Periods = {2, 3, 5}
  Computations = {0, 1, 2}
  None = None
  UINT <- Word16
  ULONG <- Word20
  MaxCalls = 7
SYMMETRY Symmetry
INVARIANTS TypeOK RecordedBound Accounted DecisionExact
CHECK_DEADLOCK FALSE
