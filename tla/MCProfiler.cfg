SPECIFICATION Spec
CONSTANTS
  p1 = p1 p2 = p2 NULL = NULL
  Works <- MCWorks
  VM_ELEMENT_SIZE = 8
  VM_ELEMENTS = 8
  BUFD_MAX = 4
  Crashing = TRUE
  MaxFaults = 1
  Garbage <- MCGarbage
SYMMETRY Symm
INVARIANTS WorkOnlyWithTasks LockHasHolder InBounds Inv
CHECK_DEADLOCK FALSE
