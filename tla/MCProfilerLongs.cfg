SPECIFICATION Spec
CONSTANTS
  p1 = p1 p2 = p2 NULL = NULL
  Works <- MCWorks
  VM_ELEMENT_SIZE = 24
  VM_ELEMENTS = 12
  BUFD_MAX = 8
  Crashing = FALSE
  MaxFaults = 0
  Garbage <- MCGarbage
INVARIANT InBounds
CHECK_DEADLOCK FALSE
