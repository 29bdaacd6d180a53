SPECIFICATION FairSpec
CONSTANTS
  p1 = p1 p2 = p2 NULL = NULL
  Works <- MCWorks
  VM_ELEMENT_SIZE = 12
  VM_ELEMENTS = 12
  BUFD_MAX = 8
  Crashing = FALSE
  MaxFaults = 2
  Garbage <- MCGarbage
INVARIANTS SamplesReadBack NotOvercounted Contents
PROPERTY RegisteredIsSampled
CHECK_DEADLOCK FALSE
