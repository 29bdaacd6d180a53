SPECIFICATION FairSpec
CONSTANTS
  p1 = p1 p2 = p2 w1 = w1 w2 = w2 NULL = NULL
  Apps <- MCApps
  Workers <- MCWorkers
  MaxTime = 2
  MaxQueued = 2
INVARIANTS TypeOK CursorInList KeptWhileAlive NothingLeft Inv
PROPERTIES UsageFollows DeadAreDropped UsageCatchesUp QuietUnload
CHECK_DEADLOCK FALSE
