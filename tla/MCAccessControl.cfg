SPECIFICATION Spec
CONSTANTS
  p1 = p1
  p2 = p2
  c1 = c1
  c2 = c2
  c3 = c3
  b1 = b1
  b2 = b2
  b3 = b3
  prog = prog
  file = file
  NULL = NULL
  POISON = POISON
  Procs <- MCProcs
  Boot = p1
  Creds = {c1, c2, c3}
  Blobs = {b1, b2, b3}
  Inodes <- MCInodes
  Dirs = {}
  Skipped = {prog}
  Labels <- MCLabels
  Masks <- MCMasks
SYMMETRY Symm
INVARIANTS TypeOK BlobsOwned LabelFollowsExec RefsBalanced DecidesAsDocumented Inv
CHECK_DEADLOCK FALSE
