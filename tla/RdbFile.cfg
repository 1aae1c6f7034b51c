SPECIFICATION Spec
CONSTANTS
  Snapshots <- MCSnapshots
  BufSize = 64
INVARIANTS AllOrNothing WholeFileLoads
CHECK_DEADLOCK FALSE
