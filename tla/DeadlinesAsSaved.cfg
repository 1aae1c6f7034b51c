SPECIFICATION Spec
CONSTANTS
  Snapshots <- MCSnapshots
  BufSize = 64
INVARIANT DeadlinesAsSaved
CHECK_DEADLOCK FALSE
