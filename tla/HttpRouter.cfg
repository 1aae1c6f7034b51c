SPECIFICATION Spec
CONSTANTS
  Conns = {c1}
  Requests <- MCRequests
  Names <- MCNames
  Directories <- MCDirectories
  MaxRestarts = 0
  Pieces = {"/", "files", "FILES", "echo", "user-agent", "X"}
  MaxPieces = 5
INVARIANTS MatchInvertsJoin NothingLost OneHandler
CHECK_DEADLOCK FALSE
