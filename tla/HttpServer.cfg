SPECIFICATION Spec
CONSTANTS
  Conns = {c1, c2}
  Requests <- MCRequests
  Names <- MCNames
  Directories <- MCDirectories
  MaxRestarts = 1
INVARIANTS LengthExact GetsSnapshot FileIsLastPost DownOnlyFrom
PROPERTY Answered
CHECK_DEADLOCK FALSE
