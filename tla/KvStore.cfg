SPECIFICATION Spec
CONSTANTS
  Keys = {k1, k2}
  Conns = {c1, c2}
  Strings = {v1, v2}
  Strm = Strm
  None = None
  MaxTime = 2
  Pxs <- MCPxs
  Modulus = 16
INVARIANTS TypeOK GetAnswers CrashNeedsTwoGets
PROPERTY DropOnlyWhenDue
SYMMETRY MCSymmetry
CHECK_DEADLOCK FALSE
