SPECIFICATION Spec
CONSTANTS
  Keys = {k1}
  Conns = {c1, c2}
  Strings = {v1, v2}
  Strm = Strm
  None = None
  MaxTime = 2
  Pxs <- MCPxs
  Modulus = 16
INVARIANT ExpiredStaysGone
SYMMETRY MCSymmetry
CHECK_DEADLOCK FALSE
