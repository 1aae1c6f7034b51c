SPECIFICATION Spec
CONSTANTS
  Conns = {c1, c2}
  NilId = NilId
  NoQueue = NoQueue
  Keys = {k1}
  Absent = Absent
  Text = Text
  Strm = Strm
  Ops = {"multi", "exec", "discard", "set", "incr", "get", "type", "xadd", "unknown"}
  Numbers <- MCNumbers
  MaxInt = 2
  MaxCmds = 5
INVARIANTS TypeOK ReplayAgreesUnlessOverlap TxExact ExecRunsQueued
SYMMETRY MCSymmetry
CHECK_DEADLOCK FALSE
