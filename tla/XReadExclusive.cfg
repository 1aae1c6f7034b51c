SPECIFICATION Spec
CONSTANTS
  Keys = {k1}
  Conns = {c1, c2}
  Times <- MCTimes
  Seqs <- MCSeqs
  MaxInt = 2
  MaxLen = 3
  Minus = Minus
  Plus = Plus
INVARIANT XReadExclusive
SYMMETRY MCSymmetry
CHECK_DEADLOCK FALSE
