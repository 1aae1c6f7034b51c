SPECIFICATION Spec
CONSTANTS
  Keys = {k1}
  Conns = {c1, c2}
  Times <- MCTimes
  Seqs <- MCSeqs
  MaxInt = 2
  MaxLen = 3
  Minus = Minus
  Plus = Plus
INVARIANTS TypeOK IdsIncrease ReadsExactWhenCovered
  OrderedRangePanicsIffEmpty WildcardAccepted
PROPERTY AppendOnly
SYMMETRY MCSymmetry
CHECK_DEADLOCK FALSE
