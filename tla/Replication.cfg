SPECIFICATION Spec
CONSTANTS
  Keys = {k1}
  Replicas = {r1, r2}
  None = None
  Ops = {"set", "incr"}
  MaxWrites = 3
  MaxRestarts = 1
INVARIANTS AgreesOnWhatFollows NeverAhead
PROPERTIES NeverGoesBack StartEnds CatchesUp
CHECK_DEADLOCK FALSE
