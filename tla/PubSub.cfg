SPECIFICATION FairSpec
CONSTANTS
  Replicas = {r1, r2}
  Flaky = {r1, r2}
  Writers = {w1, w2}
  MaxEvents = 2
INVARIANTS TypeOK AnsweredOnce PanicWindow
PROPERTIES ImplementsBroadcast WriteReturnsUnlessWedged DeliveredUnlessWedged
CHECK_DEADLOCK FALSE
