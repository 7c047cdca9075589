SPECIFICATION Spec
CONSTANTS
  a1 = a1
  a2 = a2
  None = None
  Actions = {a1, a2}
  People = {alice, bob}
  Traces = {t1, t2}
  MaxRequests = 2
  Shapes <- TwoShapes
  Batch = 1
  ListLimit = 1
  EphemeralKey = FALSE
  ChainBroken = FALSE
  MaxFailures = 1
CHECK_DEADLOCK FALSE
INVARIANTS TypeOK VouchedByAnother SweptIsNoticed
PROPERTIES DecisionsStand
SYMMETRY Symmetry
