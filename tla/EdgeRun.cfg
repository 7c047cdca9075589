SPECIFICATION Spec
CONSTANTS
  j1 = j1
  j2 = j2
  j3 = j3
  t1 = t1
  t2 = t2
  NoJob = NoJob
  Jobs = {j1, j2, j3}
  Ids = {i1, i2, i3}
  Targets = {t1}
  TargetOf <- OneTarget
  Rank <- SamePriority
  Concurrency = 2
  Limit = 2
  MaxAttempts = 2
  FailureThreshold = 1
  SuccessThreshold = 2
  MaxEvents = 4
INVARIANTS
  TypeOK
  AcceptedSurvives
  RecordedOnce
  RunsBounded
  CapacityRespected
  RecoveryIsProbed
SYMMETRY Symmetry
CHECK_DEADLOCK FALSE
