SPECIFICATION FairSpec
CONSTANTS
  j1 = j1
  j2 = j2
  j3 = j3
  t1 = t1
  t2 = t2
  NoJob = NoJob
  Jobs = {j1, j2}
  Ids = {i1, i2}
  Targets = {t1, t2}
  TargetOf <- TwoTargets
  Rank <- FirstIsHigh
  Concurrency = 1
  Limit = 2
  MaxAttempts = 2
  FailureThreshold = 1
  SuccessThreshold = 2
  MaxEvents = 2
PROPERTIES
  ProbesReport
CHECK_DEADLOCK FALSE
