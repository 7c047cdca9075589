SPECIFICATION Spec
CONSTANTS
  MaxRecords = 3
  MaxRewrites = 1
  Intervals <- EveryOtherHour
  Hour = 2
  Timeout = 1
  MaxTime = 10
  MaxMisses = 1
  MaxRestarts = 1
CHECK_DEADLOCK FALSE
INVARIANTS TypeOK RewriteIsCaught HonestPasses WindowBounded WitnessingsSpaced
