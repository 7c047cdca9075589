CONSTANTS
  h1 = h1
  h2 = h2
  h3 = h3
  Hashes = {h1, h2, h3}
  Times = {0}
  MaxRecords = 4
SPECIFICATION Spec
INVARIANT FailuresCountRecords
CHECK_DEADLOCK FALSE
