SPECIFICATION FairSpec
CONSTANTS
  Policies = {0, 1}
  MaxRecords = 3
  MaxDay = 2
  MaxFailures = 1
INVARIANTS
  TypeOK
  ChainExplained
  NoFalseAlarm
PROPERTIES
  OnlyExpiredLeave
  LogSpec
  Healed
CHECK_DEADLOCK FALSE
