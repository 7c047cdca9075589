CONSTANTS
  RequiredMargin = 60
  MinIndependent = 2
  Influence = 25
  ann = ann
  ben = ben
  ops = ops
  Agents = {ann, ben}
  Operators = {ops}
  Pairs <- OnePair
  Reports <- SomeReports
  Saturation = 2
  Level <- Levels
  Panels <- SomePanels
  MaxEvents = 3
  MaxAppeals = 2
  MaxBreaches = 1
  MaxFaults = 1
  MaxDisputes = 1
  MaxRows = 5
SPECIFICATION Spec
INVARIANTS TypeOK NoFamilySettlesAlone AppealsSettled BreachesCharged
