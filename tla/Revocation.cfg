SPECIFICATION Spec
CONSTANTS
  capkit = capkit
  other = other
  Services = {capkit, other}
  Stores = {"sqlite", "file"}
  Writers <- WritersOfEach
  Tokens = {t1, t2}
  Lifetimes = {1, 2}
  Hold = 1
  MaxTime = 2
  MaxRevocations = 3
  MaxFaults = 1
CHECK_DEADLOCK FALSE
INVARIANTS TypeOK RevokedStaysRefused ServicesAgree
SYMMETRY Symmetry
