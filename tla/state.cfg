SPECIFICATION Spec
CONSTANTS
  ID = {a, b}
  Proc = {p1, p2, p3}
  DefaultDir = TRUE
  MaxActive = 2
  MaxFaults = 2
INVARIANTS FileLoads SavedStays
PROPERTIES Reconciled
CHECK_DEADLOCK FALSE
