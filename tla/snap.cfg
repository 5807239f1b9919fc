SPECIFICATION Spec
CONSTANTS
  VM = {v1, v2}
  Proc = {p1, p2, p3}
  ServiceOf <- OneService
  NoService <- NoServiceFlag
  MaxSnapshots = 1
  MaxActive = 3
  MaxFaults = 1
  svc = svc
  noSvc = noSvc
INVARIANTS NewestKept LimitKept NotLeftPaused FailedRestoreLeavesNoVM ListedIsWhole
PROPERTIES CleanupSparesYoung
SYMMETRY Symmetry
CHECK_DEADLOCK FALSE
