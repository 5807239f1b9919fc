SPECIFICATION FairSpec
CONSTANTS
  Task = {t1, t2}
  Ctl = {c1, c2}
  Pid = {p1, p2}
  NoTask = NoTask
  NoPid = NoPid
  NoCtl = NoCtl
  MaxVersion = 1
  MaxRestarts = 0
  Reassign = FALSE
PROPERTIES RemoveUnblocksWait
CHECK_DEADLOCK FALSE
