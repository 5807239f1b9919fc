SPECIFICATION Spec
CONSTANTS
  Task = {t1, t2}
  Ctl = {c1, c2, c3}
  Pid = {p1, p2, p3}
  NoTask = NoTask
  NoPid = NoPid
  NoCtl = NoCtl
  MaxVersion = 1
  MaxRestarts = 1
  Reassign = FALSE
SYMMETRY Symm
INVARIANTS TypeOK LiveVMTracked StartedIsTracked SweepSparesHeldTasks RemovedLeavesNothing
PROPERTIES StopLeavesNoVM ImplementsTaskRuntime
CHECK_DEADLOCK FALSE
