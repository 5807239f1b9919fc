SPECIFICATION Spec
CONSTANTS
  Task = {t1, t2}
  Image <- TwoImages
  Contents <- Trees
  InitSystem = TRUE
  KeepDays = 1
  Own = Own
  None = None
PROPERTIES HandsOutFinished GoodIsKept PrepareReturns
