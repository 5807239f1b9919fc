SPECIFICATION Spec
CONSTANTS
  Task <- MCTask
  NoTask = NoTask
  Size = 5
  Gateway = 4
  Hash <- MCHash
  MaxProbes = 8
  Nets <- MCNets
INVARIANTS UniqueIPs AddressReserved CleanupComplete NoFalseExhaustion
CHECK_DEADLOCK FALSE
