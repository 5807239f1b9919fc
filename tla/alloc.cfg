SPECIFICATION AllocSpec
CONSTANTS
  Network = {n1, n2}
  Task = {t1, t2}
  Service = {s1}
  Node = {d1}
  NetsOf <- FirstOnBoth
  ServiceNets <- OnBoth
  Ingress = {n2}
  Published = {s1}
  Octet = 3
  Size = 3
  MaxAttempts = 3
  VIPs = 1
  PoolBits = 8
  SubnetSize = 24
  PoolBase <- SmallPool
  Unset = Unset
  NoVIP = NoVIP
  MaxIndex = 3
  MaxHost = 4
  n1 = n1
  n2 = n2
  t1 = t1
INVARIANTS UniqueAddresses LostOnlyWhenReplaced
CHECK_DEADLOCK FALSE
