\* Two commands at a time, four writes of the store.
SPECIFICATION Spec
CONSTANTS
  c1 = c1
  c2 = c2
  s1 = s1
  s2 = s2
  n1 = n1
  i1 = i1
  i2 = i2
  k1 = k1
  h1 = h1
  None = None
  Client = {c1, c2}
  SvcId = {s1, s2}
  Name = {n1}
  Image = {i1, i2}
  Key = {k1}
  NodeId = {h1}
  MaxReplicas = 1
  MaxVersion = 4
  Changes <- MCChanges
SYMMETRY Symmetry
PROPERTIES UpdatesMerge RemoveSparesNewer
