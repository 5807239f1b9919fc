SPECIFICATION Spec
CONSTANTS
  img = img
  Task = {t1}
  Image = {img}
  ImageOf <- OneImage
  Client = {c1, c2}
  NoClient = NoClient
  Closing = TRUE
  MaxSpawns = 2
  MaxEvents = 1
INVARIANTS LiveVMTracked StuckIsDead
PROPERTIES CallsReturn
CHECK_DEADLOCK FALSE
