SPECIFICATION OverlaySpec
CONSTANTS
  Peer = {p1, p2}
  NoPeer = NoPeer
  Caller = {c1, c2}
  Boot = boot
  NoMgr = NoMgr
  Static = {p1}
  MaxChanges = 1
  Faults = {"bridge", "route", "link", "fdb"}
  MaxFaults = 1
INVARIANTS StoreForwarded
PROPERTIES PeersForwardedUnlessFault StoreConverges
CHECK_DEADLOCK FALSE
