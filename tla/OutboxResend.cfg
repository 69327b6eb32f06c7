SPECIFICATION Spec
CONSTANTS
  p1 = p1  p2 = p2  h = h  a = a
  Cids = {p1}
  Kind <- Peer
  Capacity = 1
  MaxCrashes = 2
  NoCid = NoCid
CHECK_DEADLOCK FALSE
INVARIANT ResentOnce
