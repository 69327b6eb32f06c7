SPECIFICATION MCSpec
CONSTANTS
  a1 = a1  a2 = a2  a3 = a3  a4 = a4
  r1 = r1  r2 = r2  r3 = r3
  Acquirers = {a1, a2}
  Resources = {r1}
  Faulty = {}
  InitIdle = {r1}
  MaxSize = 1
  MaxPending = 0
  Overflow = "Block"
  Strategies = {"Block"}
  HasProvisioner = FALSE
  NoResource = NoResource
  MaxUnannounced = 2
INVARIANTS ClosedOnlyWhenClosed
