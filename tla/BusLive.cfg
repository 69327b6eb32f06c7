SPECIFICATION MCLive
CONSTANTS
  n1 = n1  h1 = h1  h2 = h2
  Nodes = {n1}
  Handles = {h1}
  NodeOf <- OneId
  ToMatch <- DefaultMatch
  Types <- AppOnly
  Targets = {{}, {n1}}
  CmdCap = 2
  RingCap = 2
  InboundCap = 1
  TimeoutTicks = 1
CHECK_DEADLOCK FALSE
PROPERTIES CallsReturn ShutdownReleases AbandonedLoopEnds
