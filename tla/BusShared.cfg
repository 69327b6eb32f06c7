SPECIFICATION BothSpec
CONSTANTS
  n1 = n1  h1 = h1  h2 = h2
  Nodes = {n1}
  Handles = {h1, h2}
  NodeOf <- SharedId
  ToMatch <- DefaultMatch
  Types <- AppOnly
  Targets = {{n1}}
  CmdCap = 2
  RingCap = 2
  InboundCap = 1
  TimeoutTicks = 1
SYMMETRY Symmetry
CHECK_DEADLOCK FALSE
INVARIANTS LifecycleMatchesRegistry ReadersStayOnline BarrierExact
