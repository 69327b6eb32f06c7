\* One resource and one place in the queue for two requests; a broadcast
\* reaches the node that has the tool and one that has not.
CONSTANTS
  Kinds = {"model", "mcp"}
  Requests = {"q1", "q2"}
  SubNodes = {"n1", "n2"}
  Owners = {"n1"}
  None = "none"
  Resources = {"r1"}
  InitIdle = {"r1"}
  MaxSize = 1
  MaxPending = 1
  Overflow = "Queue"
  NoResource = "nores"
  MaxUnannounced = 2
  Nil = Nil
SPECIFICATION MCSpec
PROPERTIES ImplementsResponder CallsAnswered DeclaredIsHeard
CHECK_DEADLOCK FALSE
