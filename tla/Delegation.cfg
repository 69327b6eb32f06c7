CONSTANTS
  \* Two callers and a message for two slots, so that one of them waits; as
  \* many identities as a populate() beside two delegates can need.
  Tasks = {"t1", "t2", "m1"}
  Messages = {"m1"}
  Engines = {"e1", "e2", "e3", "e4"}
  Size = 2
  MaxTurns = 2
  NoEngine = "none"
  Nobody = "nobody"
  \* Three coroutines on one PyState, with two engines and two handles to
  \* choose, and on one NodeHandle, so that one can wait behind a recv() that
  \* waits and one be cancelled between them.
  Calls = {"c1", "c2", "c3"}
  None = None
  \* Two coroutines of a team and three requests: a coroutine can try again
  \* after a timeout, or another take over, while two answers are late.
  Callers = {"c1", "c2"}
  Texts = {"x", "y"}
  NumEngines = 2
  MaxDelegates = 3
  PyEngines = {"e1", "e2"}
  PyStates = {"s1"}
  HandleIds = {"h1", "h2"}
  MaxMessages = 1
  \* Two members, two events each, one type the filter wants, a full channel
  \* from the first event on (a capacity of 0 becomes 1).
  Members = {"m1", "m2"}
  Wanted = {"keep"}
  Types = {"keep", ""}
  BufferSize = 0
  TornWrites = FALSE
  MaxEvents = 2
SPECIFICATION MCSpec
INVARIANTS NoInheritedFailure OwnResult TurnsKept RelayExact
PROPERTIES DelegatesReturn HandleCallsEnd
CHECK_DEADLOCK FALSE
