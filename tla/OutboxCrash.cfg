SPECIFICATION Spec
CONSTANTS
  p1 = p1  p2 = p2  h = h  a = a
  Cids = {p1, p2, h, a}
  Kind <- Kinds4
  Capacity = 1
  MaxCrashes = 1
  NoCid = NoCid
SYMMETRY Symmetry
CHECK_DEADLOCK FALSE
INVARIANTS RecordedIsSent AttemptsBacked DispatchedOnce
PROPERTIES AnsweredNotResent
