SPECIFICATION Spec
CONSTANTS
  bash = bash  write = write  rm = rm
  Tools = {bash}
  Permission <- AllowOnly
  MaxTurns = 3
  MaxCalls = 1
  MaxRuns = 2
  MaxCrashes = 0
CHECK_DEADLOCK FALSE
INVARIANT RunNeverPanics
