SPECIFICATION Spec
CONSTANTS
  bash = bash  write = write  rm = rm
  Tools = {bash, write, rm}
  Permission <- Policy
  MaxTurns = 4
  MaxCalls = 2
  MaxRuns = 2
  MaxCrashes = 1
CHECK_DEADLOCK FALSE
INVARIANTS CallsPaired WaitsClean
PROPERTIES AnswersMatch CancelStops RunsReturn
