CONSTANTS
  Zooms <- OneAndOne
  Worker = {w1, w2}
  Limit = 2
  MaxAttempts = 3
  MaxRunners = 1
  MaxEvents = 2
SPECIFICATION Spec
INVARIANTS
  SettledHasFile
  CompletedIsSettled
  ProgressNotOverstated
  RunningHasRunner
PROPERTIES
  
  ComesToRest
CHECK_DEADLOCK FALSE
