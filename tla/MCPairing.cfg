CONSTANTS
  Thread = {t1, t2, t3}
  Window = 2
  MaxRequests = 2
  TTL = {1, 3}
  MaxClock = 4
  MaxTokens = 4
SYMMETRY Alike
SPECIFICATION Spec
INVARIANTS
  WindowRespected
  NoFalseRefusal
CHECK_DEADLOCK FALSE
