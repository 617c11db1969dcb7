CONSTANTS
  Device = {phone1, phone2}
  phone1 = phone1
  phone2 = phone2
  Msg <- TwoAndOne
  MaxIter = 3
  MaxFound = 1
  MaxMeta = 7
  MaxMissed = 1
  LateCreate = FALSE
SPECIFICATION LossySpec
INVARIANTS
  WaitedForIsAskedFor
PROPERTIES
  HistoryCatchesUp
  Quiesces
CHECK_DEADLOCK FALSE
