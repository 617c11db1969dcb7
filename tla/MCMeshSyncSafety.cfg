CONSTANTS
  Device = {phone1, phone2}
  phone1 = phone1
  phone2 = phone2
  Msg <- TwoAndOne
  MaxIter = 2
  MaxFound = 1
  MaxMeta = 24
  MaxMissed = 2
  LateCreate = TRUE
SPECIFICATION Spec
INVARIANTS
  CausallyClosed
  OnlyMissedHoldBack
CHECK_DEADLOCK FALSE
