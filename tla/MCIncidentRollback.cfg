CONSTANTS
  Ids = {x, y, z}
  Data = {p, q}
  NoRow = NoRow
  x = x
  y = y
  z = z
  p = p
  q = q
  Batches <- Reported
  Created <- OwnIncident
  Answers = {}
  MaxOps = 3
  MaxPushes = 1
SPECIFICATION Spec
PROPERTIES
  NoRollback
CHECK_DEADLOCK FALSE
