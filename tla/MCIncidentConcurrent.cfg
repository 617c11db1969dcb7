CONSTANTS
  Ids = {x, y, z}
  Data = {p, q}
  NoRow = NoRow
  x = x
  y = y
  z = z
  p = p
  q = q
  Batches <- Reported
  Created <- OwnIncident
  Answers <- ServerRows
  MaxOps = 3
  MaxPushes = 1
SPECIFICATION Spec
INVARIANTS
  HandledIsStored
  PolygonFollowsRow
  RowIsMaximal
PROPERTIES
  OnlyOvertakenRollBack
CHECK_DEADLOCK FALSE
