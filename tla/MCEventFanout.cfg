CONSTANTS
  Watcher = {w1, w2}
  MaxEvents = 3
  MaxConnects = 3
SPECIFICATION FanoutSpec
INVARIANTS
  SeenInOrder
PROPERTIES
  EventsArrive
CHECK_DEADLOCK FALSE
