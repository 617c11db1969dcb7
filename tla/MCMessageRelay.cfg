CONSTANTS
  alice = alice
  bob = bob
  ghost = ghost
  m1 = m1
  m2 = m2
  Users = {alice, bob}
  Ids = {alice, bob}
  Sockets = {s1, s2}
  Requests = {q1, q2}
  Worker = Worker
  Nobody = Nobody
  Everyone = Everyone
  Messages = {m1, m2}
  Addressings <- FirstForAlice
  Batches <- Ordered
  BatchSize = 1
  MaxTries = 3
  MaxFaults = 1
SPECIFICATION LiveSpec
INVARIANTS
  LiveIsRegistered
  ReceiptsAreTrue
  AnsweredIsStored
PROPERTIES
  ImplementsStoreForward
  QueuedIsDelivered
CHECK_DEADLOCK FALSE
