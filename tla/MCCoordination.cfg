CONSTANTS
  server1 = server1
  server2 = server2
  flood = flood
  fire = fire
  near = near
  far = far
  phone = phone
  tablet = tablet
  Server = {server1, server2}
  Key = {flood, fire}
  Responder = {near, far}
  Distance <- Distances
  Weight = 5
  Client = {phone, tablet}
  NoClient = NoClient
  None = None
  Batch <- Uploads
  MaxClock = 2
  MaxRequests = 4
  MaxFaults = 1
SPECIFICATION Spec
INVARIANTS
  WorkloadCounts
  StoredIsAnnounced
PROPERTIES
  NeverOlder
  RepeatSucceeds
CHECK_DEADLOCK FALSE
