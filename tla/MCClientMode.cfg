CONSTANTS
  Server = {a, b}
  Nobody = Nobody
  Admitted = TRUE
  MaxAttempts = 2
  MaxFaults = 2
SPECIFICATION Spec
PROPERTIES
  GoneLeavesTable
  LossIsRetried
  AdvertisedAgain
CHECK_DEADLOCK FALSE
