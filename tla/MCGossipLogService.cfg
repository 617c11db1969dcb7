CONSTANTS
  Msg = {1, 2, 3, 4, 5}
  Own = {2, 4}
  Graphs <- AcyclicGraphs
SPECIFICATION FairSpec
INVARIANTS
  NothingReadyIsPending
  WaitedForIsReported
PROPERTIES
  OwnCoversLog
  ImplementsDelivery
CHECK_DEADLOCK FALSE
