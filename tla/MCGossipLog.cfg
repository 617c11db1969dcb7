CONSTANTS
  Msg = {1, 2, 3, 4}
  Own = {2, 4}
  Graphs <- AcyclicGraphs
  ChanCap = 1
SPECIFICATION FairSpec
INVARIANTS
  NothingReadyIsPending
  HeadsCoverTips
  ReadInCausalOrder
PROPERTIES
  CompleteIsApplied
  ImplementsDelivery
CHECK_DEADLOCK FALSE
