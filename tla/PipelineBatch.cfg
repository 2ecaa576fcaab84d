CONSTANTS
  Worker = {w1, w2, w3}
  FetchQueueDepth = 2
  Available = 12
  MayFail = {2}
  CanBreak = TRUE
SPECIFICATION FairSpec
INVARIANTS TypeOK InOrder OnePlace
PROPERTIES RefinesDelivery Completes JoinsWhenRestFits
CHECK_DEADLOCK FALSE
