\* Two workers are enough: the one that is joined misses its notification.
SPECIFICATION FairSpec
CONSTANTS
  Jobs = {j1}
  NoJob = NoJob
  NumWorkers = 2
PROPERTIES
  FinishReturns
CHECK_DEADLOCK FALSE
