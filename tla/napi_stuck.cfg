CONSTANTS
  NumRx = 2
  NumTx = 2
  Budget = 2
  Cpus = {cpu0}
  AllocFails = FALSE
  MaxRx = 2
  MaxTx = 2
SPECIFICATION FairSpec
CHECK_DEADLOCK FALSE
PROPERTIES EveryFrameDelivered
