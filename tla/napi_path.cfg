CONSTANTS
  NumRx = 1
  NumTx = 2
  Budget = 3
  Cpus = {cpu0}
  AllocFails = FALSE
  MaxRx = 3
  MaxTx = 3
SPECIFICATION FairSpec
CHECK_DEADLOCK FALSE
INVARIANTS TypeOK SentIsSent NoLostWakeup
PROPERTIES EveryFrameDelivered TxProgress
