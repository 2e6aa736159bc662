CONSTANTS
  ETH_NBYTES = 3
  ETH_MINIMUM_NBYTES = 2
  Files <- MCFiles
  Junk = 9
  MaxLosses = 3
  MaxEarly = 3
SPECIFICATION FairSpec
INVARIANT CleanMeansIntact
PROPERTY TransferEnds
CHECK_DEADLOCK FALSE
