CONSTANTS
  PreLen = 2
  PhyBits = 2
  RegBits = 1
  DataBits = 2
  CntMod = 16
  PhyAddr <- PhyZero
  UsedPhys <- FarPhys
  MaxOps = 3
SPECIFICATION FairSpec
CHECK_DEADLOCK FALSE
INVARIANTS TypeOK NoContention
PROPERTIES ImplementsPhyPort OperationEnds
