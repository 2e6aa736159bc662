CONSTANTS
  PHY_RST_CNT = 9
  Half = 16
  Rate = 2
  MaxResets = 2
  MaxWords = 2
SPECIFICATION FairSpec
INVARIANTS TypeOK FifosAligned
PROPERTIES NothingSwallowed EventuallyUp
