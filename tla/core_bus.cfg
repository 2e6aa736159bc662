CONSTANTS
  Tasks = {"registers", "receive", "transmit"}
  FrameLens = {2, 3}
  MaxFrames = 3
  MaxWrites = 1
  Vals = {3}
  PreLen = 2
  Depth = 5
SPECIFICATION FairSpec
INVARIANTS TypeOK FramesWhole SentWhole EventKept
PROPERTY EveryAccessEnds
