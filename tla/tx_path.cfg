CONSTANTS
  FrameLens = {1, 3}
  MaxFrames = 4
  PreLen = 2
  Depth = 5
  LenMod = 8
  MaxBurst = 2
  RingSizes = {2}
  ResetSize = 2
  MaxBds = 2
  MaxReinit = 1
  Lag = 2
SPECIFICATION FairSpec
CHECK_DEADLOCK FALSE
INVARIANTS TypeOK
PROPERTIES InOrderOnce BufferKept StatusOfOwnFrame AllSent
