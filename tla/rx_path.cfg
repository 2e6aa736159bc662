CONSTANTS
  FrameLens = {1, 3}
  MaxFrames = 3
  DaLen = 2
  Depth = 4
  InfoDepth = 1
  LenMod = 16
  MaxBurst = 2
  Bases = {0}
  Lasts = {0}
  ResetBase = 0
  LastBd = 1
  MaxReinit = 1
SPECIFICATION FairSpec
CHECK_DEADLOCK FALSE
INVARIANTS LengthTrue NoUnderflow
PROPERTIES InOrderOnce RxProgress
