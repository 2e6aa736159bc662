CONSTANTS
  FrameLens = {3}
  MaxFrames = 3
  DaLen = 2
  Depth = 8
  InfoDepth = 2
  LenMod = 16
  MaxBurst = 2
  Bases = {0, 1}
  Lasts = {0, 1}
  ResetBase = 0
  LastBd = 1
  MaxReinit = 2
SPECIFICATION Spec
CHECK_DEADLOCK FALSE
INVARIANTS TypeOK Aligned  
 
