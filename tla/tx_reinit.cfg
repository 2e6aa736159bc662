CONSTANTS
  FrameLens = {1, 3}
  MaxFrames = 3
  PreLen = 2
  Depth = 5
  LenMod = 8
  MaxBurst = 2
  RingSizes = {1, 2}
  ResetSize = 2
  MaxBds = 2
  MaxReinit = 2
  Lag = 2
SPECIFICATION Spec
CHECK_DEADLOCK FALSE
INVARIANTS NoUnderrun FrameBoundary
