CONSTANTS
  NumRx = 2
  NumTx = 1
  Budget = 2
  Cpus = {cpu0, cpu1}
  AllocFails = TRUE
  MaxRx = 2
  MaxTx = 2
SYMMETRY CpuSymmetry
SPECIFICATION Spec
CHECK_DEADLOCK FALSE
INVARIANTS TransmitAwake
PROPERTIES InOrderOnce
