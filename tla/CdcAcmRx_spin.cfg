CONSTANTS
  MPS = 2
  NKeys = 2
  MaxTeardowns = 1
SPECIFICATION Spec
INVARIANT IrqLoopEnds
CHECK_DEADLOCK FALSE
