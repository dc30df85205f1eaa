SPECIFICATION Spec
CONSTANTS
  MaxWatches = 1
  Key = {k1, k2}
  Client = {c1}
  Idle = idle
  Interval = 1
  MAX_WATCHES_PER_TICK = 1
  MaxLag = 1
  MaxFailures = 1
  MaxWritten = 2
SYMMETRY Symmetry
INVARIANTS GoneIsLost NewIsReported EditsStick
