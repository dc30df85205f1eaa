SPECIFICATION Spec
CONSTANTS
  MaxWatches = 1
  Key = {k1}
  Client = {}
  Idle = idle
  Interval = 1
  MAX_WATCHES_PER_TICK = 1
  MaxLag = 1
  MaxFailures = 0
  MaxWritten = 4
INVARIANT GoneIsReported
