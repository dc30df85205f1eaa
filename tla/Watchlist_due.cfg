SPECIFICATION FairSpec
CONSTANTS
  MaxWatches = 4
  Key = {}
  Client = {}
  Idle = idle
  Interval = 2
  MAX_WATCHES_PER_TICK = 2
  MaxLag = 1
  MaxFailures = 1
  MaxWritten = 1
PROPERTIES IntervalKept DueIsScanned
