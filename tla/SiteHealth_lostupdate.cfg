SPECIFICATION Spec
CONSTANTS
  Run = {r1, r2}
  KeyFirst = {r1, r2}
  Nobody = nobody
  WINDOW_SIZE = 4
  TRIP_CONSECUTIVE_FAILURES = 2
  TRIP_FAILURE_RATE = 60
  TRIP_RATE_WINDOW = 3
  TRIP_RATE_MIN_OBS = 3
  BASE_COOLDOWN = 1
  MAX_COOLDOWN = 2
  MaxClock = 4
  MaxObservations = 2
  MaxCommitted = 4
CHECK_DEADLOCK FALSE
SYMMETRY Symmetry
INVARIANTS NoLostUpdate
