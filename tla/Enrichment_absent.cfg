SPECIFICATION Spec
CONSTANTS
  r1 = r1
  r2 = r2
  r3 = r3
  r4 = r4
  r5 = r5
  r6 = r6
  h1 = h1
  Row = {r1, r2, r3}
  Host = {h1}
  Order <- Three
  UrlOf <- OwnUrls
  HostOf <- OneHost
  Kind <- Adapters
  HasControl = {}
  Known = {}
  Answer = {"page", "gone", "limited"}
  TierAnswer = {"page"}
  RetryAfter = {1}
  DEFAULT_BACKOFF = 1
  Stealth = TRUE
  CONCURRENCY = 2
  STEALTH_BUDGET = 1
  VERIFY_BUDGET = 3
  CONTROL_MAX_ATTEMPTS = 2
CHECK_DEADLOCK FALSE
INVARIANT AbsentWasTold
