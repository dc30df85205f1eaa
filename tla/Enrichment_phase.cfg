SPECIFICATION FairSpec
CONSTANTS
  r1 = r1
  r2 = r2
  r3 = r3
  r4 = r4
  r5 = r5
  r6 = r6
  h1 = h1
  Row = {r1, r2, r3, r4, r5, r6}
  Host = {h1}
  Order <- Six
  UrlOf <- OwnUrls
  HostOf <- OneHost
  Kind <- Mixed
  HasControl = {r3, r4}
  Known = {}
  Answer = {"shell", "gone", "limited", "walled"}
  TierAnswer = {"gone", "limited", "none"}
  RetryAfter = {2}
  DEFAULT_BACKOFF = 1
  Stealth = TRUE
  CONCURRENCY = 2
  STEALTH_BUDGET = 1
  VERIFY_BUDGET = 4
  CONTROL_MAX_ATTEMPTS = 2
CHECK_DEADLOCK FALSE
INVARIANTS OneFetchPerHost BoundsKept
PROPERTIES NoNewConversation EveryTargetJudged
