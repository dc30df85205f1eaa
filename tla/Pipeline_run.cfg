SPECIFICATION Spec
CONSTANTS
  b = b
  v = v
  s1 = s1
  Handle = {b, v}
  Usernames <- OneName
  Variants <- OneVariant
  Candidates <- OneName
  Site = {s1}
  TaskEngine = {"signals"}
  Pivot = {"domain"}
  SHARDS = 3
  CONCURRENCY = 3
CHECK_DEADLOCK FALSE
INVARIANTS NoLateResult ReturnedRunIsComplete OnlyThreadsOutlive NothingHangs
PROPERTIES ImplementsGathering
