SPECIFICATION PartsSpec
CONSTANTS
  Query = {k1, k2}  Caller = {c1, c2}  TTL = 2  MaxSize = 1  Interval = 2  MaxTime = 3
  Url = {a, b}  Viewer = {v1, v2}  Gate = 2  MaxEntries = 2  MaxBytes = 3  ImageTTL = 1
  Size = {1, 2, 4}  LastTime = 2
  Host = {g, h}  Fetcher = {f1, f2, f3}
  Names <- TwoNames  Sites = {s1, s2}  Postgres = FALSE
  Process = {server, import}
  WmnSite = {p1, p2, p3, p4}  Denied = {p4}  HighValue = {p1, p2, p4}  Slots = 2  Budget = 1
  w1 = w1  w2 = w2  h1 = h1  h2 = h2  s1 = s1  s2 = s2  RETRY_CAP = 2
  Worker = {w1, w2}  Shard = {w1, w2}  Handle = {h1, h2}  Site = {s1, s2}
  Plan <- MixedPlan  SiteData <- MixedSites
  Pool <- People  Rows = 4  MaxAvatars = 3
  Catalogue <- Listing  Wanted <- HighValueSites  Hosts = {"g", "n", "s", "api"}  TopRank = 2
  Asks <- Sourced  Refused = {"p4"}
INVARIANTS AnswersAreTimely CounterIsWeight CookiesStayHome ResponseIsWhole SchemaIsWhole StealthIsBounded RetriedOnce RetriesAddUp ReturnedRunFlushesAll ClustersAreComponents BondsNeedEvidence JudgementFits PlanIsHonest NoIsAnAnswer
PROPERTIES KeptIsNotFetched
CHECK_DEADLOCK FALSE
