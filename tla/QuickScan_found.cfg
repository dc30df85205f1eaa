SPECIFICATION QuickSpec
CONSTANTS
  Names <- OneName
  Sites = {s1}
  Postgres = FALSE
INVARIANT FoundIsStored
CHECK_DEADLOCK FALSE
