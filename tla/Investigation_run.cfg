\* Two cases competing for one slot, with crashes, restarts and deletions;
\* the theorems of Investigation_proofs cover any number of both.
CONSTANTS
  Case = {c1, c2}
  MaxConcurrent = 1
SPECIFICATION FairSpec
INVARIANTS AtMostOneRun SlotsRespected VerdictIsStored HistoryFollowsTheRun
PROPERTIES ImplementsLifecycle StreamsEnd ClaimedCasesSettle
CHECK_DEADLOCK FALSE
