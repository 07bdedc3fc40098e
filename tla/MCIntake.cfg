\* Ingestion: two workers, a crash, two generations.
SPECIFICATION FairSpec
CONSTANTS
  Workers = {w1, w2}
  Requests = {}
  Keys = {}
  MaxJobs = 2
  GiveUp = 2
  MaxCrashes = 1
  None = None
CHECK_DEADLOCK FALSE
INVARIANTS NeverReposted ReadyIsIndexed StaleIsHidden
PROPERTIES IngestionEnds UnknownIsResolved
