\* Two requests with two keys, one worker and one generation.
SPECIFICATION PolledSpec
CONSTANTS
  Workers = {w1}
  Requests = {r1, r2}
  Keys = {k1, k2}
  MaxJobs = 1
  GiveUp = 1
  MaxCrashes = 0
  None = None
CHECK_DEADLOCK FALSE
PROPERTIES DeletingEnds
