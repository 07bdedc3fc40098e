\* Deletion: two requests with one key beside two workers and two generations.
SPECIFICATION Spec
CONSTANTS
  Workers = {w1,w2}
  Requests = {r1, r2}
  Keys = {k1}
  MaxJobs = 2
  GiveUp = 1
  MaxCrashes = 0
  None = None
SYMMETRY Symmetry
CHECK_DEADLOCK FALSE
INVARIANTS IntakeInv DeletedIsGone CompletedIsDeleted
PROPERTIES DeletedStays
