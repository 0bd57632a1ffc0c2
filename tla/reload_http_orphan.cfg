CONSTANTS
  r1 = r1
  r2 = r2
  w1 = w1
  w2 = w2
  Boot = boot
  None = None
  Repos = {r1}
  Workers = {w1, w2}
  Serves <- AnyRepo
  Persistent = FALSE
  MaxAttempts = 1
  Files <- TwoFiles
  Listings <- FirstPage
  MaxMerges = 2
  MaxCrashes = 0
  MaxJobs = 0
SPECIFICATION Spec
CHECK_DEADLOCK FALSE
INVARIANT OneScheduler
