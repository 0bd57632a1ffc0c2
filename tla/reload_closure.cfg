CONSTANTS
  r1 = r1
  r2 = r2
  w1 = w1
  w2 = w2
  Boot = boot
  None = None
  Repos = {r1}
  Workers = {w1}
  Serves <- PerRepo
  Persistent = TRUE
  MaxAttempts = 2
  Files <- PairFile
  Listings <- FirstPage
  MaxMerges = 1
  MaxCrashes = 1
  MaxJobs = 1
SPECIFICATION Spec
CHECK_DEADLOCK FALSE
INVARIANT RunsItsAction
