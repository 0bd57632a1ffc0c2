CONSTANTS
  r1 = r1
  r2 = r2
  w1 = w1
  w2 = w2
  Boot = boot
  None = None
  Repos = {r1, r2}
  Workers = {w1, w2}
  Serves <- PerRepo
  Persistent = TRUE
  MaxAttempts = 2
  Files <- TwoFiles
  Listings <- AnyPage
  MaxMerges = 1
  MaxCrashes = 1
  MaxJobs = 0
SPECIFICATION Spec
CHECK_DEADLOCK FALSE
INVARIANTS OneScheduler QuietIsFresh
