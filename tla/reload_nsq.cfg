CONSTANTS
  r1 = r1
  r2 = r2
  w1 = w1
  w2 = w2
  Boot = boot
  None = None
  Repos = {r1}
  Workers = {w1}
  Serves <- PerRepo
  Persistent = TRUE
  MaxAttempts = 2
  Files <- AllFiles
  Listings <- AnyPage
  MaxMerges = 2
  MaxCrashes = 1
  MaxJobs = 1
SPECIFICATION Spec
CHECK_DEADLOCK FALSE
INVARIANTS TypeOK OneScheduler StopMeetsRun NoOrphan QuietIsFresh
PROPERTIES ForwardOnly JobsStartCurrent RefreshEnds Converges RegistrySpec
