SPECIFICATION Spec
CONSTANTS
    StartingPoints <- StartsUnfiltered
    Words = {"windows"}
    MaxAttempts = 4
    MaxEvents = 2
    MaxErrors = 0
    MaxStops = 0
    MaxJobs = 1
    MaxVersion = 2
INVARIANT OnlyAccepted
CHECK_DEADLOCK FALSE
