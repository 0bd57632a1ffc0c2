SPECIFICATION FairSpec
CONSTANTS
    StartingPoints <- Starts
    Words = {"windows"}
    MaxAttempts = 4
    MaxEvents = 2
    MaxErrors = 1
    MaxStops = 1
    MaxJobs = 1
    MaxVersion = 2
INVARIANTS TypeOK NotBackdated SkipIsSound AssignmentsExplained
PROPERTIES EventsEnd StopEnds SoundEventsServed DeliverySpec
CHECK_DEADLOCK FALSE
