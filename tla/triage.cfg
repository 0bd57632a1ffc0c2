SPECIFICATION Spec
CONSTANTS
    janky = janky
    windows = windows
    Contexts = {janky, windows}
    Reports <- MCReports
    Setups <- MCSetups
    StatusPage = 2
    MaxAttempts = 2
    MaxStatuses = 3
    MaxPushes = 1
    MaxEvents = 2
    MaxErrors = 1
INVARIANTS TypeOK
PROPERTIES RebuildIsWhole CleanIsJustified TriggerServed StaleIsCleaned
CHECK_DEADLOCK FALSE
