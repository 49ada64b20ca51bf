SPECIFICATION FairSpec
CONSTANTS
    a1 = a1
    a2 = a2
    Assets = {a1}
    Calls = {1, 2, 3, 4, 5}
    None = None
    Wanted <- AllSteps
    Scopes <- AllScopes
    RerunChoices <- NoReruns
    PoolSize <- OneWorkerEach
    Overlapping = {}
    MaxFailures = 1
    MaxCrashes = 1
CHECK_DEADLOCK FALSE
PROPERTY Recovers
