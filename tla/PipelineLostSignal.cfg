SPECIFICATION Spec
CONSTANTS
    a1 = a1
    a2 = a2
    Assets = {a1}
    Calls = {1}
    None = None
    Wanted <- AllSteps
    Scopes <- AllScopes
    RerunChoices <- NoReruns
    PoolSize <- OneWorkerEach
    Overlapping = {}
    MaxFailures = 0
    MaxCrashes = 0
CHECK_DEADLOCK FALSE
INVARIANT NotStranded
