SPECIFICATION Spec
CONSTANTS
    a1 = a1
    a2 = a2
    Assets = {a1}
    Calls = {1, 2}
    None = None
    Wanted <- AllSteps
    Scopes <- AllScopes
    RerunChoices <- NoReruns
    PoolSize <- OneWorkerEach
    Overlapping = {a1}
    MaxFailures = 0
    MaxCrashes = 0
CHECK_DEADLOCK FALSE
PROPERTY FacesGated
