SPECIFICATION Spec
CONSTANTS
    a1 = a1
    a2 = a2
    Assets = {a1, a2}
    Calls = {1, 2, 3}
    None = None
    Wanted <- AllSteps
    Scopes <- AllScopes
    RerunChoices <- TagRerun
    PoolSize <- OneWorkerEach
    Overlapping = {a1}
    MaxFailures = 1
    MaxCrashes = 1
CONSTRAINT OnePhoto
CHECK_DEADLOCK FALSE
INVARIANTS TypeOK FaceLast PrereqsOver
PROPERTY ScheduledOnce
