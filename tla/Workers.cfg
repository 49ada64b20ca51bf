SPECIFICATION FairSpec
CONSTANTS
    j1 = j1
    j2 = j2
    j3 = j3
    Job = {j1, j2, j3}
    Plans <- SomePlans
    Awaits <- Reruns
    Page = Page
    PoolSize = 1
    Targets = {1, 3}
CHECK_DEADLOCK FALSE
INVARIANTS StreamCurrent PoolFits
PROPERTIES IsLifecycle WaitsEnd EndsShown
