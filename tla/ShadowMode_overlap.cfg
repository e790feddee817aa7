CONSTANTS
    r1 = r1
    r2 = r2
    Requests = {r1, r2}
    NoJob = NoJob
    QueueSize = 1
    NumWorkers = 1
    Deployments <- AllOrSome
    Percentages = {0, 100}
    Bodies <- BodiesAndNaN
    DrainsRequests = FALSE
SPECIFICATION Spec
INVARIANT NoOrphanWait
PROPERTIES
    FutureSettlesOnce
    ShadowRunsEnd
    ShutdownCompletes
    ImplementsExecutor
    ImplementsProxy
CHECK_DEADLOCK FALSE
