CONSTANTS
    r1 = r1
    r2 = r2
    Requests = {r1, r2}
    NoJob = NoJob
    QueueSize = 1
    NumWorkers = 1
    Deployments <- Sampling
    Percentages = {}
    Bodies <- BodiesAndNaN
    DrainsRequests = TRUE
SPECIFICATION SafeSpec
INVARIANT EveryCallIsCounted
CHECK_DEADLOCK FALSE
