CONSTANTS
    r1 = r1
    r2 = r2
    r3 = r3
    Requests = {r1, r2, r3}
    NoJob = NoJob
    QueueSize = 1
    NumWorkers = 2
    Deployments <- FullMirroring
    Percentages = {}
    Bodies <- ThreeBodies
    DrainsRequests = TRUE
SPECIFICATION SafeSpec
SYMMETRY RequestSymmetry
INVARIANTS
    RequestLedger
    ShadowLedger
    EvaluationLedger
    TracesAreDivergences
    ResourcesOutliveWorkers
PROPERTY JobsReachARunningPool
CHECK_DEADLOCK FALSE
