CONSTANTS
    j1 = j1
    j2 = j2
    j3 = j3
    j4 = j4
    Jobs = {j1, j2, j3, j4}
    NoJob = NoJob
    QueueSize = 2
    NumWorkers = 2
    CancellableJobs = {j1}
SPECIFICATION Spec
INVARIANTS
    BoundedWork
    ExactlyOnePlace
    TaskDoneBalanced
    PoolIntact
    OnlyLiveWorkersHoldJobs
PROPERTIES
    AcceptedJobsEnd
    StopCompletes
    ImplementsPool
