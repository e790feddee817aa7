CONSTANTS
    r1 = r1
    r2 = r2
    r3 = r3
    Requests = {r1, r2, r3}
    NoJob = NoJob
    NoId = NoId
    QueueSize = 1
    NumWorkers = 1
    sent = sent
    ClientIds = {sent}
SPECIFICATION Spec
INVARIANTS
    LogsAreCorrelated
    ResponsesAreCorrelated
    ContextIsRestored
SYMMETRY RequestSymmetry
