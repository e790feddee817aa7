CONSTANTS
    h1 = h1
    h2 = h2
    Handlers = {h1, h2}
    env = env
    custom = custom
    Configurations = {env, custom}
    MaxRuns = 2
    Servers = {TRUE, FALSE}
SPECIFICATION Spec
INVARIANTS
    ReadyIsComplete
    HandlersHoldOneRun
    RefusedAtOnce
PROPERTY ShutdownReleases
CHECK_DEADLOCK FALSE
