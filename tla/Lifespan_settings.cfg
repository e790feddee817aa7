CONSTANTS
    h1 = h1
    h2 = h2
    Handlers = {h1, h2}
    env = env
    custom = custom
    Configurations = {env, custom}
    MaxRuns = 1
    Servers = {TRUE}
SPECIFICATION SafeSpec
INVARIANT DependenciesReadAppSettings
CHECK_DEADLOCK FALSE
