CONSTANTS
    MaxRetries = 2
    Base = 2
    Cap = 5
    RetryAfters <- Headers
    fast = fast
    large = large
    Models = {fast, large}
    Absent = Absent
SPECIFICATION ForwardSpec
INVARIANTS
    CallIsBounded
    RetryAfterIsAFloor
    OnlyTransientIsRetried
    ErrorIsTheLastAttempts
    EachUpstreamItsOwnDefault
PROPERTY CallEnds
CHECK_DEADLOCK FALSE
