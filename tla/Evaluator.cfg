SPECIFICATION Spec
CONSTANTS
    Actions <- KindsOfAction
INVARIANTS
    MatchOrTrace
    SidesAreSymmetric
CHECK_DEADLOCK FALSE
