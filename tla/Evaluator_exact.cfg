SPECIFICATION Spec
CONSTANTS
    Actions <- KindsOfAction
INVARIANT MatchesAreExact
CHECK_DEADLOCK FALSE
