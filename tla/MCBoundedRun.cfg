CONSTANTS
    Scenarios <- MCScenarios
    MaxChunks = 2
    None = None
SPECIFICATION FairSpec
INVARIANT PassIsEarned
PROPERTY AlwaysResolves
CHECK_DEADLOCK FALSE
