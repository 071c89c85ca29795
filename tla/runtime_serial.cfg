SPECIFICATION FairSpec
CONSTANTS
    Controllers = {w1}
    Selectors = {}
    Selections = {auto}
    MaxSessions = 2
    MaxRestarts = 1
    InitialDelay = 1
    Backoff = 2
    MaxDelay = 1
    EnableKeepalive = TRUE
INVARIANTS
    CallsTruthful
PROPERTIES
    ImplementsLease
    RuntimeFollowsRequests
