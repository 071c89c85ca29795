SPECIFICATION Spec
CONSTANTS
    Controllers = {w1}
    Selectors = {u1}
    Selections = {auto, pdp}
    MaxSessions = 1
    MaxRestarts = 3
    InitialDelay = 1
    Backoff = 2
    MaxDelay = 3
    EnableKeepalive = FALSE
INVARIANTS
    BackoffMatchesFailures
    SelectionChangeNotLost
