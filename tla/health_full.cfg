SPECIFICATION Spec
CONSTANTS
    FailuresBeforeRecovery = 2
    Attempts = 3
    Diagnostics = FALSE
    MayDie = FALSE
    MayFill = TRUE
    GlitchesOf = {{"SOCKS", "HTTP", "WPAD"}}
    MaxPauses = 2
INVARIANTS
    LiveListenersKept
