SPECIFICATION SupervisionFairSpec
CONSTANTS
    FailuresBeforeRecovery = 2
    Attempts = 3
    Diagnostics = TRUE
    MayDie = TRUE
    MayFill = TRUE
    GlitchesOf <- AnyGlitch
    MaxPauses = 1
    Supervisors = {1, 2, 3}
    MaxInterruptions = 2
    JoinsTimeOut = TRUE
    Topologies = {"ready", "no ipv4"}
    MaxLog = 5
    DiagnosticJoinTimesOut = TRUE
    NoSignature = NoSignature
    MaxStarts = 2
    LegacyWaitsTimeOut = TRUE
    ServersRejectHosts = FALSE
    InterfaceLists <- SomeLists
    HideAfter = 2
    NoInterface = NoInterface
INVARIANTS
    RestartNeedsEvidence
    AudioFollowsSession
    ExitLeavesNothing
    DiagnosticsComplete
    LegacyViewTruthful
PROPERTIES
    DeadListenerReplaced
    AudioRepaired
    ViewsFreed
\* No more sessions are started than the bounds allow.
CHECK_DEADLOCK FALSE
