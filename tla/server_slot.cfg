SPECIFICATION Spec
CONSTANTS
    Clients = {c1, c2}
    MaxClients = 2
    Handler = "socks"
    Errors = {"reset", "os"}
    PeersStall = FALSE
    WaitForSwallows = FALSE
INVARIANTS
    FinishedClientsHoldNoSlot
\* Peers need not do anything, and a stopped server stays stopped.
CHECK_DEADLOCK FALSE
