SPECIFICATION Spec
CONSTANTS
    Clients = {c1, c2, c3}
    MaxClients = 2
    Handler = "socks"
    Errors = {"reset"}
    PeersStall = TRUE
    WaitForSwallows = TRUE
SYMMETRY ClientSymmetry
INVARIANTS
    SlotsSound
\* Peers need not do anything, and a stopped server stays stopped.
CHECK_DEADLOCK FALSE
