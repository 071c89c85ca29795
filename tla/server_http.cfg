SPECIFICATION FairSpec
CONSTANTS
    Clients = {c1, c2}
    MaxClients = 1
    Handler = "http"
    Errors = {"reset"}
    PeersStall = FALSE
    WaitForSwallows = FALSE
INVARIANTS
    BothEndsClosed
PROPERTIES
    StopCompletes
\* Peers need not do anything, and a stopped server stays stopped.
CHECK_DEADLOCK FALSE
