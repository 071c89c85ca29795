SPECIFICATION FairSpec
CONSTANTS
    Clients = {c1}
    MaxClients = 1
    Handler = "socks"
    Errors = {}
    PeersStall = TRUE
    WaitForSwallows = FALSE
PROPERTIES
    StopCompletes
\* Peers need not do anything, and a stopped server stays stopped.
CHECK_DEADLOCK FALSE
