\* Two clients, one of which may pipeline.
SPECIFICATION FairSpecServer
CONSTANTS
    c1 = c1
    Conns = {c1, c2}
    MaxRequests <- MCMaxRequests
    MaxBurst = 1
INVARIANT DrainedBeforeHooks
PROPERTIES
    ShutdownCompletes
    NoTaskAfterExit
CHECK_DEADLOCK FALSE
