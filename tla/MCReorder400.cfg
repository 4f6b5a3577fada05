\* A malformed request behind one that is still being served.
SPECIFICATION SpecProtocol
CONSTANTS
    Conns = {c1}
    MaxRequests <- MCMaxRequests
    MaxBurst = 2
INVARIANT ResponsesNeverReorder
CHECK_DEADLOCK FALSE
