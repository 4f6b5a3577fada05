\* One client that pipelines: three requests in buffers of up to two.
SPECIFICATION FairSpecProtocol
CONSTANTS
    Conns = {c1}
    MaxRequests <- MCMaxRequests
    MaxBurst = 2
INVARIANTS
    TypeOK
    ResponsesInOrder
    CloseIsLast
    InflightIsBusy
    ArrivedBeforeDrainServed
PROPERTIES
    ImplementsOrderedResponses
    RequestsServed
    DrainEndsWorkers
    LostLeavesNoTask
CHECK_DEADLOCK FALSE
