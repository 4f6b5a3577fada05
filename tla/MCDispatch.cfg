\* Two requests of two connections share the thread.
SPECIFICATION Spec
CONSTANT
    Requests = {r1, r2}
INVARIANTS
    TypeOK
    ConnectionsNotShared
    AnsweredIsTornDown
    TeardownAtMostOnce
PROPERTY DispatchEnds
CHECK_DEADLOCK FALSE
