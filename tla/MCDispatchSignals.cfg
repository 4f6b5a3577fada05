\* A client that leaves, or a response that cannot be serialized.
SPECIFICATION Spec
CONSTANT
    Requests = {r1}
PROPERTY SignalsPaired
CHECK_DEADLOCK FALSE
