\* Two workers, one of which may die, and two signals that may nest.
SPECIFICATION Spec
CONSTANTS
    N = 2
    MaxDeaths = 2
    MaxSignals = 2
INVARIANTS
    TypeOK
    NoOrphans
    AtMostN
PROPERTIES
    KillOnlyAfterTerm
    KeepsNWorkers
    ShutdownCompletes
CHECK_DEADLOCK FALSE
