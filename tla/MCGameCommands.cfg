\* Two executions, two losses of the Redis key, one fault.
CONSTANTS
    Procs = {p1, p2}
    MaxAttempts = 2
    MaxTurn = 2
    MaxLosses = 2
    MaxFaults = 1
    None = None
SPECIFICATION Spec
INVARIANTS
    TypeOK
    LiveHoldsEveryCommit
    EventSequenceDense
    StatsAppliedOnce
    ResultIsComplete
PROPERTIES
    LiveOnlyAdvances
    EveryExecutionEnds
CHECK_DEADLOCK FALSE
