\* Two executions, one loss of the Redis key.
CONSTANTS
    Procs = {p1, p2}
    MaxAttempts = 2
    MaxTurn = 2
    MaxLosses = 1
    MaxFaults = 0
    None = None
SPECIFICATION Spec
PROPERTY RestoreOnlyWhenMissing
CHECK_DEADLOCK FALSE
