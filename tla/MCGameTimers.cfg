\* A human and a bot, one turn with doubles, a retry and a fault.
CONSTANTS
    Humans = {1}
    Bots = {2}
    Workers = {w}
    Watchdog = dog
    Landings = {"awaiting_property_decision", "awaiting_turn_end", "awaiting_debt_resolution"}
    MaxMissed = 3
    MaxDoubles = 1
    Attempts = 2
    MaxTurn = 1
    MaxExtra = 1
    MaxBacklog = 0
    MaxFaults = 1
    None = None
SPECIFICATION Spec
INVARIANTS
    TypeOK
    TimerNotSpent
    MissedOncePerTurn
CHECK_DEADLOCK FALSE
