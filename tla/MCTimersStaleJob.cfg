\* The healthy system: no fault.
CONSTANTS
    Humans = {1}
    Bots = {2}
    Workers = {w}
    Watchdog = dog
    Landings = {"awaiting_property_decision", "awaiting_turn_end", "awaiting_debt_resolution"}
    MaxMissed = 3
    MaxDoubles = 0
    Attempts = 2
    MaxTurn = 1
    MaxExtra = 1
    MaxBacklog = 0
    MaxFaults = 0
    None = None
SPECIFICATION Spec
PROPERTY StaleTimeoutHarmless
CHECK_DEADLOCK FALSE
