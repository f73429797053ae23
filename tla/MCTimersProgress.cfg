\* A turn of the human and one of the bot, with an auction and a fault in either.
CONSTANTS
    Humans = {1}
    Bots = {2}
    Workers = {w}
    Watchdog = dog
    Landings = {"awaiting_property_decision"}
    MaxMissed = 3
    MaxDoubles = 0
    Attempts = 1
    MaxTurn = 2
    MaxExtra = 1
    MaxBacklog = 0
    MaxFaults = 1
    None = None
SPECIFICATION Spec
PROPERTIES
    TurnAdvances
    ExpiryFinishes
CHECK_DEADLOCK FALSE
