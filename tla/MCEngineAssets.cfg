\* A human and a bot with a set of two properties.
CONSTANTS
    Players = {1, 2}
    Humans = {1}
    Tiles = {1, 2}
    Board <- SetBoard
    MaxHouses = 1
    Effects = {"property_repairs"}
    FreeCards = {}
    StartCash = 6
    PassGoCash = 0
    JailFine = 1
    MaxJailTurns = 2
    MinBid = 2
    TaxAmount = 4
    CardAmount = 1
    HotelRepair = 3
    DiceSums = {1}
    TradeCash = {0, 1}
    MaxTurn = 2
    MaxCash = 7
    None = None
SPECIFICATION Spec
INVARIANTS
    NoMortgageBesideBuildings
PROPERTIES
    NoMoneyPump
    BotsPayWhatTheyCan
CHECK_DEADLOCK FALSE
