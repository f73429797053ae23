\* Three players, the third a bot, and one airport.
CONSTANTS
    Players = {1, 2, 3}
    Humans = {1, 2}
    Tiles = {1}
    Board <- AirportBoard
    MaxHouses = 1
    Effects = {"collect_money", "pay_money", "go_to_jail", "move", "collect_from_each_player", "pay_each_player", "get_out_of_jail_free"}
    FreeCards = {card}
    StartCash = 1
    PassGoCash = 1
    JailFine = 1
    MaxJailTurns = 2
    MinBid = 1
    TaxAmount = 1
    CardAmount = 1
    HotelRepair = 3
    DiceSums = {1}
    TradeCash = {}
    MaxTurn = 5
    MaxCash = 2
    None = None
SPECIFICATION Spec
INVARIANT TimeoutAccepted
CHECK_DEADLOCK FALSE
