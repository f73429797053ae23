SPECIFICATION FairSpecFromStart
CONSTANTS
    Users = {u1, u2}
    Rooms = {r1}
    Requests = {q1, q2}
    Worker = worker
    None = none
    Bot = bot
    MaxSeats = 3
    MinRanked = 3
    MaxSpectators = 1
    Offered = {"create", "leave", "spectate", "start"}
    MaxRequests = 3
    MaxFaults = 1
PROPERTIES
    WaitingRoomsEnd
    AbandonedGamesEnd
CHECK_DEADLOCK FALSE
