SPECIFICATION Spec
CONSTANTS
    Users = {u1, u2}
    Rooms = {r1, r2}
    Requests = {q1, q2}
    Worker = worker
    None = none
    Bot = bot
    MaxSeats = 2
    MinRanked = 2
    MaxSpectators = 0
    Offered = {"create", "join", "leave", "start"}
    MaxRequests = 4
    MaxFaults = 1
SYMMETRY Symmetry
INVARIANTS
    TypeOK
    UserInOneRoom
    SeatedArePlaying
    RoomAndGameAgree
    LeaversForfeit
PROPERTIES
    ImplementsLifecycle
CHECK_DEADLOCK FALSE
