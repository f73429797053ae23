SPECIFICATION FairSpec
CONSTANTS
    Users = {u1, u2}
    Workers = {w1}
    None = None
    MaxNotes = 2
    MaxAttempts = 2
    RecoveryBatch = 1
    MaxFaults = 1
    Procs = {p1, p2}
    Offered = {"send", "accept", "reject", "cancel", "remove", "invite", "list", "leaderboard"}
    MaxRequests = 2
CHECK_DEADLOCK FALSE
INVARIANTS
    TypeOK
    OneFriendshipPerPair
    AcceptedAnnouncedOnce
    PageCurrent
PROPERTIES
    DeliveredOrStuck
