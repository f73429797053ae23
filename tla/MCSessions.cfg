SPECIFICATION Spec
CONSTANTS
    Procs = {p1, p2}
    None = None
    MaxActive = 1
    MaxSessions = 2
    MaxRequests = 4
SYMMETRY Symmetry
CHECK_DEADLOCK FALSE
INVARIANTS
    TypeOK
    SessionLimit
    TokenSpentOnce
    TokensDieWithAccount
PROPERTIES
    RevokedStaysRevoked
