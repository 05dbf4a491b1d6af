SPECIFICATION FairSpec
CONSTANTS
    Requests = {r1, r2, r3}
    None = None
    MaxSessions = 2
    PoolSize = 2
    Boots = 1
INVARIANTS
    UsableIsAudited
    RevokedLocally
    DeletedOnce
PROPERTIES
    RowsAreGranted
    RequestSettles
CHECK_DEADLOCK FALSE
