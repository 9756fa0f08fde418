CONSTANTS
    Clients = {g1, g2}
    PoolSize = 1
    HasPrepare = TRUE
    MaxTakes = 3
SPECIFICATION FairSpec
PROPERTIES
    CloseTerminates
    TakeUnblocks
