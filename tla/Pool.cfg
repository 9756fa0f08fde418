CONSTANTS
    Clients = {g1, g2}
    PoolSize = 2
    HasPrepare = TRUE
    MaxTakes = 2
SPECIFICATION Spec
INVARIANTS
    OneOwner
    IdleIsClean
    
    ContextsReleased
PROPERTIES
    ImplementsLease
