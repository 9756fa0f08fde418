CONSTANTS
    Openers = {g1, g2}
    Addrs = {a1}
    MaxOpens = 2
    NoConn = NoConn
    Users = {g1, g2}
    IdBits = 2
    MaxObjs = 3
    Kinds = {"func", "factory", "agg", "aux", "coll", "module", "vtab", "cursor",
             "reader", "writer", "apply"}
    Half = 4
    DefaultStop = 2
    Null = Null
    Handles = {x1, x2}
SPECIFICATION BoundarySpec
INVARIANTS
    NeverAnothersConn
    
    
    
    NothingLeaks
CHECK_DEADLOCK FALSE
