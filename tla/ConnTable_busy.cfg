CONSTANTS
    Openers = {g1, g2}
    Addrs = {a1}
    MaxOpens = 1
    NoConn = NoConn
SPECIFICATION ConnTableSpec
PROPERTY BlocksOnBusy
CHECK_DEADLOCK FALSE
