CONSTANTS
    Clients = {g1, g2}
    Closers = {k1, k2}
    Opener = opener
    Conns = {c1, c2}
SPECIFICATION MigrationPoolFairSpec
INVARIANTS
    UsedAfterMigration
    NothingLeftOpen
PROPERTIES
    CloseTerminates
    KeepsTrying
