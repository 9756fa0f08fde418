CONSTANTS
    Procs <- MCProcs
    AppID <- MCAppID
    Last <- MCLast
    DisableFK = {0}
    Nobody = Nobody
    MaxCalls = 2
SPECIFICATION Spec
INVARIANTS
    ForeignKeysRestored
