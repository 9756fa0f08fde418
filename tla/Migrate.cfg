CONSTANTS
    Procs <- MCProcs
    AppID <- MCAppID
    Last <- MCLast
    DisableFK = {0}
    Nobody = Nobody
    MaxCalls = 3
SPECIFICATION FairSpec
INVARIANTS
    AppliedOnce
    AppsDoNotMix
    RepeatedWithLast
    SuccessIsCurrent
PROPERTIES
    ReturnsInAutocommit
    CallReturns
