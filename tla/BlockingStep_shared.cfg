CONSTANTS
    None = None
    Conns = {c1, c2}
    Tables = {t1, t2}
    Interruptible = {}
SPECIFICATION FairAppSpec
INVARIANTS  NoCircularWait
PROPERTIES BlockedStepWakes
