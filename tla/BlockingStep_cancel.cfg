CONSTANTS
    None = None
    Conns = {c1, c2}
    Tables = {t1}
    Interruptible = {c1}
SPECIFICATION FairSpec
PROPERTY InterruptCancelsBlockedStep
