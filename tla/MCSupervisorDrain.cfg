SPECIFICATION Spec
CONSTANTS
    Proc = {p1, p2}
    None = None
    Caller = {c1}
    Detached = {}
    Main = Main
    BackoffInitial = 1
    BackoffMax = 5
    HealthyReset = 6
    SlowDeath = FALSE
INVARIANT NoOrphanAtExit
CHECK_DEADLOCK FALSE
