SPECIFICATION Spec
CONSTANTS
    Proc = {p1, p2, p3}
    None = None
    Caller = {c1, c2}
    Detached = {}
    Main = Main
    BackoffInitial = 1
    BackoffMax = 5
    HealthyReset = 6
    SlowDeath = FALSE
INVARIANT ExclusiveMpv
CHECK_DEADLOCK FALSE
