SPECIFICATION FairSpec
CONSTANTS
    Proc = {p1, p2}
    None = None
    Caller = {c1}
    Detached = {}
    Main = Main
    BackoffInitial = 1
    BackoffMax = 5
    HealthyReset = 6
    SlowDeath = FALSE
INVARIANTS TypeOK ExclusiveMpv StopHolds OrderlyExit
PROPERTIES Throttled StopReturns Recovers ImplementsService
\* The agent may exit.
CHECK_DEADLOCK FALSE
