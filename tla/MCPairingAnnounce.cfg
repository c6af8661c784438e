SPECIFICATION Spec
CONSTANTS
    Req = {r1, r2}
    Lifetime = 2
    MaxFailures = 2
    Lockout = 2
    MinInterval = 1
    Token = {t1, t2, t3}
    NoToken = NoToken
    SaveFails = FALSE
    Overlap = FALSE
INVARIANT AnnouncedCurrent
