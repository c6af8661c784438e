SPECIFICATION Spec
CONSTANTS
    Req = {r1, r2, r3}
    Lifetime = 2
    MaxFailures = 3
    Lockout = 4
    MinInterval = 1
    Token = {t1, t2, t3}
    NoToken = NoToken
    SaveFails = FALSE
    Overlap = FALSE
SYMMETRY Alike
INVARIANTS TypeOK GrantStands RevokedStays NothingLeftBehind
PROPERTIES GuessLimit ImplementsService
