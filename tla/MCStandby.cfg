SPECIFICATION FairSpec
CONSTANTS
    Ident = {i1, i2}
    None = None
    System = System
    Programme = Programme
    Tone = Tone
    Nothing = Nothing
    MaxQueue = 1
    OnePut = TRUE
    Overlap = FALSE
INVARIANTS TypeOK OnStandbyTruth ProgrammeSafe NewIdentSwitched IdentKept
PROPERTIES SoundGivesBack AwayReturns
