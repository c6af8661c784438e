SPECIFICATION Spec
CONSTANTS
    Ident = {i1}
    None = None
    System = System
    Programme = Programme
    Tone = Tone
    Nothing = Nothing
    MaxQueue = 1
    OnePut = TRUE
    Overlap = FALSE
PROPERTY SoundLeavesProgramme
