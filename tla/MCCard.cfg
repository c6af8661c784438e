SPECIFICATION Spec
CONSTANTS
    Frame = 1
    Idle = 2
    PairingRedraw = 3
    Intro = 2
    Grace = 2
    ToastFor = 5
    ToastFade = 1
    Retry = 2
    TestFor = 3
    ShowFor = 3
    MinHold = 1
    MaxHold = 2
    Draw = 1
    Stay = 2
    Exit = 1
    MaxEvents = 4
    Quick = TRUE
INVARIANTS TypeOK ShownIsOnScreen RefusalIsTold ToastOnce ScenesEnd KeepsOffProgramme HoldEnds
