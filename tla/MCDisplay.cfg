SPECIFICATION FairSpec
CONSTANTS
    Connector = {1, 2}
    Configs <- Sent
    Machines <- Boxes
    NoConfig = NoConfig
    Blinks = FALSE
    Early = FALSE
INVARIANTS TypeOK Controllable SignalsAreHandled ReportedIsShown StaleIsTold
PROPERTIES PowerCycle UnpairedShows
