SPECIFICATION FairSpec
CONSTANTS
    Connector = {1, 2}
    Configs <- Sent
    Machines <- OverSsh
    NoConfig = NoConfig
    Blinks = FALSE
    Early = FALSE
INVARIANT SignalsAreHandled
