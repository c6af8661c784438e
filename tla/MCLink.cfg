SPECIFICATION FairSpec
CONSTANTS
    Client = {c1, c2}
    None = None
    Everyone = Everyone
    Capacity = 2
    MaxAsked = 2
    Prompt = TRUE
INVARIANTS TypeOK AttachedIsClient NoDeafClient
PROPERTIES Answered
