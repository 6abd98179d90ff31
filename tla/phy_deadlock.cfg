SPECIFICATION Spec
CONSTANTS
    FlagSets <- Boards
    Speeds <- TwoSpeeds
    LinkfTime = 1
    LinkDownDelay = 2
    JabberTime = 1
    ThrashTime = 2
    ThrashLimit = 2
    SharedIrq = TRUE
    StopRaces = TRUE
INVARIANT NoSelfDeadlock
