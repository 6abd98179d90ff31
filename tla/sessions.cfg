SPECIFICATION FairSpec
CONSTANTS
    h1 = h1
    h2 = h2
    b1 = b1
    b2 = b2
    Handles <- TwoHandles
    Blocks <- TwoBlocks
    NoBlock = NoBlock
    Slots <- UpTo2
    FixedSlots <- First
    Counters <- UpTo1
    FixedCounters <- First
    PortCounter = PortCounter
    WriteMayFail = TRUE
    Interruptible = TRUE
INVARIANT HwSessionIsLive
INVARIANT ListUseIsLive
INVARIANT NoSharing
INVARIANT RulesMatchSessions
PROPERTY ImplementsStore
PROPERTY RemovalHappens
