SPECIFICATION Spec
CONSTANTS
    h1 = h1
    h2 = h2
    b1 = b1
    b2 = b2
    Handles <- OneHandle
    Blocks <- TwoBlocks
    NoBlock = NoBlock
    Slots <- UpTo2
    FixedSlots <- First
    Counters <- UpTo1
    FixedCounters <- First
    PortCounter = PortCounter
    WriteMayFail = FALSE
    Interruptible = FALSE
INVARIANT StatsUseIsLive
