CONSTANTS
    NCpus = 2
    QueueLimit = 3
    LoadMayFail = TRUE
    DelayDrains = TRUE
SPECIFICATION FairSpec
INVARIANT BacklogIsScheduled
INVARIANT PollIsThere
INVARIANT FramesMatchPoll
PROPERTY BacklogIsServed
CHECK_DEADLOCK FALSE
