CONSTANTS
    NHandles = 3
    Instances = {pce, ppa}
    Changers = {ppa}
    Leavers = {ppa}
    None = None
    ChangeRaces = FALSE
    MaxValid = 3
SPECIFICATION Spec
INVARIANT WinnerFindsSession
INVARIANT HandleComesBack
INVARIANT HardwareMatchesTable
INVARIANT SweepIsComplete
