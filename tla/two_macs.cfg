SPECIFICATION Spec
CONSTANTS
    m1 = m1
    m2 = m2
    Macs <- TwoMacs
    SwitchPorts <- SecondMac
    Speeds <- TwoSpeeds
    ResetPhys <- OneMac
    ProcMacs <- SecondMac
    OpenMacs <- NoMacs
    EthtoolMacs <- NoMacs
    ReopenFailed = FALSE
    ProcBalanced = TRUE
    LoadMayFail = TRUE
    Interruptible = {}
    MaxSuspends = 1
    MaxSwitchSuspends = 2
    MaxSem = 2
    E5Watchdog = FALSE
    FirstDevs <- OneMac
INVARIANT SuspendCountsBalanced
INVARIANT QuietWhileSuspended
INVARIANT MacFollowsStatus
INVARIANT SwitchPortUp
INVARIANT PortsBlockedDuringRebuild
PROPERTY ImplementsGate
