SPECIFICATION FairSpec
CONSTANTS
    m1 = m1
    m2 = m2
    Macs <- OneMac
    SwitchPorts <- NoMacs
    Speeds <- TwoSpeeds
    ResetPhys <- OneMac
    ProcMacs <- NoMacs
    OpenMacs <- OneMac
    EthtoolMacs <- OneMac
    ReopenFailed = FALSE
    ProcBalanced = TRUE
    LoadMayFail = FALSE
    Interruptible = {"device"}
    MaxSuspends = 1
    MaxSwitchSuspends = 1
    MaxSem = 2
    E5Watchdog = TRUE
    FirstDevs <- OneMac
INVARIANT SuspendedMacIsDown
PROPERTY LinkUpWakesQueue
PROPERTY LinkLossStopsQueue
PROPERTY MacRestored
 
