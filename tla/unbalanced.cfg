SPECIFICATION Spec
CONSTANTS
    m1 = m1
    m2 = m2
    Macs <- OneMac
    SwitchPorts <- NoMacs
    Speeds <- TwoSpeeds
    ResetPhys <- OneMac
    ProcMacs <- OneMac
    OpenMacs <- NoMacs
    EthtoolMacs <- NoMacs
    ReopenFailed = FALSE
    ProcBalanced = FALSE
    LoadMayFail = FALSE
    Interruptible = {"load"}
    MaxSuspends = 1
    MaxSwitchSuspends = 2
    MaxSem = 2
    E5Watchdog = TRUE
    FirstDevs <- OneMac
INVARIANT TypeOK
INVARIANT LockNeverLost
