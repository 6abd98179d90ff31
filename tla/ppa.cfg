CONSTANTS
    s1 = s1
    s2 = s2
    s3 = s3
    k1 = k1
    k2 = k2
    Sessions <- ThreeSessions
    Offers <- WithVlan
    Keys <- TwoKeys
    None = None
    Size <- TwoMacs
    NRoutes = 2
    MaxCount = 2
SYMMETRY SessionSymmetry
SPECIFICATION Spec
INVARIANT TypeOK
INVARIANT EntryOutlivesItsSessions
INVARIANT FailuresGiveBack
INVARIANT ForwardedIsKnown
INVARIANT LookupIsCurrent
