CONSTANTS
    s1 = s1
    s2 = s2
    s3 = s3
    k1 = k1
    k2 = k2
    Sessions <- TwoSessions
    Offers <- SomeVlan
    Keys <- TwoKeys
    None = None
    Size <- OneEach
    NRoutes = 1
    MaxCount = 2
SPECIFICATION Spec
INVARIANT EntryOutlivesItsSessions
