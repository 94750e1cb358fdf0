SPECIFICATION FairSpec
CONSTANTS
    Threads = {t1, t2, t3}
    Models = {"large-v3", "small"}
    Default = "large-v3"
    Cuda = TRUE
    MaxCalls = 4
    None = None
INVARIANTS
    TypeOK
    ModelNamed
    ModelLostOnlyToRetirement
PROPERTIES
    NoGpuOnceRetired
    CallsEnd
