SPECIFICATION Spec
CONSTANTS
    Contents = {c1, c2}
    Ids = {r1, r2, r3}
    MaxCrashes = 2
    MaxFaults = 2
    None = None
INVARIANTS
    TypeOK
    AnsweredKept
    OrphansCostFaults
    HollowRecordsCost
PROPERTIES
    ImplementsAudioStore
