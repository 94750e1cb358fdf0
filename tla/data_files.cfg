SPECIFICATION FairSpec
CONSTANTS
    Names = {p1, p2}
    Requested = {p1, p2, unknown}
    Texts = {default, x, y}
    Default = default
    Entries = {e1}
    Periodic = TRUE
    None = None
INVARIANTS
    TypeOK
    KeptUnlessTorn
    NeverOlder
PROPERTIES
    CacheIsSnapshot
    CacheCatchesUp
