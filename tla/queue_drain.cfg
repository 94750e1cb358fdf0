SPECIFICATION FairSpec
CONSTANTS
    Files = {f1, f2}
    Drain = drain
    Manuals = {m1, m2}
    Debounce = TRUE
    MaxPending = 5
    None = None
PROPERTIES
    SignalKept
    SignalSafe
INVARIANTS
    TypeOK
    MirrorExact
    TaskCountExact
    CurrentFollows
