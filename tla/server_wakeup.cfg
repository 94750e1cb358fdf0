SPECIFICATION FairServerSpec
CONSTANTS
    Files = {f1}
    EntryIds = {e1, e2}
    Batches = {drain, b2}
    Singles = {}
    Texts = {"text"}
    Requests = {"upload", "delete", "reset"}
    MaxCrashes = 1
    Drain = drain
    MaxPending = 2
    None = None
INVARIANTS
    ServerTypeOK
    PendingIsAwaited
PROPERTIES
    PendingTakenUp
CHECK_DEADLOCK FALSE
