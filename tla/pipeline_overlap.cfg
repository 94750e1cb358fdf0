SPECIFICATION FairSpec
CONSTANTS
    Files = {f1}
    EntryIds = {e1, e2, e3}
    Batches = {b1, b2}
    Singles = {s1}
    Texts = {"text"}
    Requests = {"upload", "delete"}
    MaxCrashes = 1
    None = None
INVARIANTS
    ColumnsBackStatus
PROPERTIES
    RunsTerminate
