SPECIFICATION LiveSpec
CONSTANTS
    Files = {f1, f2}
    EntryIds = {e1, e2, e3}
    Batches = {b1}
    Singles = {}
    Texts = {"text", "empty"}
    Requests = {"upload", "reset", "delete_entry"}
    MaxCrashes = 1
    None = None
PROPERTIES
    RunNeverRegresses
    FilledColumnsKept
    BatchVisitsAll
    StepsDescend
    EventuallyFinished
