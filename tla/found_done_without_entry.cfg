SPECIFICATION Spec
CONSTANTS
    Files = {f1}
    EntryIds = {e1, e2}
    Batches = {b1}
    Singles = {}
    Texts = {"text"}
    Requests = {"upload", "reset"}
    MaxCrashes = 0
    None = None
INVARIANTS
    DoneHasEntry
