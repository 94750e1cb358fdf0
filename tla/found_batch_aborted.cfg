SPECIFICATION Spec
CONSTANTS
    Files = {f1, f2}
    EntryIds = {e1, e2, e3}
    Batches = {b1}
    Singles = {}
    Texts = {"text"}
    Requests = {"upload", "delete"}
    MaxCrashes = 0
    None = None
PROPERTIES
    BatchVisitsAll
