SPECIFICATION LiveSpec
CONSTANTS
    Files = {f1}
    EntryIds = {e1, e2}
    Batches = {b1}
    Singles = {}
    Texts = {"text"}
    Requests = {"upload"}
    MaxCrashes = 1
    None = None
PROPERTIES
    SurvivorsFinish
