SPECIFICATION Spec
CONSTANTS
    Files = {f1}
    EntryIds = {e1, e2, e3}
    Batches = {b1, b2}
    Singles = {s1}
    Texts = {"text", "empty"}
    Requests = {"upload", "delete", "reset", "delete_entry", "clear"}
    MaxCrashes = 1
    None = None
SYMMETRY Symmetry
INVARIANTS
    TypeOK
    OneEntryPerFile
    NoStrandedProcessing
    EntryBacksStatus
PROPERTIES
    ImplementsTranscripts
