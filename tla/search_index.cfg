SPECIFICATION Spec
CONSTANTS
    Rows = {e1, e2}
    Runs = {b1, s1}
    Texts = {old, new}
    None = None
INVARIANTS
    TypeOK
    IndexedHasPoint
    DoneIsFresh
