\* Two writers at once.
SPECIFICATION Spec
CONSTANTS
    None = None
    Writer = {w1, w2}
    MaxRecords = 3
    MaxEdits = 0
SYMMETRY WriterSymmetry
INVARIANTS EachCoversPrevious
CHECK_DEADLOCK FALSE
