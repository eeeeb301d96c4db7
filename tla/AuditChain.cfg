\* One writer that may crash in the middle of a line, readers, and edits of the file.
SPECIFICATION Spec
CONSTANTS
    None = None
    Writer = {w1}
    MaxRecords = 4
    MaxEdits = 2
INVARIANTS TypeOK OneWriterChains StatusAgrees
CHECK_DEADLOCK FALSE
