\* A log replaced between the two looks at its size.
SPECIFICATION Spec
CONSTANTS
    None = None
    Client = {c1}
    MaxStreams = 1
    PageLimit = 2
    MaxRead = 4
    TailChunk = 2
    TailRows = 1
    MaxRows = 2
    SeenLimit = 2
    JunkLines <- ShortAndOversized
    MaxRecords = 2
    MaxJunk = 0
    MaxReplaced = 1
    MaxFaults = 0
    MaxAbandoned = 0
PROPERTIES RestartAnnounced
CHECK_DEADLOCK FALSE
