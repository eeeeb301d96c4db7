\* One page, one place, connections that break and end, a log that only grows.
SPECIFICATION FairSpec
CONSTANTS
    None = None
    Client = {c1}
    MaxStreams = 1
    PageLimit = 2
    MaxRead = 4
    TailChunk = 2
    TailRows = 1
    MaxRows = 2
    SeenLimit = 2
    JunkLines <- ShortAndOversized
    MaxRecords = 3
    MaxJunk = 1
    MaxReplaced = 0
    MaxFaults = 2
    MaxAbandoned = 1
PROPERTIES NoGapNoDuplicate EveryRecordShown
CHECK_DEADLOCK FALSE
