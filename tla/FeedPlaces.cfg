\* One page, two places, streams given up, a log replaced once.
SPECIFICATION Spec
CONSTANTS
    None = None
    Client = {c1}
    MaxStreams = 2
    PageLimit = 2
    MaxRead = 4
    TailChunk = 2
    TailRows = 1
    MaxRows = 2
    SeenLimit = 2
    JunkLines <- ShortAndOversized
    MaxRecords = 4
    MaxJunk = 0
    MaxReplaced = 1
    MaxFaults = 1
    MaxAbandoned = 1
INVARIANTS TypeOK ToldOnce PlacesAccounted
CHECK_DEADLOCK FALSE
