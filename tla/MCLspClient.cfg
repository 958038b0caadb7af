CONSTANTS
    c1 = c1  c2 = c2
    Caller = {c1, c2}
    Reader = Reader
    None = None
    PipeRoom = 1
    MaxCalls = 2
    MaxAsks = 1
    MaxStarts = 2
SPECIFICATION FairSpec
INVARIANTS TypeOK FramesWhole OwnAnswer ReaderNeverBlocks PendingInFlight
PROPERTIES OneServer CallsReturn
CHECK_DEADLOCK FALSE
