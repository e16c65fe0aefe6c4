SPECIFICATION SessionsSpec
CONSTANTS
    Ids = {1, 2}
    Tasks = {1, 2}
    MaxStreams = 1
    StreamCap = 1
    OutCap = 1
    None = None
INVARIANT
    StreamsKept
PROPERTIES
    LoopGoesOn
    SessionCloses
CHECK_DEADLOCK FALSE
