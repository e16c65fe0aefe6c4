SPECIFICATION SessionsSpec
CONSTANTS
    Ids = {1, 2}
    Tasks = {1}
    MaxStreams = 1
    StreamCap = 1
    OutCap = 1
    None = None
PROPERTY
    IdleSessionCloses
CHECK_DEADLOCK FALSE
