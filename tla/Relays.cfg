SPECIFICATION RelaysSpec
CONSTANTS
    Chunks = 2
    Timeout = 2
    Targets = {t1, t2}
    Workers = {1, 2}
    MaxSessions = 1
    QueueCap = 1
    AnswerCap = 1
    Packets = 2
    Nobody = nobody
INVARIANT RelaysSound
PROPERTY RelaysEnd
CHECK_DEADLOCK FALSE
