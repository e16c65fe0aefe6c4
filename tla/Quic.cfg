SPECIFICATION QuicSpec
CONSTANTS
    QuicUsers = {u1, u2}
    Streams = {1, 2}
    MaxStreams = 1
    Nil = Nil
    u1 = u1
    u2 = u2
    Ids = {1, 2}
    Slots = {1, 2}
    TableCap = 1
    ChanCap = 1
    Answers = 1
    NoSlot = NoSlot
INVARIANT QuicSound
PROPERTY QuicGoesOn
CHECK_DEADLOCK FALSE
