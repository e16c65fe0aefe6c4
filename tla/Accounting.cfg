SPECIFICATION AccountingSpec
CONSTANTS
    r1 = r1  r2 = r2  c1 = c1  c2 = c2  z1 = z1  u1 = u1  u2 = u2  k1 = k1  k2 = k2
    Runner = {r1}
    NoRunner = NoRunner
    Chunk = {c1, z1}
    User = {u1, u2}
    UserOf <- OneUser
    Empty = {z1}
    MinTraffic = 1
    MaxFaults = 2
    FallbackAcks = TRUE
    Task = {k1, k2}
    Rates = {0, 1, 3}
    Sizes = {2, 7}
    Floor = 3
    MaxAge = 6
    MaxSets = 2
    MaxCalls = 2
 
PROPERTIES ShutdownReturns  ThrottleEnds
CHECK_DEADLOCK FALSE
