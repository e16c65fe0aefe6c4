SPECIFICATION Spec
CONSTANTS
    r1 = r1  r2 = r2  c1 = c1  c2 = c2  z1 = z1  u1 = u1  u2 = u2
    Runner = {r1, r2}
    NoRunner = NoRunner
    Chunk = {c1, c2}
    User = {u1, u2}
    UserOf <- TwoUsers
    Empty = {}
    MinTraffic = 1
    MaxFaults = 1
    FallbackAcks = TRUE
INVARIANTS PendingUntilCredited
CHECK_DEADLOCK FALSE
