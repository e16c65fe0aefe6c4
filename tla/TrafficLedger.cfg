SPECIFICATION Spec
CONSTANTS
    r1 = r1  r2 = r2  c1 = c1  c2 = c2  z1 = z1  u1 = u1  u2 = u2
    Runner = {r1, r2}
    NoRunner = NoRunner
    Chunk = {c1, c2}
    User = {u1, u2}
    UserOf <- OneUser
    Empty = {}
    MinTraffic = 1
    MaxFaults = 2
    FallbackAcks = FALSE
INVARIANTS AckFitsCounter PendingUntilCredited SecuredSurvives ResendsPaid StopVerdict
PROPERTY KeepsPromise
SYMMETRY RunnerSymmetry
CHECK_DEADLOCK FALSE
