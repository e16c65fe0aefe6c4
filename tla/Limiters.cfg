SPECIFICATION LimitersSpec
CONSTANTS
    t1 = t1  t2 = t2  t3 = t3  a1 = a1  a2 = a2
    n1 = n1  n2 = n2  d1 = d1  d2 = d2  c1 = c1  c2 = c2
    Thread = {t1, t2, t3}
    Counter = {a1, a2}
    Limits = {0, 1, 2}
    NoCounter = NoCounter
    Node = {n1, n2}
    Device = {d1, d2}
    Call = {c1, c2}
    DeviceLimits = {0, 1}
    Alive = {0, 1}
    Window = 2
    Expiry = 2
    MaxLate = 1
    MaxFaults = 1
    MaxChanges = 1
SYMMETRY Symmetry
INVARIANTS CountsGuards WithinLimit 
