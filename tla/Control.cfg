SPECIFICATION ControlSpec
CONSTANTS
    n1 = n1  n2 = n2
    Config <- MCConfig
    FirstConfig <- First
    Inst = {1, 2, 3, 4}
    MaxChanges = 2
    MaxUserLists = 1
    MaxFaults = 1
    Node = {n1, n2}
    MaxEdits = 2
    MaxUpdates = 2
    MaxRouteFaults = 2
INVARIANTS InboundSound ReloadsSound
PROPERTIES NodeSettles ReloadsSettle
CHECK_DEADLOCK FALSE
