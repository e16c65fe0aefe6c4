SPECIFICATION ConnectionsSpec
CONSTANTS
    Conns = {c1, c2}
    Clients = {i1}
    Users = {u1, u2}
    Lists = {{}, {u1}, {u1, u2}}
    Hosts = {open, barred}
    Blocked = {barred}
    MaxConn = 1
    None = None
INVARIANTS AdmittedOnly 
PROPERTIES StopCompletes SilentClientsLeave
CHECK_DEADLOCK FALSE
