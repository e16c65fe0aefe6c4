SPECIFICATION Spec
CONSTANTS
    Scripts <- PeerScripts
    Padded = 2
    MaxNonce = 1
    Segment = 3
    Room = 2
    Total = 4
    Chunk = 2
    Pressure = 3
    Words = 2
    Bits = 2
    LastPacket = 4
    Skew = 1
    Keep = 2
    Ahead = 0
    EntryCap = 2
    MemCap = 3
    Life = 2
    Lost = Lost
    Accounts = {"ann", "bob"}
    Passwords = {"p", "q", "bad"}
    Malformed = {"bad"}
    ServerKey = "server"
    Salts = {1}
    HeaderLimit = 3
    ReadUnit = 2
    BodyLen = 2
    H2Streams = 2
    Batch = 2
    FromClient = 4
    FromDecoy = 2
    Lines <- TheLines
    MinLen = 2
    Jitter = 1
    BufSize = 5
    Header = 1
    LowSpace = 2
    Backlog = 2
    ShutAfter = 1
    Upload = 2
    Download = 2
    DecoySends = 1
    Files <- RouteFiles
    Panels <- PanelFiles
    Lists <- ListFiles
    Lookups = {1, 2}
    MaxClock = 2
    MaxEdits = 1
    CacheCap = 1
    HostNames = {"a", "b"}
    RuleFiles <- DnsFiles
    FirstRead = 8
    LineLimit = 7
INVARIANTS
    ReadsPayload
    
    
    Reassembles
    OpensExactly
    
    
    
    EgressAllowed
    AnswersFresh
    

    
