SPECIFICATION Spec
CONSTANTS
    s1 = s1
    s2 = s2
    None = None
    Sandboxes = {s1, s2}
    Clients = {k1}
    Callers = {c1, c2}
    Configs <- MCConfigs
    Objects <- MCObjects
    ChannelCap = 2
    SourceCap = 1
    BroadcastCap = 2
    StreamCap = 1
    BufCap = 2
    ReadMax = 2
INVARIANTS
    
    StreamExact
PROPERTY
    KeepsTicking
CHECK_DEADLOCK FALSE
