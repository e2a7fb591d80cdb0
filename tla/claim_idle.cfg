CONSTANTS
    Handlers = {h1, h2}
    Ifaces = {i1}
    NoIface = NoIface
    p1 = p1
    p2 = p2
    Prefixes = {p1, p2}
    Addr <- MCAddr
    NoAddr = NoAddr
    PrefixOf <- MCPrefixOf
    OwnAddr <- MCOwnAddr
    Configured = NoIface
    AutoPool = TRUE
    SourceIface = i1
    TTL = 1
    Never = Never
    MaxClock = 4
    MaxRequests = 3
    MaxChanges = 0
    MaxRestarts = 0
SPECIFICATION HSpec
PROPERTIES SweptAreIdle
SYMMETRY MCHandlers
CHECK_DEADLOCK FALSE
