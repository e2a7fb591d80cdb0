CONSTANTS
    Threads = {t1, t2}
    Sweeper = Sweeper
    Free = Free
    a1 = a1
    a2 = a2
    a3 = a3
    d1 = d1
    d2 = d2
    p1 = p1
    p2 = p2
    Accounts = {a1, a2}
    Dests = {d1, d2}
    Tokens = {}
    NoTok = NoTok
    Prefixes = {p1, p2}
    NoPrefix = NoPrefix
    NoAddr = NoAddr
    NoSession = NoSession
    Addr <- MCAddr
    Configs <- OnlyAutoPool
    CycleOf <- MCCycleOf
    SlicedAccounts = {a2}
    SliceOf <- MCSliceOf
    IfaceAddr <- MCIfaceAddr
    CycleLen = 2
    SliceLen = 2
    BrCap = 1
    StreamMax = 2
    StickyTTL = 1
    HostIdleTTL = 1
    MaxClock = 0
    MaxRequests = 3
    PrefixOf <- MCPrefixOf
SPECIFICATION HSpec
PROPERTIES FreshPerSite FollowsPrefix
SYMMETRY HandlersAndPrefixes
