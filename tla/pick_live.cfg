CONSTANTS
    Threads = {t1, t2}
    Sweeper = Sweeper
    Free = Free
    a1 = a1
    a2 = a2
    a3 = a3
    d1 = d1
    d2 = d2
    p1 = p1
    p2 = p2
    Accounts = {a1, a2}
    Dests = {d1}
    Tokens = {k1}
    NoTok = NoTok
    Prefixes = {p1}
    NoPrefix = NoPrefix
    NoAddr = NoAddr
    NoSession = NoSession
    Addr <- MCAddr
    Configs <- EveryMode
    CycleOf <- MCCycleOf
    SlicedAccounts = {a2}
    SliceOf <- MCSliceOf
    IfaceAddr <- MCIfaceAddr
    CycleLen = 4
    SliceLen = 1
    BrCap = 1
    StreamMax = 1
    StickyTTL = 1
    HostIdleTTL = 1
    MaxClock = 2
    MaxRequests = 2
SPECIFICATION FairSpec
PROPERTIES EveryRequestAnswered ExpiredSessionsGo
