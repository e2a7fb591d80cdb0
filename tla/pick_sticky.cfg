CONSTANTS
    Threads = {t1, t2}
    Sweeper = Sweeper
    Free = Free
    a1 = a1
    a2 = a2
    a3 = a3
    d1 = d1
    d2 = d2
    p1 = p1
    p2 = p2
    Accounts = {a1, a2, a3}
    Dests = {d1}
    Tokens = {k1}
    NoTok = NoTok
    Prefixes = {}
    NoPrefix = NoPrefix
    NoAddr = NoAddr
    NoSession = NoSession
    Addr <- MCAddr
    Configs <- PoolOrFixed
    CycleOf <- MCCycleOf
    SlicedAccounts = {a3}
    SliceOf <- MCSliceOf
    IfaceAddr <- MCIfaceAddr
    CycleLen = 4
    SliceLen = 1
    BrCap = 2
    StreamMax = 1
    StickyTTL = 1
    HostIdleTTL = 1
    MaxClock = 2
    MaxRequests = 3
SPECIFICATION Spec
INVARIANTS TypeOK LockOK RingOK StreamsBounded SessionGaugeCovers
PROPERTIES PinKeptByOwner AnswerIsThePin CrossStreamFresh ImplementsWindow
SYMMETRY Handlers
