CONSTANTS
    Handlers = {h1, h2}
    Ifaces = {i1}
    NoIface = NoIface
    p1 = p1
    p2 = p2
    Prefixes = {p1, p2}
    Addr <- MCAddr
    NoAddr = NoAddr
    PrefixOf <- MCPrefixOf
    OwnAddr <- MCOwnAddr
    Configured = NoIface
    AutoPool = TRUE
    SourceIface = i1
    TTL = 1
    Never = Never
    MaxClock = 4
    MaxRequests = 2
    MaxChanges = 1
    MaxRestarts = 1
SPECIFICATION FairSpec
INVARIANTS ClaimTypeOK ClaimsAreTracked FreshClaimStays
PROPERTIES SweepsKeepOwn StaleClaimsGo
CHECK_DEADLOCK FALSE
