CONSTANTS
    Configured <- MCConfigured
    Users <- MCUsers
    Forms <- MCForms
    Passwords = {"p", "q"}
    HandshakeTime = 2
    ForwardTime = 2
    MaxRequests = 2
    MaxEarly = 2
SPECIFICATION FairSpec
INVARIANTS HandshakeTypeOK ServedIsAuthenticated RequestReadExactly CutBodyIsNoticed
PROPERTIES SlowDialIsAnswered HandshakeEnds ForwardEnds
CHECK_DEADLOCK FALSE
