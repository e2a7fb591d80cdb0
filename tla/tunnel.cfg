CONSTANTS
    Targets = {"v4", "name"}
    MaxAnswers = 2
    Request = 1
    Response = 2
    Window = 1
SPECIFICATION FairSpec
INVARIANTS TunnelTypeOK CountersMatch FourIsLast
PROPERTIES ResponseComplete UpstreamEndEnds
CHECK_DEADLOCK FALSE
