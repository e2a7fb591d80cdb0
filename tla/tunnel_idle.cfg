CONSTANTS
    Targets = {"v4", "name"}
    MaxAnswers = 2
    Request = 1
    Response = 2
    Window = 1
SPECIFICATION TimedSpec
PROPERTIES SilentRelayEnds
CHECK_DEADLOCK FALSE
