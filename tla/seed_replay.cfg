CONSTANTS
    WordBits = 6
    MarkLow = 2
    MarkBits = 3
    MarkFlip = 1
    Files <- MCFiles
    MaxBoots = 2
SPECIFICATION Spec
INVARIANTS RestartsNeverReplay
CHECK_DEADLOCK FALSE
