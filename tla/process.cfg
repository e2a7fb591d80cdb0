CONSTANTS
    WordBits = 6
    MarkLow = 2
    MarkBits = 3
    MarkFlip = 1
    Files <- MCFiles
    MaxBoots = 2
SPECIFICATION FairSpec
INVARIANTS ServesWhatIsEnabled LimitsUsable SlicedPicksClean PicksKeepToSlice WalksApart
PROPERTIES StopsWhenTold FailureEnds
CHECK_DEADLOCK FALSE
