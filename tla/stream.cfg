CONSTANTS
    Width = 4
    WordBits = 2
    MaxSkips = 8
    MarkLow = 0
    MarkBits = 2
    MarkWidth = 4
    Seeds <- AllSeeds
SPECIFICATION Spec
INVARIANTS CascadeExact
PROPERTIES CounterWalks ImplementsCycle
