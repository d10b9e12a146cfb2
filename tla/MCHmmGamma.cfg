CONSTANTS
    N = 2
    M = 2
    T = 3
    EpochSize = 3
    Files <- SmallFiles
    StateRows <- Moves
    SymbolRows <- Symbols
    Junk <- Zeroed
    MaxUpdates = 2
SPECIFICATION MCSpec
INVARIANT GammaSumsToOne
CHECK_DEADLOCK FALSE
