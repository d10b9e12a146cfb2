CONSTANTS
    BUF_SIZE = 8
    Width = 256
    Header = 2
    MaxAmount = 5
    MaxWrites = 5
SPECIFICATION Spec
INVARIANTS
    FramesInOrderUntilClean
CHECK_DEADLOCK FALSE
