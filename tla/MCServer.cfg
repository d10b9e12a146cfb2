CONSTANTS
    N = 2
    a1 = a1
    a2 = a2
    Addr <- MCAddr
    NoName = NoName
    MaxArrivals = 3
    MaxEarly = 1
    MaxFailures = 2
    MaxRestarts = 1
SPECIFICATION Spec
SYMMETRY AddrSymmetry
INVARIANTS
    TypeOK
    IdMatchesIndex
    UniqueIds
    ExclusiveSlot
    WelcomeToOwner
    WildOnlyAfterRestart
    ConnectedWasGranted
    AnsweredOnce
    DeafOnlyAfterFailures

CHECK_DEADLOCK FALSE
