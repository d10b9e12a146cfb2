CONSTANTS
    N = 2
    a1 = a1
    a2 = a2
    Addr <- MCAddr
    NoName = NoName
    MaxArrivals = 2
    MaxEarly = 0
    MaxFailures = 2
    MaxRestarts = 1
SPECIFICATION FairSpec
PROPERTIES
    ImplementsResponder
    AnswersEverything
CHECK_DEADLOCK FALSE
