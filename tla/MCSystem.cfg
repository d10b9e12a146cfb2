CONSTANTS
    me = me
    other = other
    Me = me
    Addr <- MCAddr
    NoName = NoName
    Junk <- MCZeroed
    SizeRange = 65536
    N = 1
    MaxArrivals = 5
    MaxEarly = 1
    MaxFailures = 1
    MaxRestarts = 1
    MaxTicks = 1
    MaxReceives = 3
    MaxRecvFailures = 1
    MaxSendFailures = 1
    MaxLost = 1
    MaxDuplicates = 1
    MaxOthers = 2
    MaxFaults = 1
SPECIFICATION Spec
INVARIANTS
    IdIsMine
    OnceUnlessDuplicated
PROPERTIES
    ServerKeepsToProtocol
    ClientKeepsToProtocol
CHECK_DEADLOCK FALSE
