CONSTANTS
    me = me
    other = other
    Me = me
    Addr <- MCAddr
    NoName = NoName
    Junk <- MCZeroed
    SizeRange = 65536
    N = 1
    MaxArrivals = 8
    MaxEarly = 1
    MaxFailures = 1
    MaxRestarts = 1
    MaxTicks = 2
    MaxReceives = 3
    MaxRecvFailures = 1
    MaxSendFailures = 1
    MaxLost = 1
    MaxDuplicates = 1
    MaxOthers = 2
    MaxFaults = 0
SPECIFICATION FairSpec
PROPERTIES
    ReportsWhenSmooth
CHECK_DEADLOCK FALSE
