CONSTANTS
    i1 = i1
    i2 = i2
    Id <- MCId
    NoId = NoId
    SizeRange = 65536
    Junk <- MCZeroed
    MaxTicks = 2
    MaxReceives = 3
    MaxRecvFailures = 1
    MaxSendFailures = 0
SPECIFICATION Spec
PROPERTIES
    InvalidPacketIsDropped
CHECK_DEADLOCK FALSE
