CONSTANTS
    i1 = i1
    i2 = i2
    Id <- MCId
    NoId = NoId
    SizeRange = 65536
    Junk <- MCJunk
    MaxTicks = 3
    MaxReceives = 4
    MaxRecvFailures = 1
    MaxSendFailures = 1
SPECIFICATION FairSpec
INVARIANTS
    TypeOK
    SeqNumbersConsecutive
    ProbesCarryGrantedId
    AckBeforeProbe
    ReportsMatchProbe
    DiesOnlyOfSecondWelcome
PROPERTIES
    EchoIsReported
CHECK_DEADLOCK FALSE
