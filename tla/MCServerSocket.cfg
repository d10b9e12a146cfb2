CONSTANTS
    BufferSize = 48
    WindowsNames = {13, 14}
    IosNames = {1, 8, 9, 10, 11, 20}
    Machines <- SmallMachines
    MaxCounts = {0, 1, 2, 10}
SPECIFICATION StartSpec
INVARIANTS
    NoSocketLeaks
    CountRespected
    NothingMissed
    ServerReadsWhatWasSent
    ClientsReadAnswers
CHECK_DEADLOCK FALSE
