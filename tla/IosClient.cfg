CONSTANTS
    Id = {1, 2}
    MaxTicks = 3
    MaxReceives = 3
SPECIFICATION FairSpec
INVARIANTS
    PacketsInOrder
    OneTimer
PROPERTY WelcomeLeadsToProbe
CHECK_DEADLOCK FALSE
