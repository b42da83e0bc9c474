\* Two lives of the generator, two ticks each, one fault: a process that loses
\* a call or is killed anywhere, is started again and is stopped.
CONSTANTS
    Every <- MCEvery
    MinioBatchTicks = 2
    PublishAttempts = 2
    PerTick = 2
    MaxOrders = 2
    MaxTicks = 2
    MaxLives = 2
    MaxFaults = 1
SPECIFICATION FairSpec
CHECK_DEADLOCK FALSE
INVARIANTS TypeOK OltpIsSound CleanStop
PROPERTIES StopEnds
