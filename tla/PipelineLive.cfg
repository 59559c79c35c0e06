CONSTANTS
    Batches <- TwoBatches
    Slots = {w1, w2}
    Base = 1
    MaxWorkers = 2
    LogCap = 1
    BatchSize = 2
    MaxFaults = 0
SPECIFICATION FairSpec
PROPERTIES
    SettlesEventually
    ShutdownTerminates
CHECK_DEADLOCK FALSE
