CONSTANTS
    a = a
    b = b
    IPs = {a, b}
    Lookers = {l1, l2}
    Worker = Worker
    NoIP = NoIP
    QueueCap = 1
    RetryMax = 1
    Coverage <- TwoEditions
    MaxLookups = 2
    MaxFaults = 1
SPECIFICATION FairSpec
INVARIANTS
    TypeOK
    PendingHasTask
    PoorIsExplained
PROPERTIES
    PendingSettles
CHECK_DEADLOCK FALSE
