CONSTANTS
    Nodes = {"n1", "n2"}
    Tuples = {"t1"}
    NodeOf <- OnFirst
    Excluded = {}
    NoTuple = NoTuple
    MaxInflight = 1
    MaxSeen = 2
    MaxToggles = 1
    MaxFaults = 1
    MaxRestarts = 1
SPECIFICATION FairSpec
INVARIANTS
    TypeOK
    MarkedWasSent
    SentOnce
PROPERTIES
    ListFollowsPanel
    SightingsArrive
