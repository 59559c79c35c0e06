CONSTANTS
    ASNs = {"A", "B"}
    IPs = {"a1", "b1"}
    NetOf <- Nets
    NoIP = NoIP
    Workers = {w1, w2}
    Timers = {c1}
    TTLs = {1, 3}
    Grace = 1
    ClearDelay = 2
    Horizon = 4
    MaxFaults = 1
    MaxRestarts = 1
SPECIFICATION Spec
SYMMETRY Symmetry
INVARIANTS
    TypeOK
    MarkedIsMember
    ActiveIsScored
    QuietWindowEnds
    MarkedHasAddress
