CONSTANTS
    Users = {"u"}
    IPs = {"i", "j"}
    Nodes = {"n1", "n2"}
    Workers = {w1, w2}
    ExcludedIPs = {"j"}
    Reports <- Seen
    None = None
    ChannelCap = 1
    SideCap = 1
    MaxSightings = 2
    MaxMoves = 0
    MaxFaults = 0
SPECIFICATION Spec
INVARIANTS
    ExcludedBypassed
SYMMETRY Symmetric
CHECK_DEADLOCK FALSE
