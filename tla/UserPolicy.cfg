CONSTANTS
    Users = {"u", "v"}
    IPs = {"i", "j", "k"}
    Nodes = {"n1", "n2"}
    Workers = {w1, w2}
    ExcludedIPs = {"j"}
    Reports <- Seen
    None = None
    ChannelCap = 1
    SideCap = 1
    MaxSightings = 2
    MaxMoves = 1
    MaxFaults = 1
SPECIFICATION Spec
INVARIANTS
    TypeOK
    BypassHasCause
    AlertOncePerCooldown
    SilenceHasCause
    BlockedIsSighted
SYMMETRY Symmetric
CHECK_DEADLOCK FALSE
