CONSTANTS
    Users = {u1}
    Workers = {w1}
    NoUser = NoUser
    Duration = 2
    Timeout = 6
    Backoffs = {1}
    BatchSize = 1
    Retention = 9
    Horizon = 6
    MaxFaults = 0
    MaxCrashes = 0
SPECIFICATION Spec
INVARIANTS
    NoUserStranded
