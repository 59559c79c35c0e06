CONSTANTS
    Users = {u1}
    Workers = {w1}
    NoUser = NoUser
    Duration = 2
    Timeout = 1
    Backoffs = {1, 2}
    BatchSize = 1
    Retention = 3
    Horizon = 6
    MaxFaults = 2
    MaxCrashes = 1
SPECIFICATION FairSpec
PROPERTIES
    EventuallyEnabled
