CONSTANTS
    Users = {u1, u2}
    Workers = {w1, w2}
    NoUser = NoUser
    Duration = 2
    Timeout = 1
    Backoffs = {1}
    BatchSize = 1
    Retention = 2
    Horizon = 4
    MaxFaults = 1
    MaxCrashes = 1
SPECIFICATION Spec
INVARIANTS
    TypeOK
    StrandedHasCause
    QuietAgreement
    SkipOnlyIfDisabled
PROPERTIES
    NoEarlyEnable
SYMMETRY Symmetry
