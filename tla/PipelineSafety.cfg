CONSTANTS
    Batches <- FourRecords
    Slots = {w1, w2, w3}
    Base = 1
    MaxWorkers = 3
    LogCap = 1
    BatchSize = 1
    MaxFaults = 1
SPECIFICATION Spec
INVARIANTS
    TypeOK
    Conservation
    SettledAtExit
    PoolWithinBounds
PROPERTIES
    ImplementsLedger
SYMMETRY Symmetry
