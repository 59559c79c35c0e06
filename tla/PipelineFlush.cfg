CONSTANTS
    Batches <- TwoBatches
    Slots = {w1, w2, w3}
    Base = 1
    MaxWorkers = 2
    LogCap = 1
    BatchSize = 2
    MaxFaults = 0
SPECIFICATION Spec
INVARIANTS
    WriterKeepsAll
SYMMETRY Symmetry
