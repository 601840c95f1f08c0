CONSTANTS
    a = a
    b = b
    a1 = a1
    a2 = a2
    b1 = b1
    Items = {a1, a2, b1}
    Paths = {a, b}
    PathOf <- MCPathOf
    Versions = {1, 2}
    SecLen <- MCSecLen
    Epochs = {1}
    Batches <- MCBatches
    Budget = 4
    StubLen = 3
    TTL = 2
    Capacity = 2
    MaxTime = 3
    MaxReads = 3
    MaxWrites = 1
    Gone = Gone
    None = None
SPECIFICATION Spec
INVARIANTS TypeOK LedgerOrdered StubBackedUnlessCut
PROPERTIES NoExpiredAfterUse
\* The clock and the number of reads are bounded.
CHECK_DEADLOCK FALSE
