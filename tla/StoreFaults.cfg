SPECIFICATION Spec
CONSTANTS
    r1 = r1
    Batch <- MCFaultBatch
    SegCap = 2
    MaxSegments = 3
    IoErrors = TRUE
    Readers <- MCReaders
    MaxSegmentId = 3
INVARIANTS
    TypeOK
    ManifestSound
    ExactRecovery
    ReplayInOrder
    CompactionFits
    NoDirtyRead
    Inductive
PROPERTIES
    ImplementsDurableLog
CONSTRAINT NotLost
