\* Nothing fails; one process opens the store without the lock.
SPECIFICATION Spec
CONSTANTS
    r1 = r1
    Batch <- MCBatch
    SegCap = 2
    MaxSegments = 9
    IoErrors = FALSE
    Readers <- MCReaders
    MaxSegmentId = 5
INVARIANT OpenersKeepCommits
