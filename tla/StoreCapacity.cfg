\* Only crashes, and a segment budget that the third commit exhausts half-way.
SPECIFICATION Spec
CONSTANTS
    r1 = r1
    Batch <- MCBatch
    SegCap = 2
    MaxSegments = 3
    IoErrors = FALSE
    Readers <- MCNoReaders
    MaxSegmentId = 5
INVARIANT RefusedBatchInvisible
