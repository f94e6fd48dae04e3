\* Writes and renames may fail; the budget is never exhausted.
SPECIFICATION Spec
CONSTANTS
    r1 = r1
    Batch <- MCBatch
    SegCap = 2
    MaxSegments = 9
    IoErrors = TRUE
    Readers <- MCNoReaders
    MaxSegmentId = 5
INVARIANT HistoryKept
