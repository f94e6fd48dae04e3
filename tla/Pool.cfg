SPECIFICATION Spec
CONSTANTS
    Workers = {w1, w2}
    Clients = {ingest, other}
    Caller = ingest
    Jobs <- MCJobs
    Throwing <- MCThrowing
    Capacity = 1
    Chunks = 2
INVARIANTS
    TypeOK
    JobsConserved
    EndsWithinSubmissions
    DrainIsComplete
    AbortIsTallied
    FrameOutlivesJobs
    Inductive
PROPERTIES
    ShutdownReturns
    IngestReturns
\* All calls may have returned.
CHECK_DEADLOCK FALSE
