SPECIFICATION Spec
CONSTANTS
    Policy <- MCPolicy
    Topology <- MCTopology
    Evidence <- MCEvidence
    Periods <- MCPeriods
    Instants <- MCInstants
    Milli = 2
    Half = 1000
INVARIANTS
    TypeOK
    RestartKeepsMemory
    IntegrityHolds
    StoredOnce
    NothingEvicted
    CountedInOnePeriod
    Inductive
PROPERTIES
    RevisionsImmutable
    LateIsFlagged
CONSTRAINT Bounded
