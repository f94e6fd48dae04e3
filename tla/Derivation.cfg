SPECIFICATION MCSpec
CONSTANTS
    Milli = 2
    DefaultPolicy <- BasePolicy
    Definitions <- MCDefinitions
    Policies <- MCPolicies
    Documents <- MCDocuments
    Evidence <- MCEvidence
    Resources <- MCResources
    Period <- MCPeriod
    Instants <- MCInstants
    Width = 3
INVARIANTS
    HierarchyIsForest
    AttributionUnique
    LiveOnce
    RunningIsRecorded
    SupersededStaysOut
    Reopenable
    MeasuredOnce
    Explained
    Conserved
    AuthorityRespected
    DeterminateIsComplete
    RollupConserves
    AxesAgree
PROPERTIES
    RedeliveryHarmless
\* All the evidence has arrived in the end.
CHECK_DEADLOCK FALSE
