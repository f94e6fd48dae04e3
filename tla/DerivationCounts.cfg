SPECIFICATION MCSpec
CONSTANTS
    Milli = 2
    DefaultPolicy <- BasePolicy
    Definitions <- MCDefinitions
    Policies <- MCPolicies
    Documents <- MCDocuments
    Evidence <- MCEvidence
    Resources <- MCResources
    Period <- MCPeriod
    Instants <- MCInstants
    Width = 3
INVARIANT AdmittedAndRejectedAddUp
CHECK_DEADLOCK FALSE
