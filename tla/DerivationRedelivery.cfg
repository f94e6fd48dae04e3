SPECIFICATION MCSpec
CONSTANTS
    Milli = 2
    DefaultPolicy <- BasePolicy
    Definitions <- MCDefinitions
    Policies <- MCPolicies
    Documents <- MCDocuments
    Evidence <- MCEvidence
    Resources <- MCResources
    Period <- MCPeriod
    Instants <- MCInstants
    Width = 3
PROPERTY SecondDeliverySuppressed
CHECK_DEADLOCK FALSE
