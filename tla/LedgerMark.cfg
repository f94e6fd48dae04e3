\* A crash, or a failed append, between the two commits of a compaction.
SPECIFICATION Spec
CONSTANTS
    Policy <- MCPolicy
    Topology <- MCTopology
    Evidence <- MCEvidence
    Periods <- MCPeriods
    Instants <- MCInstants
    Milli = 2
    Half = 1000
INVARIANT FoldIsMarked
