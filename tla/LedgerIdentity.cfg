\* Two records of one identity in two periods.
SPECIFICATION Spec
CONSTANTS
    Policy <- MCPolicy
    Topology <- MCTopology
    Evidence <- MCEvidence
    Periods <- MCPeriods
    Instants <- MCInstants
    Milli = 2
    Half = 1000
PROPERTY OpenEvidenceKept
