SPECIFICATION Spec
CONSTANTS
    Policy <- MCPolicy
    Topology <- MCTopology
    Evidence <- UnderAttributed
    Periods <- OnePeriod
    Instants <- MCInstants
    Milli = 2
    Half = 1000
INVARIANT ClosedStaysClosed
CHECK_DEADLOCK FALSE
