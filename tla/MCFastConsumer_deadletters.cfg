SPECIFICATION Spec
CONSTANTS
    Instances = {c1}
    Partitions = {"p1"}
    Events = {"short", "staged"}
    PartitionOf <- MCPartitionOf
    Source <- KitSource
    Steps <- MCSteps
    Nodes <- MCNodes
    NoEvent = NoEvent
    NoInstance = NoInstance
    MaxFaults = 2
    MaxMoves = 1
INVARIANTS
    MarkedIsAccounted
    DroppedEdgeHasFailedEndpoint
    OlderStateHasFailure
CHECK_DEADLOCK FALSE
