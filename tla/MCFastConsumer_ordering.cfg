SPECIFICATION Spec
CONSTANTS
    Instances = {c1}
    Partitions = {"p1", "p2"}
    Events = {"started", "hold", "paused"}
    PartitionOf <- MCPartitionOf
    Source <- WorkOrderSource
    Steps <- MCSteps
    Nodes <- MCNodes
    NoEvent = NoEvent
    NoInstance = NoInstance
    MaxFaults = 1
    MaxMoves = 1
INVARIANTS
    SameEntityOrdered
CHECK_DEADLOCK FALSE
