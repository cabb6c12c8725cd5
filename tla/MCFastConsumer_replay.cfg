SPECIFICATION Spec
CONSTANTS
    Instances = {c1}
    Partitions = {"p1"}
    Events = {"started"}
    PartitionOf <- MCPartitionOf
    Source <- StartSource
    Steps <- MCSteps
    Nodes <- MCNodes
    NoEvent = NoEvent
    NoInstance = NoInstance
    MaxFaults = 1
    MaxMoves = 0
INVARIANTS
    ReplayCompletesThread
CHECK_DEADLOCK FALSE
