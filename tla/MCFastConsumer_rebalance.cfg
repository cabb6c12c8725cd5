SPECIFICATION Spec
CONSTANTS
    Instances = {c1, c2}
    Partitions = {"p1", "p2"}
    Events = {"started", "hold", "paused"}
    PartitionOf <- MCPartitionOf
    Source <- WorkOrderSource
    Steps <- MCSteps
    Nodes <- MCNodes
    NoEvent = NoEvent
    NoInstance = NoInstance
    MaxFaults = 1
    MaxMoves = 2
SYMMETRY Twins
INVARIANTS
    TypeOK
    CommittedIsSettled
PROPERTIES
    OwnerWritesForward
    ImplementsDelivery
CHECK_DEADLOCK FALSE
