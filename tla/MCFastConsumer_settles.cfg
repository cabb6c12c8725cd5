SPECIFICATION FairSpec
CONSTANTS
    Instances = {c1, c2}
    Partitions = {"p1", "p2"}
    Events = {"paused", "score1"}
    PartitionOf <- MCPartitionOf
    Source <- ScoreSource
    Steps <- MCSteps
    Nodes <- MCNodes
    NoEvent = NoEvent
    NoInstance = NoInstance
    MaxFaults = 1
    MaxMoves = 2
PROPERTIES
    EveryMessageSettles
CHECK_DEADLOCK FALSE
