\* One write may fail twice and be dropped; two records at a time.
SPECIFICATION Spec
CONSTANTS
    Records = {"wo", "po", "ncr"}
    Domain <- MCDomain
    Images <- MCImages
    Shard <- MCShard
    Partitions = {1, 2}
    PartitionOf <- MCPartitionOf
    BatchSize = 2
    RetryAttempts = 1
    MaxChanges = 3
    MaxFaults = 2
INVARIANTS TypeOK NothingLostSilently FirstSeenInOrder LatestComesLast HoldViewIsCurrent
PROPERTY AlwaysDrains
CHECK_DEADLOCK FALSE
