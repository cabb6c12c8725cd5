SPECIFICATION Spec
CONSTANTS
    Readings <- MCReadings
    WornMachine = "mill3"
    Cooldown = 2
    LambdaRetries = 1
    FailingCalls = {"put", "send"}
    MaxCalls = 3
    MaxTime = 5
    MaxFaults = 1
INVARIANTS AtMostOnePerWindow SuppressedIsCovered
CHECK_DEADLOCK FALSE
