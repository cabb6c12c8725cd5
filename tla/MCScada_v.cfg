SPECIFICATION Spec
CONSTANTS
    Readings <- MCReadings
    WornMachine = "mill3"
    Cooldown = 2
    LambdaRetries = 1
    FailingCalls = {"send"}
    MaxCalls = 3
    MaxTime = 5
    MaxFaults = 1
INVARIANTS SustainedBreachIsReported
CHECK_DEADLOCK FALSE
