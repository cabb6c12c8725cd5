SPECIFICATION Spec
CONSTANTS
    Questions = {"q1"}
    Agents = {"quality", "planning"}
    AskerOf <- MCAskerOf
    Options = {"REWORK"}
    StreamRetries = 1
    MaxAnswers = 2
    MaxFaults = 2
    Findings = {"f1", "f2"}
    Events = {"e1"}
    DomainOf <- MCDomainOf
    ViewSize = 1
    ScanLimit = 1
    LambdaRetries = 1
    MaxLoads = 1
INVARIANTS ResumedOncePerAsk AnsweredIsHeard QuietListsAreRight
CONSTRAINT Separately
CHECK_DEADLOCK FALSE
