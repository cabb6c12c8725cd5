SPECIFICATION Spec
CONSTANTS
    Tasks = {t1, t2}
    Operators = {o1, o2}
    SeedItems = 2
    LiveItems = 1
    StaleAfter = 1
    RunTime = 1
    ScenarioTime = 2
    Modes = {"SEED SCENARIO", "PLAY SCENARIO"}
    Autos = {0}
    Requests = {"drama"}
    MaxClicks = 2
    MaxFaults = 1
    MaxRequests = 1
    MaxResets = 1
CONSTRAINT Apart
SYMMETRY Symmetry
INVARIANTS RunsExclude SeedCompletedIsThere PageIsRight
PROPERTIES QuietResetCleans
