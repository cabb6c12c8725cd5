\* The pages: threads, conversations, panels, SQL, runs, system tables, telemetry.
SPECIFICATION BrowserSpec
CONSTANTS
    Scenarios <- MCScenarios
    NcrEvent = "e"
    NcrSerial = "SN"
    WorkOrder = "WO"
    Serials = {"SN", "SX"}
    MaxSlowFaults = 1
    Questions <- MCQuestions
    MaxThreadLoads = 2
    MaxPlans = 1
    MaxQueries = 2
    MaxAsks = 3
    Lake <- MCLake
    Keys = {"drawings/a", "drawings/b", "x"}
    GoodKeys = {"drawings/a", "drawings/b"}
    RowLimit = 5
    MaxPolls = 2
    MaxCalls = 3
    Sessions <- MCSessions
    StaleAge = 1
    SlotSpan = 1
    ScanLimit = 4
    ListLimit = 2
    MaxSeconds = 2
    MaxRecords = 4
    MaxLists = 2
    MaxLostRecords = 1
    MaxGone = 1
    RecordKeys = {1, 2, 3, 4}
    Stored <- MCStored
    FirstLimit = 2
    MoreLimit = 1
    MaxPuts = 2
    Machines = {"m1", "m2"}
    MaxReadings = 2
    MaxMessages = 3
    MaxMounts = 2
    MaxDrops = 1
    Opened <- MCOpened
CONSTRAINTS ThreadApart AskApart RunsApart TableApart
INVARIANTS
    ThreadIsBetween
    PathIsDrawn
    AssessedIsShown
    BlocksInTheirTurn
    AgentKnowsConversation
    RunningHasRun
    QuietPanelIsRight
    TrendCountsDays
    EvIsLatest
    OnlyGuardedSqlRuns
    LanesShowEveryRecord
    LoadedPageIsComplete
    CardsAgreeWithReadings
    NoReadingTwice
PROPERTIES
    PlanDiffIsExact
    ListingGrows
CHECK_DEADLOCK FALSE
