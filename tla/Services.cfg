INIT SuiteInit
NEXT SuiteNext
CONSTANTS
    i1 = i1
    i2 = i2
    code = code
    f1 = f1
    f2 = f2
    s1 = s1
    s2 = s2
    t1 = t1
    t2 = t2
    w1 = w1
    w2 = w2
    Incidents <- Pages
    Db <- OneDb
    Unreadable <- NoPages
    Codes <- OneError
    Mentions <- FirstMentions
    Untils <- Ends
    DayLength = 1
    LastPin = 1
    MaxActs = 3
    MaxIngests = 1
    NoWindow = NoWindow
    NoPage = NoPage
    Findings <- Failures
    Key <- OneSubject
    Sinks <- TwoSinks
    RETRY_BASE = 1
    RETRY_CAP = 2
    LastDispatch = 4
    MaxKills = 1
    Unseen = Unseen
    Clicks <- ThreeClicks
    Tools = {"tool"}
    ToolOf <- OneTool
    Threads = {t1, t2}
    Workers = {w1, w2}
    Slots = 2
    Retain = 1
    MaxRuns = 2
    MaxCost = 2
    Window = 0
    Prices <- FewPrices
    LastInstant = 1
    MaxStarts = 3
    MaxFaults = 1
    NoCeiling = Nothing
    Unpriced = Unpriced
    NoRecord = NoRecord
    Nothing = Nothing
    source = source
    Sources <- Watched
    WatchCodes <- Notable
    Routine = Routine
    SlotsPerDay = 2
    MAX_WINDOW_DAYS = 2
    Signals <- Arming
    Windows <- OneStart
    LastSlot = 4
    MaxEvents = 1
    MaxCommits = 2
SYMMETRY AnyActor
INVARIANTS
    PagesTellEveryAct
    
    EveryOutageIsToldOnce
    SpendingIsBounded
    NoRunStandsStill
    EditsAreSurgical
    WikiStaysSound
    AbsenceIsProven
CHECK_DEADLOCK FALSE
