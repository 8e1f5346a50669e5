SPECIFICATION NightSpec
CONSTANTS
    Dbs = {d1}
    Events = {e1, e2}
    Notable = {e1}
    DayLength = 2
    LastInstant = 4
    MaxFailures = 1
    MaxKills = 1
    MaxCompacts = 0
    MaxBackfills = 0
    Unlogged = Unlogged
INVARIANTS
    LedgerTellsTheTruth
PROPERTIES
    NothingIsLeftAtMidnight
    OncePerContent
    EveryNotableEventIsIngested
