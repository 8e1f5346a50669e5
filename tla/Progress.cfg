SPECIFICATION FairSpec
CONSTANTS
    a1 = a1
    onprem = onprem
    NoOne = NoOne
    database = database
    event = event
    Nothing = Nothing

    
PROPERTIES
    EveryRequestEnds
    TodayReachesTheWiki
