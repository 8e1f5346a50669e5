INIT SuiteInit
NEXT SuiteNext
CONSTANTS
    c1 = c1
    c2 = c2
    p1 = p1
    p2 = p2
    k1 = k1
    k2 = k2
    sender = sender
    d1 = d1
    d2 = d2
    source = source
    b1 = b1
    e1 = e1
    e2 = e2
    Log = Log
    Pages <- ErrorPages
    Heat <- FirstIsHotter
    Limit = 2
    MaxEpochs = 1
    MaxRuns = 2
    MaxHands = 1
    MaxKills = 1
    MaxFaults = 1
    Browsers <- OneBrowser
    Verbs <- TwoVerbs
    Texts <- OneText
    AgentText = "agent"
    Scripts <- Wrong
    Patient = TRUE
    LastSecond = 2
    MaxForms = 1
    MaxCalls = 4
    MaxElsewhere = 1
    MaxMishaps = 1
    Misshapen = Misshapen
    Nothing = Nothing
    Codes <- TwoCodes
    Slugs <- TwoSlugs
    PageAnswers <- TheFindings
    SourceAnswers <- TheVerdicts
    DomainsOf <- OwnDomain
    LastReviewed <- ReviewedOn
    Held <- TwoHeld
    MaxReferences = 2
    MaxRequests = 2
    LastDay = 2
    MaxEdits = 1
    MaxCuts = 1
    NoResult = Nothing
    Rules <- Thresholds
    Alphabet <- Names
    Reviewers <- Commands
    Snapshots <- ThreeWikis
    Alarms <- Dirty
    Delivery <- OneMail
    FirstMonday = 8
    LastWeek = 3
    MaxReviews = 3
    MaxInboxActs = 1
    MaxOutages = 1
    NoReview = Nothing
SYMMETRY AnyActor
INVARIANTS
    
    
    
    LastVerdictStands
    
    
CHECK_DEADLOCK FALSE
