SPECIFICATION WorkbenchSpec
CONSTANTS
    b1 = b1
    Nothing = Nothing
    Misshapen = Misshapen
    Browsers <- OneBrowser
    Verbs <- OneVerb
    Texts <- OneText
    Scripts <- NoScripts
    AgentText = "agent"
    Patient = FALSE
    LastSecond = 1
    MaxForms = 1
    MaxCalls = 2
    MaxElsewhere = 0
    MaxMishaps = 0
INVARIANTS
    PublishedIsPreviewed
CHECK_DEADLOCK FALSE
