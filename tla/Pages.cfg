SPECIFICATION SuiteSpec
CONSTANTS
    FeedbackRetries = 1
    MaxStages = 2
    MaxStrays = 1

    
    
PROPERTIES
    DigestsTellTheDay
CHECK_DEADLOCK FALSE
