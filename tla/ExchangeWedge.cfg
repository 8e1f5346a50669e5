SPECIFICATION FairSpec
CONSTANTS
    Researchers = {a1}
    OnPrem = onprem
    NoOne = NoOne
    Requests = {1, 2}
    KeyOf <- TwoPages
    Reviews = {}
    Scenarios <- KilledRound
PROPERTIES
    ResultsFoldIn
