SPECIFICATION Spec
CONSTANTS
    Requests = {1, 2}
    Analysts = {a1, a2}
    OnPrem = onprem
    NoOne = NoOne
    Scenarios <- AllOfThem
SYMMETRY AnyAnalyst
INVARIANTS
    FreshClaimStands
    FoldedOnce
    EveryRequestIsAccountedFor
    DoneIsNotAskedAgain
PROPERTIES
    AnalysisStands
