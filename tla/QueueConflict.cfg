SPECIFICATION Spec
CONSTANTS
    Requests = {1, 2}
    Analysts = {a1}
    OnPrem = onprem
    NoOne = NoOne
    Scenarios <- Race
INVARIANTS
    OnlyReportsConflict
