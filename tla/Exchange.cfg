SPECIFICATION Spec
CONSTANTS
    Researchers = {a1, a2}
    OnPrem = onprem
    NoOne = NoOne
    Requests = {1, 2, 3}
    KeyOf <- OneOfEach
    Reviews = {"oracle-docs"}
    Scenarios <- FaultsAndRaces
SYMMETRY AnyResearcher
INVARIANTS
    FreshClaimStands
    AttemptsAreRuns
    OneRequestInFlight
    EveryRequestIsAccountedFor
