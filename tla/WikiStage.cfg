SPECIFICATION FairSpec
CONSTANTS
    incident = incident
    log = log
    a1 = a1
    a2 = a2
    Pages <- MCPages
    Shared <- MCShared
    Operators = {a1}
    Stages = {s1}
    HandMarks = {h1}
    Touches <- MCTouches
    Torn = Torn
    NoWriter = NoWriter
    NoPage = NoPage
    HandsRace = FALSE
    LateFailure = FALSE
INVARIANTS
    NoStaleRevert
    NoOrphanDebris
    InterruptedRunIsAdopted
PROPERTIES
    Implements
    EveryWriterIsAnswered
    RollbackSparesStaged
    OperatorsSpareHands
\* Every writer has its answer and every hand edit was made: the system stops.
CHECK_DEADLOCK FALSE
