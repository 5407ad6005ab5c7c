CONSTANTS
    q1 = q1
    q2 = q2
    q3 = q3
    Requests = {q1, q2, q3}
    Workloads <- MCWorkloads
    Config <- MCConfig
    Sessions <- MCSessions
    Players = {"p1", "p2"}
    Profiled = {"p1"}
    Claims = {"c"}
    Defined <- MCDefined
    DefaultDim = 8
    ConceptDim <- MCConceptDim
    None = None
    Blank = Blank
    Unset = Unset
    Faults = {"append", "save", "registry", "lost"}
    MaxAttempts <- MCMaxAttempts
SPECIFICATION Spec
INVARIANTS
    DecisionsAgree
    PromotionsAreWhole
    SnapshotStillHolds
    ReceiptsAreOwn
    ChangesAreAuthorized
PROPERTY
    EveryRequestIsAnswered
