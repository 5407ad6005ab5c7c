CONSTANTS
    Players = {p1}
    Claims = {c1, c2}
    Achievements = {a1}
    Entitlements = {}
    Dims = {8}
    DefaultDim = 8
    Bits = {}
    None = None
    Faults = {"write", "torn", "sync", "save"}
    MaxBlocks = 3
SPECIFICATION Spec
VIEW WithoutAnswers
INVARIANTS
    AtMostOneAward
    AwardsFollowPromotion
    NotedAwardIsLogged
PROPERTY
    ClaimsFollowLifecycle
