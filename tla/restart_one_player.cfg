CONSTANTS
    Players = {p1}
    Claims = {c1, c2}
    Achievements = {a1}
    Entitlements = {e1}
    Dims = {8, 16}
    DefaultDim = 8
    Bits = {1}
    None = None
    Faults = {"sync"}
    MaxBlocks = 3
SPECIFICATION Spec
SYMMETRY Symmetry
INVARIANTS
    AckedBlocksAreRestorable
    AcceptedClaimsAreKept
PROPERTY
    RestartIsInvisible
