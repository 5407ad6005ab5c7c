CONSTANTS
    Players = {p1, p2}
    Claims = {c1}
    Achievements = {a1}
    Entitlements = {}
    Dims = {8}
    DefaultDim = 8
    Bits = {}
    None = None
    Faults = {}
    MaxBlocks = 2
SPECIFICATION Spec
INVARIANT
    AckedBlocksAreRestorable
