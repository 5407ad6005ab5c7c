CONSTANTS
    Players = {p1, p2}
    Claims = {c1}
    Achievements = {a1}
    Entitlements = {e1}
    Dims = {8}
    DefaultDim = 8
    Bits = {}
    None = None
    Faults = {"open", "torn", "sync"}
    MaxBlocks = 4
SPECIFICATION Spec
SYMMETRY Symmetry
VIEW WithoutAnswers
INVARIANTS
    TypeOK
    LedgerIsValid
    OneVerifiableLog
    MemoryMatchesLedger
