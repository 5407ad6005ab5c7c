CONSTANTS
    Callers = {t1, t2}
    Claims = {c1, c2}
    Torn = Torn
    None = None
    MaxBlocks = 3
    MaxUnflushed = 2
SPECIFICATION Spec
INVARIANTS
    AckedBlocksAreRead
    HeadNeverLeads
PROPERTY
    StorageFollowsContract
