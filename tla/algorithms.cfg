CONSTANTS
    MaxHash = 3
    MaxLogLength = 3
    LaneBits = 2
    MaxDim = 5
    Blank = Blank
    Unset = Unset
    MaxEntries = 2
SPECIFICATION Spec
INVARIANTS
    KeptBlocksFormAChain
    KeptBlocksAreTheGreedyChain
    MergesFlipBits
    PositionsMoveTogether
    TokensMeanTheSame
PROPERTY
    KeptBlocksStay
CHECK_DEADLOCK FALSE
