CONSTANTS
    Torn = Torn
    MaxBlocks = 3
    MaxBacks = 2
SPECIFICATION Spec
INVARIANTS
    MirrorFollowsLog
    AnchoredBlocksAreSaved
PROPERTY
    AppendAnswers
