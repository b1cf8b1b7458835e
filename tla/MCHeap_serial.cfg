SPECIFICATION Spec
CONSTANTS
    PageSize = 8
    NodeSize = 2
    MaxPages = 6
    Sizes = {3, 7, 13}
    Alignments = {8}
INVARIANTS
    BlocksApart
    KeepsToOwnPages
    BytesKept
PROPERTY CombinedNeverStrays
