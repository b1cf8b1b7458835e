SPECIFICATION Spec
CONSTANTS
    PageSize = 8
    NodeSize = 2
    MaxPages = 4
    Sizes = {2, 4}
    Alignments = {}
INVARIANT NeverFaults
