SPECIFICATION Spec
CONSTANTS
    PageSize = 8
    NodeSize = 2
    MaxPages = 9
    Sizes = {8}
    Alignments = {}
PROPERTY PanicsOnlyWhenLow
