SPECIFICATION Spec
CONSTANTS
    Fanout = 5
    FourGiB = 30
    Layouts <- MCLayouts
    MaxSpaces = 2
    NoPage = NoPage
INVARIANT WritesTablesOnly
