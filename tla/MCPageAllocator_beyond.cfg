SPECIFICATION Spec
CONSTANTS
    Callers = {c1, c2}
    Masked = {c1, c2}
    c1 = c1
    c2 = c2
    Nobody = Nobody
    MemMaps <- MCMemMaps
    PageSize = 4
    EntrySize = 1
INVARIANT FramesUsable
