SPECIFICATION SpecApi
CONSTANTS
    Frames = {f1, f2, f3}
    f1 = f1
    f2 = f2
    f3 = f3
    Null = Null
    ProcHead = ProcHead
    Boot = Boot
    KernelPML4 = KernelPML4
    Quantum = 2
    PidModulus = 4
    MaxSteps = 1
    FbMapped = FALSE
SYMMETRY FrameSymmetry
INVARIANT ContextKept
