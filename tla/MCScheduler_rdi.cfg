SPECIFICATION Spec
CONSTANTS
    Frames = {f1, f2}
    f1 = f1
    f2 = f2
    Null = Null
    ProcHead = ProcHead
    Boot = Boot
    KernelPML4 = KernelPML4
    Quantum = 2
    PidModulus = 5
    MaxSteps = 1
    FbMapped = FALSE
PROPERTY RdiSaved
