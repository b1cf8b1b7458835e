CONSTANTS
    Machines <- MCMachines
    BlockSize = 4
    Base = 2
    Digits = 5
    PageSize = 17
    NodeSize = 2
    FileNodeSize = 3
    HeapPages = 9
    DevicesPerBus = 2
    FunctionsPerDevice = 2
    Uint32 = 1024
    NoAPIC = NoAPIC
    Word = 4
    Address <- MCAddress
    FirmwareMasks <- MCMasks
SPECIFICATION Spec
INVARIANTS
    HandlersReady
    EveryFunctionOnce
    ListsArchive
    ReadsLatest
PROPERTIES
    BootEnds
    BootCompletes
    TicksGoOn
