CONSTANTS
    RevBits = 3
    UstateBits = 16
    NumArgs = {}
    NoNum = NoNum
    Kernels = {k1, k2}
    NoKernel = NoKernel
    UserKeys = {}
    Absent = Absent
    NoCrc = NoCrc
    NParts = 2
    Procs = {p1, p2}
    MaxRuns = 2
    InitRecs <- MC_InitRecs
    Locked = TRUE

SPECIFICATION Spec
CHECK_DEADLOCK FALSE
PROPERTY AutoUpdateKeepsLatest
PROPERTY ImplementsABStore
