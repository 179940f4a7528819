CONSTANTS
    RevBits = 2
    UstateBits = 16
    NumArgs = {1, 2}
    NoNum = NoNum
    Kernels = {}
    NoKernel = NoKernel
    UserKeys = {}
    Absent = Absent
    NoCrc = NoCrc
    NParts = 2
    Args <- MC_PartArgs
    NoFile = NoFile
    InitRecs <- MC_InitRecs
    InitFiles <- MC_InitFiles
    EnvFiles = {ENVFILE}

SPECIFICATION Spec
INVARIANT FailureReported
