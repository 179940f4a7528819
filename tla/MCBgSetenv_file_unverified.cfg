CONSTANTS
    RevBits = 2
    UstateBits = 16
    NumArgs <- MC_NumArgs
    NoNum = NoNum
    Kernels = {k1}
    NoKernel = NoKernel
    UserKeys = {"x"}
    Absent = Absent
    NoCrc = NoCrc
    NParts = 1
    Args <- MC_ArgsEdge
    TooLong = TooLong
    NoFile = NoFile
    MaxJournal = 2
    InitRecs <- MC_InitRecs12
    InitFiles <- MC_InitFiles
    NamedStates = {2}
    EnvFiles = {BGENV}

SPECIFICATION Spec
INVARIANT FileBaselineVerified
