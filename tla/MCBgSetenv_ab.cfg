CONSTANTS
    RevBits = 2
    UstateBits = 16
    NumArgs <- MC_NumArgs
    NoNum = NoNum
    Kernels = {k1}
    NoKernel = NoKernel
    UserKeys = {}
    Absent = Absent
    NoCrc = NoCrc
    NParts = 2
    Args <- MC_ArgsAB
    TooLong = TooLong
    NoFile = NoFile
    MaxJournal = 1
    InitRecs <- MC_InitRecs12
    InitFiles = {NoFile}
    NamedStates = {2}
    EnvFiles = {}

SPECIFICATION Spec
INVARIANT TargetAsRequested
PROPERTY AutoUpdateKeepsFallback

PROPERTY RunEnds
