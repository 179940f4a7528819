CONSTANTS
    RevBits = 1
    UstateBits = 16
    NumArgs <- MC_NumArgs
    NoNum = NoNum
    Kernels = {}
    NoKernel = NoKernel
    UserKeys = {"x"}
    Absent = Absent
    NoCrc = NoCrc
    NParts = 1
    Args <- MC_ArgsJournal
    TooLong = TooLong
    NoFile = NoFile
    MaxJournal = 2
    InitRecs <- MC_InitRecs01
    InitFiles <- MC_InitFiles
    NamedStates = {2}
    EnvFiles = {BGENV}

SPECIFICATION Spec
INVARIANT TypeOK
INVARIANT JournalApplied

