SPECIFICATION MCSpec
CONSTANTS
    Procs = {1, 2, 3, 4, 5, 6, 7}
    n1 = n1
    n2 = n2
    Names = {n1, n2}
    Filename <- MCFilename
    MaxRequests = 3
    MaxShorts = 1
    MaxExecErrs = 2
    MaxKills = 1
INVARIANTS
    TypeOK
    OneRuns
    RecordedIsStored
    AnsweredOnce
    CopiesRemoved
    ForkInv
PROPERTIES
    EachAnswered
    Ready
