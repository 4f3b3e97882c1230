\* A backup and a --recover at the same time: --recover takes no lock.
CONSTANTS
    p1 = p1
    p2 = p2
    NoProc = NoProc
    Procs <- TwoProcs
    Ops = {"write", "recover"}
    MaxSeq = 2
    MaxCkpt = 2
    MaxCrash = 0
    HardLinks = TRUE
    PowerFail = FALSE
    Foreign = FALSE
SPECIFICATION Spec
INVARIANT InSyncAtRest
