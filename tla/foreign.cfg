\* Two commands at a time, and other machines with the same keys; a file system
\* without hard links.
CONSTANTS
    p1 = p1
    p2 = p2
    NoProc = NoProc
    Procs <- TwoProcs
    Ops = {"write", "fsck", "nuke"}
    MaxSeq = 3
    MaxCkpt = 1
    MaxCrash = 1
    HardLinks = FALSE
    PowerFail = FALSE
    Foreign = TRUE
SPECIFICATION Spec
INVARIANT IInv
SYMMETRY Symmetry
