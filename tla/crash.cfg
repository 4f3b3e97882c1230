\* One process at a time; crashes, power failures and lost replies at any step;
\* backups keep being made, and the server answers in the end.
CONSTANTS
    p1 = p1
    p2 = p2
    NoProc = NoProc
    Procs <- OneProc
    Ops = {"write", "delete", "fsck", "recover"}
    MaxSeq = 4
    MaxCkpt = 2
    MaxCrash = 2
    HardLinks = TRUE
    PowerFail = TRUE
    Foreign = FALSE
SPECIFICATION FairSpec
INVARIANTS TypeOK InSync NeverPartial CommitBacked NoAliasTruncated AckedCommitted NeverOutOfSequence AInv
PROPERTIES Atomic PendingResolved
