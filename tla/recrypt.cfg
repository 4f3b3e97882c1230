\* Two crashes or power failures, and tarsnap used twice, also by another
\* system.  Archives share a block; a batch is one block.
SPECIFICATION FairSpec
CONSTANTS
  c1 = c1
  c2 = c2
  c3 = c3
  Archives <- Both
  First <- One
  BatchLen = 1
  Retired = TRUE
  Pruned = {"old"}
  Interrupted = {"old"}
  MaxCrash = 2
  MaxRuns = 5
  MaxUse = 2
INVARIANTS NeverLost DirectoryFirst
PROPERTY Finishes
CHECK_DEADLOCK FALSE
