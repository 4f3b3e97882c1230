\* --fsck-prune was used on a half-filled new machine and has yet to commit.
SPECIFICATION Spec
CONSTANTS
  c1 = c1
  c2 = c2
  c3 = c3
  Archives <- Both
  First <- One
  BatchLen = 1
  Retired = TRUE
  Pruned = {"old", "new"}
  Interrupted = {}
  MaxCrash = 1
  MaxRuns = 2
  MaxUse = 1
INVARIANTS
  NeverLost
CHECK_DEADLOCK FALSE
