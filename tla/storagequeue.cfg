\* Files that alone, together, or not at all fill the three bytes that may be
\* pending; two connections; up to five deletes, three of which may be pending.
SPECIFICATION FairSpec
CONSTANTS
  f1 = f1
  f2 = f2
  f3 = f3
  f4 = f4
  f5 = f5
  Jobs = {f1, f2, f3, f4, f5}
  NoJob = NoJob
  Sizes <- SizeOf
  MaxBytes = 3
  MaxDeletes = 3
  NumConns = 2
INVARIANTS FlushStored Window
PROPERTY Returns
CHECK_DEADLOCK FALSE
