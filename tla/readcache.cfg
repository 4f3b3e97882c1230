\* Three files of four bytes in all, and two limits; two reads at
\* a time.
SPECIFICATION Spec
CONSTANTS
  f1 = f1
  f2 = f2
  f3 = f3
  NULL = NULL
  Files = {f1, f2, f3}
  Length <- Lengths
  Limits = {0, 2}
  MaxReads = 2
INVARIANTS LRUOrder Accounted Served
SYMMETRY Alike
CHECK_DEADLOCK FALSE
