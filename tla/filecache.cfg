\* One file of one or three units, a chunk and a trailer; a change of it within
\* three seconds, a read of it that fails, and two backups.
SPECIFICATION Spec
CONSTANTS
  a = a
  b = b
  Fill = Fill
  Value = {a, b}
  ChunkLen = 2
  Lengths = {1, 3}
  MaxAge = 0
  MaxTime = 3
  MaxWrites = 1
  MaxFails = 1
  MaxBackups = 2
SYMMETRY Values
INVARIANTS
  Exact
  NoProgrammerError
  Remembered
CHECK_DEADLOCK FALSE
