\* Archives of up to four units and the end marker; chunks of a
\* file have two or three, so a file can have a trailer of one.
SPECIFICATION Spec
CONSTANTS
  MinChunk = 2
  MinCut = 2
  MaxChunk = 3
  Cuts = {1}
  MaxUnits = 4
  MaxCkpt = 1
INVARIANTS
  RoundTrip
  NoFault
  WholeRead
CHECK_DEADLOCK FALSE
