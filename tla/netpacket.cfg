\* Two simple operations and two with a second request; two connections lost in a row
\* are allowed, one if there never was a connection, and a third can be lost.
SPECIFICATION FairSpec
CONSTANTS
  s1 = s1
  s2 = s2
  d1 = d1
  d2 = d2
  Op = {s1, s2, d1, d2}
  Double = {d1, d2}
  MaxReconnects = 2
  MaxAwol = 1
  MaxDrops = 3
INVARIANTS
  WaitsInTable
  InOrder
  ReadPending
  OwnAnswer
PROPERTIES
  ExactlyOnce
  Answered
CHECK_DEADLOCK FALSE
