\* A --fsck-prune that runs out of memory; nothing else goes wrong.
SPECIFICATION Spec
CONSTANTS
  c1 = c1
  c2 = c2
  n1 = n1
  n2 = n2
  None = None
  Data = {c1, c2}
  Header = {c1}
  Cut = {c2}
  Name = {n1}
  MaxIndex = 2
  MaxRefs = 3
  MaxCkpt = 0
  IFrag = 2
  MaxFault = 0
  Oom = TRUE
INVARIANT PruneSparesReferenced
