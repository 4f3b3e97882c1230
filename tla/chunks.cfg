\* Two archives of at most two references to file data, two checkpoints in
\* each write, one lost file or transaction of another machine.
SPECIFICATION Spec
CONSTANTS
  c1 = c1
  c2 = c2
  n1 = n1
  n2 = n2
  None = None
  Data = {c1, c2}
  Header = {c1}
  Cut = {c2}
  Name = {n1, n2}
  MaxIndex = 2
  MaxRefs = 2
  MaxCkpt = 2
  IFrag = 2
  MaxFault = 1
  Oom = FALSE
SYMMETRY Names
INVARIANTS
  NoUnderflow
  RefsExact
  ExtraExact
  NoDangling
  NoOrphans
  TableExact
  DeleteProceeds
PROPERTIES
  StaysComplete
