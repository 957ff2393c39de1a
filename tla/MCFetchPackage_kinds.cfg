SPECIFICATION Spec
CONSTANTS
  w1 = w1
  w2 = w2
  Workspaces = {w1, w2}
  Versions = {1, 2}
  Settings <- AllKinds
  Absent = Absent
  Empty = Empty
SYMMETRY Symmetry
INVARIANTS
  TypeOK
  HashedIsWhole
  DoneIsWhole
  DoneIsWanted
  RetryHeals
