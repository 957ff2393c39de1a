SPECIFICATION FairSpec
CONSTANTS
  w1 = w1
  Workspaces = {w1}
  Versions = {1, 2, 3}
  Mirror = {2, 3}
  Faults = {}
  Absent = Absent
INVARIANTS
  TypeOK
  SoundImage
PROPERTIES
  KeepsPromise
