SPECIFICATION Spec
CONSTANTS
  w1 = w1
  w2 = w2
  Workspaces = {w1, w2}
  Versions = {1, 2}
  Mirror = {}
  Faults = {}
  Absent = Absent
INVARIANTS
  SoundImage
