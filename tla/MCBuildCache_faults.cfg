SPECIFICATION Spec
CONSTANTS
  w1 = w1
  w2 = w2
  Workspaces = {w1, w2}
  Versions = {1, 2}
  Mirror = {1}
  Faults = {"kill", "install", "curl", "tar", "sum"}
  Absent = Absent
SYMMETRY Symmetry
INVARIANTS
  TrueNames
  OnlyTornIsPartial
  ForceHonoured
