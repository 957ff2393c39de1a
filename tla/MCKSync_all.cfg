SPECIFICATION Spec
CONSTANTS
  Symbols = {"a", "b"}
  Values = {"y"}
  No = "n"
  Defaults <- OneOn
  Defs <- TwoDefs
  Absent = Absent
  MaxTime = 4
  MaxRuns = 3
  MaxBreaks = 1
INVARIANTS
  ObjectsFollow
  ConfigKept
  HeaderCurrent
