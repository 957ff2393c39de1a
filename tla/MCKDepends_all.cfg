SPECIFICATION Spec
CONSTANTS
  Type <- Types
  Names <- SomeNames
  Leaves <- SomeLeaves
  FewLeaves <- ThirdLeaves
  LastLeaves <- FourthLeaves
  Valuations <- AllValuations
INVARIANTS
  SimplifyKeepsValue
  BoolKeepsTruth
  EqualMeansSame
  SubmenuImplies
CHECK_DEADLOCK FALSE
