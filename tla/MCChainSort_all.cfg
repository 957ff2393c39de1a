SPECIFICATION FairSpec
CONSTANTS
  a = a
  b = b
  c = c
  ghost = ghost
  Items = {a, b, c}
  Names = {a, b, c, ghost}
  Recipes <- AllRecipes
CHECK_DEADLOCK FALSE
INVARIANTS
  TypeOK
  InOrder
  NoFalseCircle
  FinallyLast
  MakeHasOrder
PROPERTIES
  Ends
