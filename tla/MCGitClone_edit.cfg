SPECIFICATION Spec
CONSTANTS
  Branches = {"main", "dev"}
  Default = "main"
  Commits = {1, 2, 3}
  History <- Fork
  Own = Own
  Annotated = {2}
  Recipes <- AnyRecipe
  None = None
INVARIANTS
  SecondRunPins
  BranchFetched
PROPERTIES
  FailsForCause
