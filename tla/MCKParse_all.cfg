SPECIFICATION Spec
CONSTANTS
  Type <- Types
  Statements <- Vocabulary
  Optional = {}
  ModulesSymbol = ""
  MaxEntries = 4
  Ascending <- Up
  Descending <- Down
  Answers <- SomeAnswers
INVARIANTS
  ConditionsAreStated
  RecursionFound
  OrderFree
  PromptsReachable
CHECK_DEADLOCK FALSE
