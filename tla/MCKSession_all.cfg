SPECIFICATION Spec
CONSTANTS
  Type <- Types
  Programs <- All
  Strings <- Typed
  Draws <- Dice
  MaxCommands = 2
  MaxKeys = 2
INVARIANTS
  ChoiceExclusive
  AnswerTaken
  SaveLoad
  DefconfigLoad
  AllAsked
PROPERTIES
  Ends
CHECK_DEADLOCK FALSE
