SPECIFICATION RulesSpec
CONSTANTS
  Texts <- AllTexts
  MaxStr = 3
  Strict = FALSE
INVARIANTS
  TypeOK
  NoTokenLost
  MainAsDirected
PROPERTIES
  ImplementsTokenStream
CHECK_DEADLOCK FALSE
