CONSTANTS
  Scenario <- MCPatterns
  MaxTokens = 4
SPECIFICATION Spec
CHECK_DEADLOCK FALSE
PROPERTIES
  SkipsWithinList
