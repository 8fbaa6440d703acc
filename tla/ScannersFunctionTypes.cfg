CONSTANTS
  MaxInteger = 16
  Word = 256
  MaxCodePoint = 16
  IntWord = 4096
  RegExpInfinity = 100
SPECIFICATION FunctionTypesSpec
CHECK_DEADLOCK FALSE
INVARIANT FunctionTypesAreAccepted
