CONSTANTS
  MaxInteger = 16
  Word = 256
  MaxCodePoint = 16
  IntWord = 4096
  RegExpInfinity = 100
SPECIFICATION Spec
CHECK_DEADLOCK FALSE
INVARIANTS
  LineBreakFlagIsExact
  StringEndsAtDelimiter
  IntegerIsNearest
  DocumentKeepsText
  TagsAreNotText
  AcceptsExactlyTypes
  PatternIsReadWhole
