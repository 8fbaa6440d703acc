CONSTANTS
  Scenario <- MCTextsAndSentences
  MaxTokens = 3
  MaxSentence = 5
SPECIFICATION SentencesFairSpec
CHECK_DEADLOCK FALSE
INVARIANTS
  FlagIsOfPeekedToken
  OperandsBindTighter
  AcceptsExactlySentences
PROPERTIES
  ParserReturns
  OpenBracketIsReported
