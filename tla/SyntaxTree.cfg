CONSTANTS
  Scripts <- MCScripts
  Texts <- MCTexts
  Numbers = {0, 1, 2, NaN}
  NaN = NaN
  MaxList = 2
SPECIFICATION Spec
CHECK_DEADLOCK FALSE
INVARIANTS
  ArgumentsAreReadBack
  NumbersKeepTheirValue
  NamesAreTokenKinds
  WalkIsPreOrder
