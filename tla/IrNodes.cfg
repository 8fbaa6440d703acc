CONSTANTS
  NaN = NaN
  MinusZero = MinusZero
  Zero = Zero
  Float64s <- MCFloat64s
  Int64s = {1}
  Strings = {"abc"}
  MemberTypes = {"Bool", "Control", "Int64"}
  Widths = {0, 2}
  RepeatedWidths = {3, 7, 8}
  MaxTypes = 2
  MaxMade = 4
SPECIFICATION Spec
CHECK_DEADLOCK FALSE
INVARIANTS
  UseListsMatchInputs
  CallsReturnWhatWasAsked
  OnlyWideOrSharedTuplesFail
