CONSTANTS
  ClassNames = {"Object", "Array", "C", "D", "G", "I", "J", "L"}
  GenericArity <- MCGenericArity
  PrimitiveNames = {"number"}
  ParameterNames = {"T"}
  AliasNames = {"A"}
  Declarations <- MCDeclarations
  MoveKeepsKind = TRUE
  ArrayClass = "Array"
  ObjectClass = "Object"
  Interfaces = {"I", "J", "L"}
  Programs <- MCPrograms
SPECIFICATION Spec
CHECK_DEADLOCK FALSE
INVARIANTS
  OneTypePerMeaning
  OnlyMoveLosesKind
  ShorthandIsEquivalent
  HeritageIsWellFormed
  NonNullableExcludesNull
