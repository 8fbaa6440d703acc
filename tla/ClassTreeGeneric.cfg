CONSTANTS
  A = A  B = B  C = C  D = D  G = G  H = H  T = T  U = U  N = N
  NormalClass <- MCOneClass
  GenericClass <- MCGenericClasses
  TypeParameter = {T, U}
  PlainType = {N}
  ParametersOf <- MCParameters
  HeritageChoices <- MCGenericHeritage
  ReferenceChoices <- MCReferences
  MaxClassList = 4
SPECIFICATION FairSpec
CHECK_DEADLOCK FALSE
INVARIANTS
  NamedClassesAreFinalized
  ConstructedAfterGeneric
  BareGenericsAreInherited
PROPERTIES
  FinalizeClassReturns
  BuildReturns
