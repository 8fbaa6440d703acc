CONSTANTS
  A = A  B = B  C = C  D = D  G = G  H = H  T = T  U = U  N = N
  NormalClass <- MCNormalClasses
  GenericClass <- MCNothing
  TypeParameter <- MCNothing
  PlainType <- MCNothing
  ParametersOf <- MCNoParameters
  HeritageChoices <- MCNormalHeritage
  ReferenceChoices <- MCNothing
  MaxClassList = 4
SPECIFICATION Spec
SYMMETRY Symmetry
CHECK_DEADLOCK FALSE
INVARIANTS
  EdgesTrackPendingBases
  SuccessorCopyNeverStale
  ClassListIsBreadthFirst
  UndefinedBasesReportedExactly
  EveryCycleStepReported
PROPERTIES
  ImplementsHierarchy
