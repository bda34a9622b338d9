CONSTANTS
  T1 = T1
  T2 = T2
  T3 = T3
  T4 = T4
  r0 = r0
  r1 = r1
  C = C
  Fixed = C
  Ranks <- MCRanks
  Leader = r0
  Types <- MCTypes
  KnownTypes <- MCKnownTypes
  Ids <- MCIds
  Positions <- MCPositions
  InputCounts <- MCInputCounts
  NoVec = NoVec
  NoMsg = NoMsg
  Objects <- MCObjects
  Templates <- MCTemplatesEmptyType
  NDEBUG = FALSE
  EXECUTES = {"batch_execute"}
  Queries <- MCQueries
  MaxCommands = 1
SPECIFICATION Spec
INVARIANT NoDivisionByZero
