CONSTANT
  Names <- MCNames
  Depth <- MCDepth
  Keys <- MCKeys
  ResolvedGraphs <- MCGraphs
  Scenarios <- MCScenarios
SPECIFICATION CommandSpec
INVARIANTS
  CommandTypeOK
  OnlyCyclesOutOfOrder
  ListsEachOnce
  ProjectIsNearest
  DefinesAgree
  OuterDefinesWin
  BuildsWithNeeded
PROPERTY CommandEnds
CHECK_DEADLOCK FALSE
