CONSTANT
  None = None
  Names <- MCNames
  Packages <- MCPackages
  Dependencies <- MCDependencies
  MaxConstraints = 2
SPECIFICATION Spec
INVARIANTS
  IndicesInRange
  SortedByName
PROPERTY ImplementsNameGraph
CHECK_DEADLOCK FALSE
