CONSTANT
  None = None
  Names <- MCNames
  Worlds <- SearchWorlds
SPECIFICATION Spec
INVARIANT ConflictReportIsTrue
CHECK_DEADLOCK FALSE
