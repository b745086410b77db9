CONSTANT
  None = None
  Names <- MCNames
  Worlds <- AllWorlds
SPECIFICATION Spec
INVARIANTS
  TypeOK
  SearchStaysSound
  PlainSuccessIsSound
  ConflictIsComplete
  SuccessIsNewest
  ReportIsGenuine
PROPERTIES
  TriedGetsOlder
  Terminates
CHECK_DEADLOCK FALSE
