CONSTANT
  Names <- MCNames
  LastLetter <- MCLastLetter
  MaxText <- MCMaxText
  Texts <- MCTexts
  Worlds <- MCWorlds
SPECIFICATION Spec
INVARIANTS
  RepositoryTypeOK
  ComponentsAreRuns
  CacheIsTrue
PROPERTIES
  ImplementsCatalog
  HandedOutStays
  AsksAreAnswered
CHECK_DEADLOCK FALSE
