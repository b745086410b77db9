SPECIFICATION Spec
CONSTANTS
  N = 2
  Recipes <- Kinds
  Outcomes = {"killed"}
INVARIANT InstallsAllDependencies
