SPECIFICATION Spec
CONSTANTS
  N = 2
  Recipes <- Kinds
  Outcomes = {"fails", "killed", "crash", "page"}
INVARIANT TypeOK
INVARIANT SuccessMeansInstalled
INVARIANT DependenciesFirst
INVARIANT FailureIsExplained
PROPERTY EventuallyInstalled
