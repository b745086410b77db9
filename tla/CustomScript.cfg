SPECIFICATION Spec
CONSTANTS
  N = 2
  Recipes <- WithCommands
  Outcomes = {}
INVARIANT CustomScriptsBuildTheirPackage
