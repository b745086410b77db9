CONSTANT
  Keys <- MCKeys
  Calls <- SetCalls
  MaxLen = 5
SPECIFICATION Spec
INVARIANTS
  TypeOK
  StrictlySorted
  AnswerIsRight
PROPERTY CallsReturn
