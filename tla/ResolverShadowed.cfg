CONSTANT
  None = None
  Names <- MCNames
  Worlds <- ShadowedWorlds
SPECIFICATION Spec
INVARIANT SuccessIsSound
CHECK_DEADLOCK FALSE
