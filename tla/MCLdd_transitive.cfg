SPECIFICATION Spec
CONSTANTS
  Dirs <- MCDirs
  Names <- MCNames
  Inputs <- MCInputs
INVARIANT TransitiveComplete
CHECK_DEADLOCK FALSE
