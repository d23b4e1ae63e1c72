SPECIFICATION Spec
CONSTANTS
  Dirs <- MCDirs
  Names <- MCNames
  Inputs <- MCInputs
INVARIANTS ListSound LinksComplete DirectComplete
PROPERTY Ends
CHECK_DEADLOCK FALSE
