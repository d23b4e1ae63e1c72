SPECIFICATION Spec
CONSTANTS
  None = None
  Many = 22
  Names <- MCNames
  Versions <- MCVersions
  Vars <- MCVars
  Problems <- MCProblems
INVARIANTS SolvesWholeProblem HandedOver
PROPERTY Ends
CHECK_DEADLOCK FALSE
