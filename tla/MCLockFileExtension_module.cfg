SPECIFICATION Spec
CONSTANTS
  Workspaces <- OneModule
  MaxPasses = 4
  Normalized <- Plus
INVARIANTS ClosureComplete
