SPECIFICATION Spec
CONSTANTS
  Workspaces <- SmallWorkspaces
  MaxPasses = 4
  Normalized <- Plus
INVARIANTS ClosureComplete RepositoriesSound
