SPECIFICATION Spec
CONSTANT Inputs <- MCInputs
INVARIANTS InstallComplete LockFileSound DependenciesSuffice NewestByDefault NoNeedlessDowngrade ReductionLosesNothing
