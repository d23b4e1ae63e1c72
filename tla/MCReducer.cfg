SPECIFICATION Spec
CONSTANT Inputs <- MCInputs
INVARIANTS TypeOK RequirementsSurvive NothingUnneeded PinnedHonoured BestRepository MapOrderIrrelevant
PROPERTIES NeverRebound Terminates AbsSpec
