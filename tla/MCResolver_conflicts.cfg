SPECIFICATION Spec
CONSTANT Inputs <- MCInputs
INVARIANT ConflictsRespected
