SPECIFICATION Spec
CONSTANT Faults = {}
INVARIANT ExitIsClean
