CONSTANT Programs <- ThrowPrograms
CONSTANT WellTyped <- well_typed
CONSTANT Compiled <- compiled
SPECIFICATION Spec
INVARIANT Validates
CHECK_DEADLOCK FALSE
