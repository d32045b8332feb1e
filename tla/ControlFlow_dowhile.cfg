CONSTANT Programs <- DoWhilePrograms
CONSTANT WellTyped <- well_typed
CONSTANT Compiled <- compiled
SPECIFICATION Spec
INVARIANT SameEvents
CHECK_DEADLOCK FALSE
