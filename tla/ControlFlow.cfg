CONSTANT Programs <- MCPrograms
CONSTANT WellTyped <- well_typed
CONSTANT Compiled <- compiled
SPECIFICATION Spec
INVARIANT SameEvents
INVARIANT FrameBalance
INVARIANT Validates
PROPERTY Progress
CHECK_DEADLOCK FALSE
