SPECIFICATION Spec
CONSTANTS
    BaseTypes <- MCBaseTypes
    FunctionTypes <- MCFunctionTypes
    Programs <- Counters
INVARIANT SameMeaning
CHECK_DEADLOCK FALSE
