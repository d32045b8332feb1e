SPECIFICATION Spec
CONSTANTS
    BaseTypes <- MCBaseTypes
    FunctionTypes <- MCFunctionTypes
    Programs <- MCPrograms
INVARIANTS
    TypeOK
    SameMeaning
    TypeChecks
    Compiles
    Closed
    NamesAreFresh
    ANormal
    EnvTyped
    DataApart
CHECK_DEADLOCK FALSE
