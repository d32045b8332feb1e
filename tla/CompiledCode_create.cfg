CONSTANTS
    Addr = {a1, a2}
    Cell = {1}
    Local = {"p", "x"}
    Param = {"p"}
    Undef = Undef
    Free = Free
    Exprs = {"Atom", "PrimCall", "NewRef", "ObjectSet", "Call", "ObjectEmpty", "Plus", "Closure"}
    MaxDepth = 2
SYMMETRY Symmetry
SPECIFICATION Spec
INVARIANT GcContract
CHECK_DEADLOCK FALSE
