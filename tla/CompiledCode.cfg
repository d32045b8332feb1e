CONSTANTS
    Addr = {a1, a2}
    Cell = {1}
    Local = {"p", "x"}
    Param = {"p"}
    Undef = Undef
    Free = Free
    Exprs = {"Atom", "PrimCall", "NewRef", "ObjectSet", "Call"}
    MaxDepth = 2
SYMMETRY Symmetry
SPECIFICATION Spec
INVARIANT TypeOK
INVARIANT GcContract
INVARIANT NoDangling
INVARIANT ShadowMirrors
CHECK_DEADLOCK FALSE
