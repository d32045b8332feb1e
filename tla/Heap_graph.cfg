SPECIFICATION Spec
CONSTANTS
    Addr = {a1, a2, a3}
    Static = {}
    None = None
    Size = 32
    Kinds <- GraphKinds
    MaxFrames = 2
    FrameSlots = 1
    LEN = 3
    Zero = 0
    Val = {0}
SYMMETRY AddrSymmetry
INVARIANTS TypeOK NoDangling Accounting OomOnlyWhenFull F64OomOnlyWhenFull
PROPERTIES NoGarbageAfterGc GcAdvances
