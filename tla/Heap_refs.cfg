SPECIFICATION FairSpec
CONSTANTS
    Addr = {a1, a2}
    Static = {s1}
    None = None
    Size = 24
    Kinds <- RefKinds
    MaxFrames = 1
    FrameSlots = 1
    LEN = 3
    Zero = 0
    Val = {0, 1}
INVARIANTS F64Intact F64InBounds WithinBudget
PROPERTIES ImplementsProgram GcTerminates
