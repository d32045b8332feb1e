SPECIFICATION Spec
CONSTANTS
    Addr = {a1, a2}
    Static = {s1}
    None = None
    Size = 20
    Kinds <- FloatRefKinds
    MaxFrames = 1
    FrameSlots = 1
    LEN = 2
    Zero = 0
    Val = {0}
INVARIANT OomOnlyWhenFull
