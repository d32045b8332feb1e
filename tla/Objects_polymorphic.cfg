SPECIFICATION Spec
CONSTANTS
    o1 = o1
    Obj = {o1, o2}
    x = x
    Proto = proto
    Name = {x, proto}
    Prim = {null}
    Undefined = Undefined
    None = None
    s1 = s1
    s2 = s2
    Sites = {s1, s2}
    SiteUse <- ReadAndWrite
    TagMod = 65536
    MaxClasses = 5
PROPERTY ReadsField
