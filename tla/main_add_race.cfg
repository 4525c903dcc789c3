\* A worker is added while a request creates a cold one for the same path.
SPECIFICATION Spec
CONSTANTS
    p1 = p1
    k1 = k1
    k2 = k2
    k3 = k3
    k4 = k4
    k5 = k5
    c1 = c1
    c2 = c2
    a1 = a1
    x1 = x1
    x2 = x2
    x3 = x3
    x4 = x4
    x5 = x5
    x6 = x6
    None = None
    Path = {p1}
    Worker = {k1, k2, k3, k4, k5}
    Call = {c1, c2}
    InitAdd = {}
    ApiAdd = {a1}
    MaxAdd = 1
    DefaultRestart = FALSE
    Usages <- OnlyAdding
    Array = {x1, x2, x3, x4, x5, x6}
INVARIANTS
    AddedWorkersPooled
