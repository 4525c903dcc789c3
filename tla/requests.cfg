\* A server with its connections, a main worker with its pools, or a body on its way.
SPECIFICATION FairSpec
CONSTANTS
    p1 = p1
    p2 = p2
    k1 = k1
    k2 = k2
    k3 = k3
    k4 = k4
    k5 = k5
    c1 = c1
    c2 = c2
    c3 = c3
    i1 = i1
    i2 = i2
    a1 = a1
    m1 = m1
    m2 = m2
    MainWorkers <- TwoWorkers
    Conn = {c1, c2, c3}
    MaxErrors = 1
    Path = {p1, p2}
    Worker = {k1, k2, k3, k4, k5}
    Call = {c1, c2}
    InitAdd = {i1, i2}
    ApiAdd = {a1}
    MaxAdd = 2
    DefaultRestart = FALSE
    Usages <- ThreeUsages
    Array = {x1, x2, x3, x4, x5, x6, x7, x8}
    Lengths = {0, 1, 2, 3}
    Framings = {"content-length", "chunked"}
    ClientMayGo = TRUE
    ReadsBody = TRUE
    ShutsDown = {TRUE, FALSE}
    Capacity = 1
    EndOfBody = EndOfBody
    None = None
INVARIANTS
    Balanced
    PoolKept
    BodyWhole
PROPERTIES
    ForwardedReturns
    CallsComplete
    SmallBodiesReturn
