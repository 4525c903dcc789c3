\* A database, an emit cache, a file fetcher, a cached response or an incremental cache.
SPECIFICATION FairCachesSpec
CONSTANTS
    h1 = h1
    h2 = h2
    h3 = h3
    k1 = k1
    k2 = k2
    s1 = s1
    s2 = s2
    v1 = v1
    v2 = v2
    l1 = l1
    l2 = l2
    l3 = l3
    c1 = c1
    c2 = c2
    c3 = c3
    ua = ua
    ub = ub
    uc = uc
    b1 = b1
    b2 = b2
    e1 = e1
    e2 = e2
    None = None
    Handle = {h1, h2, h3}
    Version = {v1, v2}
    VersionOf <- TwoReleases
    Overlap = FALSE
    Job = {j1, j2}
    Key = {k1, k2}
    Source = {s1, s2}
    Wanted <- OneText
    Earlier = {s2}
    Tables <- TwoTables
    Policies = {"InMemory", "Blackhole"}
    Inode = {n1, n2, n3}
    MaxErrors = 1
    Emitter = {l1, l2, l3}
    EmitterVersion <- Releases
    Code = {c1, c2, c3}
    Transpile <- Transpilers
    NoFile = NoFile
    Loader = {l1, l2}
    Settings <- TwoSettings
    Url = {ua, ub, uc}
    Root = {ua, uc}
    Served <- Answers
    MaxRedirects = 1
    Faults = TRUE
    Body = {b1, b2}
    Etag = {e1, e2}
    Empty = Empty
    Responses <- SomeResponses
    Times = {3, 5, 6, 21, 23}
    MaxSecs = 30
    Program = {p1, p2}
    File = {f1}
    State = {s1, s2}
    Text = {t1, t2}
    Big = {t2}
    MaxSent = 2
    MaxWaits = 2
INVARIANTS
    TypeOK
    FileOfOneVersion
    AnalysisCorrect
    EmitCorrect
    FetchSound
    ReuseJustified
PROPERTIES
    AnalysesReturn
    FetchesReturn
    ReloadIsFresh
    FreshnessFades
