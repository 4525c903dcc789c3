\* Two workers, two requests, one main worker; lifetimes are the only reason for a
\* shutdown, and handlers answer.  A panic unwinds and costs its own task or thread (dev profile).
SPECIFICATION FairSpec
CONSTANTS
    w1 = w1
    w2 = w2
    stray = stray
    r1 = r1
    r2 = r2
    m1 = m1
    m2 = m2
    None = None
    Worker = {w1, w2}
    StrayKey = {}
    Request = {r1, r2}
    Main = {m1}
    ApiKeys = {}
    EndingMains = {}
    HangingRequests = {}
    FragileRequests = {r1}
    PanicAborts = FALSE
    MaxInbox = 3
INVARIANTS
    TypeOK
    GracefulStop
    PoolNeverPanics
    RefusedOnlyAfterShutdown
    NoPrematureTermination
PROPERTIES
    ImplementsUserWorkers
    RequestsResolve
    LifetimeEnforced
