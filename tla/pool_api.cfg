\* The HTTP API may shut down worker w1 or name a key no worker has; main worker m2 may end;
\* r1 may fail by itself; a panic takes the whole process down (release profile).
SPECIFICATION Spec
CONSTANTS
    w1 = w1
    w2 = w2
    stray = stray
    r1 = r1
    r2 = r2
    m1 = m1
    m2 = m2
    None = None
    Worker = {w1, w2}
    StrayKey = {stray}
    Request = {r1, r2}
    Main = {m1, m2}
    ApiKeys = {w1, stray}
    EndingMains = {m2}
    HangingRequests = {r1, r2}
    FragileRequests = {r1}
    PanicAborts = TRUE
    MaxInbox = 1
INVARIANTS
    FailureIsolated
PROPERTIES
    ImplementsUserWorkers
