\* A shutdown of worker w1 by the API, as often as it likes, beside its lifetime timer.
SPECIFICATION Spec
CONSTANTS
    w1 = w1
    w2 = w2
    stray = stray
    r1 = r1
    r2 = r2
    m1 = m1
    m2 = m2
    None = None
    Worker = {w1, w2}
    StrayKey = {}
    Request = {r1, r2}
    Main = {m1}
    ApiKeys = {w1}
    EndingMains = {}
    HangingRequests = {r1, r2}
    FragileRequests = {}
    PanicAborts = FALSE
    MaxInbox = 3
INVARIANTS
    PoolSurvives
