CONSTANTS
    FrameIds = {m, a, b}
    Contexts = {x1}
    Navs = {n1, n2}
    MaxLoader = 2
    Requests = {r1}
    MaxHops = 3
    MaxQueue = 2
    Calls = {c1, c2}
    Targets = {t1}
    Sessions = {s1, s2}
    HasViewport = FALSE
    None = None
    Nil = Nil
    Subscribers = {1, 2, 3}
    CustomTypes = {ta, tb}
    MaxEvents = 2
    Users = {1, 2}
    MaxDocs = 2
    MaxOps = 2
SPECIFICATION MCSpec
INVARIANTS FrameTree ContextsForgotten GotoWaitsForItsDocument RequestsPaired
    SessionReachesTarget GotoNeedsBothHalves OperationsCleanUp
PROPERTIES CallsEnd EachGetsItsEvents
CHECK_DEADLOCK FALSE
