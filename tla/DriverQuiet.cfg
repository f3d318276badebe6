CONSTANTS
    Calls = {c1}
    Targets = {t1}
    Sessions = {s1}
    HasViewport = FALSE
    Nil = Nil
SPECIFICATION HandlerFairSpec
PROPERTIES RequestsTimeOut
CHECK_DEADLOCK FALSE
