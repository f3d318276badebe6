\* Deadlines fire and ready selects are polled: permits come back.
SPECIFICATION FairSpec
CONSTANTS
    Logins = {l1, l2}
    Platforms = {p1}
    ChromeSlots = 1
    MaxPendingLogins = 0
    MaxPermits = 100
    MaxErrors = 1
    Rechecks = 1
    MaxCrashes = 1
INVARIANTS
    PermitsHeldByRunningTasks
PROPERTIES
    PermitsReturn
CHECK_DEADLOCK FALSE
