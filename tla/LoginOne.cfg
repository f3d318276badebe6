\* One login with the constants of the source.  The only fairness is that of
\* CancelSpec, in which no deadline need fire.
SPECIFICATION CancelSpec
CONSTANTS
    Logins = {l1}
    Platforms = {p1}
    ChromeSlots = 1
    MaxPendingLogins = 0
    MaxPermits = 100
    MaxErrors = 3
    Rechecks = 5
    MaxCrashes = 1
INVARIANTS
    ConnectedRowHasCookies
    OnlySaveTimeoutTears
    ReportedConnectedIsDurable
    EndsWithFinalEvent
PROPERTIES
    CancelledStays
    StreamFollowsProtocol
    ImplementsLifecycle
    CancelStopsTask
CHECK_DEADLOCK FALSE
