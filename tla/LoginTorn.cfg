\* Expected violation: a commit that lands after the rechecks gave up.
SPECIFICATION Spec
CONSTANTS
    Logins = {l1}
    Platforms = {p1}
    ChromeSlots = 1
    MaxPendingLogins = 0
    MaxPermits = 100
    MaxErrors = 3
    Rechecks = 5
    MaxCrashes = 0
INVARIANTS
    NoCookiesUnderFailedSession
CHECK_DEADLOCK FALSE
