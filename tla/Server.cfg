SPECIFICATION MCSpec
CONSTANTS
    Platforms <- MCPlatforms
    Slots <- MCSlots
    Legacy <- MCLegacy
    Batches <- MCBatches
    Domains <- MCDomains
    Calls = {c1, c2}
    Ops = {"get", "status", "update", "login"}
    EncKeys = {k1, k2}
    Absent = Absent
    MaxTime = 2
    MaxRestarts = 1
    Files <- MCFiles
    Envs <- MCEnvs
    ApiKeys <- MCApiKeys
    Requests <- MCRequests
    GoodPaths = {"cert", "key"}
    Rpcs = {r1, r2, r3}
    Uses <- MCUses
    Nobody = Nobody
    Scripts = {s1, s2}
    MaxPoints = 3
SYMMETRY MCSymmetry
INVARIANTS LoginLeavesSession ServesAsConfigured CredentialsAreCurrent
    RecordIsWhole
PROPERTY ImplementsJar
CHECK_DEADLOCK FALSE
