\* A session, a guard and a tenant, two requests at a time each.
SPECIFICATION Spec
CONSTANTS
    Instances = {i1, i2}
    Shared = TRUE
    Callers = {c1, c2}
    Tenants = {1, 2}
    DefaultTenant = 1
    MaxPairs = 3
    MaxCalls = 2
    MaxChanges = 1
    MaxFaults = 1
    Guards = {g1, g2}
    maxAttempts = 2
    windowDuration = 2
    lockDuration = 2
    MaxTime = 4
    MaxPending = 1
    MaxFailures = 2
    MaxErrors = 1
    Users = {u1, u2}
    Managers = {m1, m2}
    MaxOrders = 3
    MaxMishaps = 1
    Devices = {c1, c2}
    BatchCodes = 2
    MaxVisits = 5
    Staff = {u1, u2}
    Seeded = u1
    CustomRoles = {r1}
    Desks = {m1, m2}
    MaxTasks = 3
    MaxSetbacks = 1
INVARIANTS TypeOK SingleUse LogoutHolds GrantsFollowRows BlockedTokensAreAccountedFor
INVARIANTS LocksFollowFailures TrailExplainsRoster FactorHolds RolesHold
PROPERTY OrphanedOnlyByDemotionOrRace
SYMMETRY Symmetric
CHECK_DEADLOCK FALSE
