SPECIFICATION FairSpec
CONSTANTS
    i1 = i1
    i2 = i2
    a1 = a1
    a2 = a2
    t1 = t1
    t2 = t2
    Instances = {i1, i2}
    Shared = TRUE
    Articles = {a1, a2}
    Tenants = {t1, t2}
    TenantOf <- OneEach
    SlowSweeps = FALSE
    MaxSchedules = 2
    MaxCrashes = 1
    MaxErrors = 1
INVARIANTS
    OneSweepAtATime
    AnnouncedOncePerSchedule
PROPERTIES
    ScheduledIsPublished
CHECK_DEADLOCK FALSE
