\* Settings, menus, comments, revisions and the dashboard; plugins and themes, the rate
\* limits, the cache, the rules of access, the start and the life of servers, and
\* the trail of requests.  All who act in pairs are the same two model values, for one symmetry.
SPECIFICATION Spec
CONSTANTS
    SettingKeys = {1, 2}
    Defaults = {2}
    PublicKeys = {2}
    Savers = {u1, u2}
    SettingStores = {"postgres", "sqlite"}
    MaxSaves = 4
    MaxCuts = 1
    Menus = {m1}
    Places = {1}
    Arrangers = {u1, u2}
    MaxItems = 3
    MaxArranged = 4
    MaxMishaps = 1
    Threads = {a1, a2}
    Posters = {u1, u2}
    MaxComments = 2
    MaxJudgements = 2
    MaxGaps = 1
    Lookers = {u1, u2}
    WeekSpan = 1
    ChartDays = 1
    MaxDay = 2
    MaxViews = 2
    MaxPosts = 1
    MaxLooks = 2
    MaxMissed = 1
    Managers = {i1, i2}
    Operators = {u1, u2}
    Themes = {t1, t2}
    MaxSwitches = 3
    MaxBreaks = 1
    Keys = {a1}
    Limit = 2
    Minute = 2
    Stale = 3
    MaxClock = 8
    MaxCalls = 3
    Backends = {"memory", "redis"}
    Entries = {k1, k2, k3}
    CacheUsers = {u1, u2}
    MaxEntries = 2
    MaxTime = 1
    MaxValues = 3
    Processes = {u1, u2}
    Dialects = {"transactional", "mysql"}
    MaxBoots = 3
    MaxRollbacks = 1
    MaxDeaths = 1
    Editors = {u1, u2}
    Asked = {"public"}
    MaxEdits = 2
    MaxReads = 2
    MaxIndexErrors = 1
    RoleSets <- HeldByRoles
    TokenSets <- HeldByTokens
    Demands <- Demanded
    MaxMoves = 2
    MaxRuns = 1
    Servers = {u1, u2}
    Deployments <- Environments
    Scenes = {"jobs", "tokens", "reads"}
    MaxLaunches = 2
    MaxEvents = 2
    Callers = {u1, u2}
    MaxServed = 2
    MaxTroubles = 1
    MaxStock = 1
    Writers = {w1, w2}
    Privileged = {w1}
    Locales = {"en", "zh"}
    maxSlugAttempts = 3
    MaxStories = 3
    MaxWrites = 3
INVARIANTS SiteHolds RuntimeHolds StartHolds
SYMMETRY Symmetric
CHECK_DEADLOCK FALSE
