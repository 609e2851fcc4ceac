\* Two requests over one content type; the search indexes of three
\* articles, the first of another tenant and the second a page.
SPECIFICATION Spec
CONSTANTS
    Clients = {c1, c2}
    Caches = {k1, k2}
    Fields = {"title"}
    Locales = {"en", "zh"}
    DefaultLocale = "en"
    MaxTypes = 2
    MaxEntries = 3
    MaxRequests = 3
    MaxFaults = 1
    Docs = {1, 2, 3}
    Pages = {2}
    Tenants = {{1}, {2, 3}}
    DefaultTenant = {2, 3}
    Workers = {c1, c2}
    BatchSize = 1
    MaxActive = 2
    MaxOps = 4
    MaxBreaks = 1
    MaxRestarts = 1
INVARIANTS TypeOK EntriesFitTheirType AsDecided TwinsDidNotSeeEachOther StaleTypeIsExplained
INVARIANTS IndexesHeal
SYMMETRY Symmetric
CHECK_DEADLOCK FALSE
