\* One page, published and then reindexed by an administrator.
SPECIFICATION IndexSpec
CONSTANTS
    Docs = {1}
    Pages = {1}
    Tenants = {{1}}
    DefaultTenant = {1}
    Workers = {w1}
    BatchSize = 1
    MaxActive = 1
    MaxOps = 2
    MaxBreaks = 0
    MaxRestarts = 0
INVARIANT IndexedIsFound
CHECK_DEADLOCK FALSE
