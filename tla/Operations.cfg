\* The media library with its backups, the tree of categories, the tags.
SPECIFICATION Spec
CONSTANTS
    Media = {f1}
    Users = {u1, u2}
    Drivers = {"postgres", "sqlite"}
    MaxBackups = 1
    MaxSeconds = 2
    MaxJobs = 3
    MaxFailures = 1
    MaxCats = 3
    Articles = {a1, a2}
    Editors = {u1, u2}
    MaxOrders = 4
    Pieces = {p1}
    MaxSlips = 1
    Tags = {t1, t2}
    Clerks = {u1, u2}
    Nobody = nobody
    Databases = {"sqlite", "postgres"}
    MaxWrites = 3
    MaxLosses = 1
INVARIANTS TypeOK BackupsHold TaxonomyHolds
SYMMETRY Symmetric
CHECK_DEADLOCK FALSE
