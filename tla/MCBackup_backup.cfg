SPECIFICATION Spec
CONSTANTS
    shop = shop
    blog = blog
    pg = pg
    redis = redis
    None = None
    Torn = Torn
    Commands = {c1, c2}
    Projects = {shop, blog}
    Postgres = {pg}
    Redis = {redis}
    Owner <- MCOwner
    Environment <- MCEnvironment
    Retention <- MCRetention
    Default = 1
    MaxWrites = 2
    MaxSnapshots = 2
    MaxFaults = 1
    MaxJobs = 3
SYMMETRY Symmetry
INVARIANTS TypeOK SnapshotIsComplete SafetyDumpExists NoCompleteStagingLeft
PROPERTIES PruneKeepsNewest
CHECK_DEADLOCK FALSE
