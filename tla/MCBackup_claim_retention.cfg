SPECIFICATION Spec
CONSTANTS
    shop = shop
    blog = blog
    pg = pg
    redis = redis
    None = None
    Torn = Torn
    Commands = {c1}
    Projects = {shop, blog}
    Postgres = {pg}
    Redis = {redis}
    Owner <- MCOwner
    Environment <- MCEnvironment
    Retention <- MCRetention
    Default = 1
    MaxWrites = 1
    MaxSnapshots = 2
    MaxFaults = 0
    MaxJobs = 3
PROPERTIES RetentionApplied
CHECK_DEADLOCK FALSE
