SPECIFICATION FairSpec
CONSTANTS
    None = None
    Handlers = {h1, h2}
    Deliveries = {d1, d2}
    Skew = 2
    Retention = 3
    MaxTime = 1
    MaxCrashes = 0
    MaxFaults = 1
PROPERTIES
    ReservedIsAnswered
