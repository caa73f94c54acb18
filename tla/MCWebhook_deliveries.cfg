SPECIFICATION Spec
SYMMETRY Symmetry
CONSTANTS
    None = None
    Handlers = {h1, h2}
    Deliveries = {d1, d2}
    Skew = 2
    Retention = 3
    MaxTime = 3
    MaxCrashes = 1
    MaxFaults = 1
INVARIANTS
    TypeOK
    DeploymentsSerialized
    DeployedAtMostOnce
    RefusalIsTruthful
    AcknowledgedStaysRefused
CHECK_DEADLOCK FALSE
